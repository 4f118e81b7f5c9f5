-------------------------- MODULE ControllerProofs --------------------------
(***************************************************************************)
(* Theorems about Controller for every set of runner names, every minimum  *)
(* and maximum, any capacity, provider and number of faults.               *)
(***************************************************************************)
EXTENDS Controller, TLAPS

-----------------------------------------------------------------------------
(***************************************************************************)
(* Types.                                                                  *)
(***************************************************************************)

\* An entry with another phase, or phase and reason, is an entry.
LEMMA EntryType ==
  ASSUME NEW i \in InstanceType, NEW p \in InstancePhases, NEW r \in Reasons
  PROVE  /\ [i EXCEPT !.phase = p] \in InstanceType
         /\ [i EXCEPT !.phase = p, !.reason = r] \in InstanceType
BY DEF InstanceType

LEMMA AbsentType == Absent \in InstanceType
BY DEF Absent, InstanceType, InstancePhases, Reasons

InstancesOK == instances \in [Names -> InstanceType]

LEMMA ReserveType ==
  ASSUME InstancesOK, NEW n \in Names, reserve(n) PROVE InstancesOK'
<1>1. [Absent EXCEPT !.phase = "provisioning"] \in InstanceType
  BY DEF Absent, InstanceType, InstancePhases, Reasons
<1> QED BY <1>1 DEF InstancesOK, reserve

LEMMA StartType ==
  ASSUME InstancesOK, NEW n \in Names, NEW known \in BOOLEAN, NEW phase \in InstancePhases
  PROVE  markStarted(n, known, phase) => InstancesOK'
<1>1. markStarted(n, known, phase) => InstancesOK'
  <2> DEFINE e == [instances[n] EXCEPT
                  !.id = TRUE, !.runnerID = known,
                  !.phase = IF @ = "provisioning" THEN phase ELSE @]
  <2>1. e \in InstanceType
    BY DEF InstancesOK, InstanceType, InstancePhases, Reasons
  <2>2. markStarted(n, known, phase) => instances' = [instances EXCEPT ![n] = e]
    BY DEF InstancesOK, markStarted
  <2> QED BY <2>1, <2>2 DEF InstancesOK
<1> QED BY <1>1

LEMMA JobType ==
  ASSUME InstancesOK, NEW n \in Names, NEW reason \in Reasons
  PROVE  /\ markBusy(n) => InstancesOK'
         /\ markDone(n, reason) => InstancesOK'
         /\ markExited(n) => InstancesOK'
<1>1. markBusy(n) => InstancesOK'
  <2> DEFINE e == [instances[n] EXCEPT !.phase = IF n \in Removing THEN @ ELSE "busy",
                                       !.job = TRUE, !.worked = TRUE]
  <2>1. e \in InstanceType
    BY DEF InstancesOK, InstanceType, InstancePhases, Reasons
  <2>2. markBusy(n) => instances' = [instances EXCEPT ![n] = e]
    BY DEF InstancesOK, markBusy
  <2> QED BY <2>1, <2>2 DEF InstancesOK
<1>2. markDone(n, reason) => InstancesOK'
  <2> DEFINE e == [instances[n] EXCEPT !.phase = "removing", !.reason = reason,
                                       !.worked = @ \/ reason = "job-completed"]
  <2>1. e \in InstanceType
    BY DEF InstancesOK, InstanceType, InstancePhases, Reasons
  <2>2. markDone(n, reason) => instances' = [instances EXCEPT ![n] = e]
    BY DEF InstancesOK, markDone
  <2> QED BY <2>1, <2>2 DEF InstancesOK
<1>3. markExited(n) => InstancesOK'
  <2> DEFINE e == [instances[n] EXCEPT !.phase = "removing", !.reason = "exited"]
  <2>1. e \in InstanceType
    BY DEF InstancesOK, InstanceType, InstancePhases, Reasons
  <2>2. markExited(n) => instances' = [instances EXCEPT ![n] = e]
    BY DEF InstancesOK, markExited
  <2> QED BY <2>1, <2>2 DEF InstancesOK
<1> QED BY <1>1, <1>2, <1>3

LEMMA RemovalType ==
  ASSUME InstancesOK, NEW n \in Names
  PROVE  /\ claimRemoval(n) => InstancesOK'
         /\ restoreBusy(n) => InstancesOK'
         /\ retryRemoval(n) => InstancesOK'
         /\ finishRemoval(n) => InstancesOK'
         /\ failProvision(n) => InstancesOK'
         /\ detachAll => InstancesOK'
         /\ idleForRemoval => InstancesOK'
         /\ markIdleAboveTarget(n) => InstancesOK'
         /\ cleanupRetryDue(n) => InstancesOK'
         /\ \A failed \in BOOLEAN : readinessResult(n, failed) => InstancesOK'
<1>1. claimRemoval(n) => InstancesOK'
  BY DEF InstancesOK, claimRemoval, InstanceType
<1>2. restoreBusy(n) => InstancesOK'
  <2> DEFINE e == [instances[n] EXCEPT !.phase = "busy", !.worked = TRUE, !.reason = "none",
                                       !.inFlight = FALSE, !.backoff = FALSE]
  <2>1. e \in InstanceType
    BY DEF InstancesOK, InstanceType, InstancePhases, Reasons
  <2>2. restoreBusy(n) => instances' = [instances EXCEPT ![n] = e]
    BY DEF InstancesOK, restoreBusy
  <2> QED BY <2>1, <2>2 DEF InstancesOK
<1>3. retryRemoval(n) => InstancesOK'
  <2> DEFINE e == [instances[n] EXCEPT !.inFlight = FALSE, !.backoff = TRUE]
  <2>1. e \in InstanceType
    BY DEF InstancesOK, InstanceType, InstancePhases, Reasons
  <2>2. retryRemoval(n) => instances' = [instances EXCEPT ![n] = e]
    BY DEF InstancesOK, retryRemoval
  <2> QED BY <2>1, <2>2 DEF InstancesOK
<1>4. finishRemoval(n) => InstancesOK'
  BY AbsentType DEF InstancesOK, finishRemoval
<1>5. failProvision(n) => InstancesOK'
  BY AbsentType DEF InstancesOK, failProvision
<1>6. detachAll => InstancesOK'
  BY AbsentType DEF InstancesOK, detachAll
<1>7. idleForRemoval => InstancesOK'
  BY EntryType DEF InstancesOK, idleForRemoval, InstancePhases, Reasons
<1>8. markIdleAboveTarget(n) => InstancesOK'
  <2> DEFINE e == [instances[n] EXCEPT !.phase = "removing", !.reason = "scaled-down"]
  <2>1. e \in InstanceType
    BY DEF InstancesOK, InstanceType, InstancePhases, Reasons
  <2>2. markIdleAboveTarget(n) => instances' = [instances EXCEPT ![n] = e]
    BY DEF InstancesOK, markIdleAboveTarget
  <2> QED BY <2>1, <2>2 DEF InstancesOK
<1>9. cleanupRetryDue(n) => InstancesOK'
  BY DEF InstancesOK, cleanupRetryDue, InstanceType
<1>10. readinessResult(n, TRUE) => InstancesOK'
  <2> DEFINE e == [instances[n] EXCEPT !.phase = "removing", !.reason = "readiness-failed"]
  <2>1. e \in InstanceType
    BY DEF InstancesOK, InstanceType, InstancePhases, Reasons
  <2>2. readinessResult(n, TRUE) => instances' = [instances EXCEPT ![n] = e]
    BY DEF InstancesOK, readinessResult
  <2> QED BY <2>1, <2>2 DEF InstancesOK
<1>11. readinessResult(n, FALSE) => InstancesOK'
  BY DEF InstancesOK, readinessResult, InstanceType, InstancePhases
<1> QED BY <1>1, <1>2, <1>3, <1>4, <1>5, <1>6, <1>7, <1>8, <1>9, <1>10, <1>11

-----------------------------------------------------------------------------
ListenerType == [at : ListenerSteps, ready : BOOLEAN]

\* The types of everything but the map.
RestOK ==
    /\ retry \in RetryStates /\ since \in [Names -> SinceStates]
    /\ desired \in 0 .. MaxDemand /\ pendingCompletions \in Nat /\ demandStale \in BOOLEAN
    /\ signal \in BOOLEAN /\ cancelAcquire \in {"nil", "set", "fired"}
    /\ leases \in SUBSET (Names \cup {NoName})
    /\ worker \in WorkerType
    /\ cleanup \in [Names -> CleanupType]
    /\ restored \in SUBSET Names
    /\ observers \in [Observers -> ObserverType]
    /\ cleanupTimers \in SUBSET Names
    /\ listener \in ListenerType
    /\ stopper \in StopperSteps /\ detached \in SUBSET Names
    /\ draining \in BOOLEAN /\ workDone \in BOOLEAN /\ expired \in BOOLEAN
    /\ github \in [Names -> {"unused", "absent", "registered", "working", "finished"}]
    /\ process \in [Names -> {"none", "up", "exited", "stray"}]
    /\ inbox \in SUBSET (Names \X {"started", "completed"})
    /\ faults \in 0 .. Faults

LEMMA SplitTypes == /\ TypeOK <=> InstancesOK /\ RestOK
                    /\ TypeOK' <=> InstancesOK' /\ RestOK'
BY DEF TypeOK, InstancesOK, RestOK, ListenerType

LEMMA InitType == Init => TypeOK
<1> SUFFICES ASSUME Init PROVE TypeOK
  OBVIOUS
<1> USE DEF Init, InitWith
<1>1. InstancesOK
  BY AbsentType DEF InstancesOK, initInstances
<1>2. retry \in RetryStates /\ since \in [Names -> SinceStates]
  BY DEF initRetry, RetryStates, SinceStates
<1>3. worker \in WorkerType
  BY SizesAssumption DEF WorkerAt, WorkerType, WorkerSteps
<1>4. cleanup \in [Names -> CleanupType]
  BY DEF CleanupType, CleanupSteps, NoCleanup
<1>5. observers \in [Observers -> ObserverType]
  BY DEF ObserverAt, ObserverType, ObserverSteps
<1>6. listener \in ListenerType /\ stopper \in StopperSteps
  BY DEF ListenerAt, ListenerSteps, ListenerType, StopperSteps
<1>7. faults \in 0 .. Faults /\ desired \in 0 .. MaxDemand
  BY BoundsAssumption
<1>8. RestOK
  BY <1>2, <1>3, <1>4, <1>5, <1>6, <1>7 DEF RestOK
<1> QED BY <1>1, <1>8, SplitTypes

LEMMA FaultsType ==
  ASSUME RestOK, NEW done \in BOOLEAN, mayFail(done) \/ UNCHANGED faults
  PROVE  faults' \in 0 .. Faults
BY BoundsAssumption DEF RestOK, mayFail

LEMMA CleanupMoves ==
  ASSUME RestOK, NEW n \in Names
  PROVE  /\ \A step \in CleanupSteps : cleanupSteps(n, step) => cleanup' \in [Names -> CleanupType]
         /\ cleanupEnds(n) => cleanup' \in [Names -> CleanupType]
         /\ removalFails(n) => /\ cleanup' \in [Names -> CleanupType]
                               /\ cleanupTimers' \in SUBSET Names
<1>1. \A step \in CleanupSteps : cleanupSteps(n, step) => cleanup' \in [Names -> CleanupType]
  BY DEF RestOK, CleanupType, cleanupSteps
<1>2. cleanupEnds(n) => cleanup' \in [Names -> CleanupType]
  BY DEF RestOK, CleanupType, CleanupSteps, NoCleanup, cleanupEnds
<1> QED BY <1>1, <1>2 DEF RestOK, removalFails

LEMMA CleanType ==
  ASSUME TypeOK, NEW n \in Names, Clean(n) PROVE TypeOK'
<1>1. InstancesOK /\ RestOK
  BY SplitTypes
<1> SUFFICES InstancesOK' /\ RestOK'
  BY SplitTypes
<1> USE DEF Cleaning, retryVars, demandVars, wakeVars, stopVars
<1>2. CASE LookUpRunner(n)
  <2>1. InstancesOK'
    BY <1>1, <1>2, RemovalType DEF LookUpRunner, removalFails, InstancesOK
  <2>2. RestOK'
    <3>1. cleanup' \in [Names -> CleanupType] /\ cleanupTimers' \in SUBSET Names
      BY <1>1, <1>2, CleanupMoves DEF LookUpRunner, CleanupSteps, RestOK
    <3> QED BY <1>1, <1>2, <3>1 DEF RestOK, LookUpRunner
  <2> QED BY <2>1, <2>2
<1>3. CASE AskGitHub(n)
  <2>1. InstancesOK'
    BY <1>1, <1>3, RemovalType DEF AskGitHub, removalFails, InstancesOK
  <2>2. RestOK'
    <3>1. cleanup' \in [Names -> CleanupType] /\ cleanupTimers' \in SUBSET Names
      BY <1>1, <1>3, CleanupMoves DEF AskGitHub, CleanupSteps, RestOK
    <3>2. ContextDone(n) \in BOOLEAN
      BY <1>1 DEF ContextDone, RestOK
    <3>3. faults' \in 0 .. Faults
      BY <1>1, <1>3, <3>2, FaultsType DEF AskGitHub
    <3>4. github' \in [Names -> {"unused", "absent", "registered", "working", "finished"}]
      BY <1>1, <1>3 DEF RestOK, AskGitHub
    <3> QED BY <1>1, <1>3, <3>1, <3>3, <3>4 DEF RestOK, AskGitHub
  <2> QED BY <2>1, <2>2
<1>4. CASE Refused(n)
  <2>1. InstancesOK'
    BY <1>1, <1>4, RemovalType DEF Refused, InstancesOK
  <2>2. RestOK'
    BY <1>1, <1>4 DEF RestOK, Refused, recordWorkSuccess, clearRetry, RetryStates, CleanupType,
         CleanupSteps, cleanupSteps, cleanupEnds, NoCleanup
  <2> QED BY <2>1, <2>2
<1>5. CASE SignalRestored(n)
  BY <1>1, <1>5 DEF InstancesOK, RestOK, SignalRestored, signalReconcile
<1>6. CASE RemoveInstance(n)
  <2>1. InstancesOK'
    BY <1>1, <1>6, RemovalType DEF RemoveInstance, removalFails, InstancesOK
  <2>2. process' \in [Names -> {"none", "up", "exited", "stray"}]
    BY <1>1, <1>6 DEF RestOK, RemoveInstance
  <2>3. RestOK'
    <3>1. cleanup' \in [Names -> CleanupType] /\ cleanupTimers' \in SUBSET Names
      BY <1>1, <1>6, CleanupMoves DEF RemoveInstance, CleanupSteps, RestOK
    <3>2. ContextDone(n) \in BOOLEAN
      BY <1>1 DEF ContextDone, RestOK
    <3>3. faults' \in 0 .. Faults
      BY <1>1, <1>6, <3>2, FaultsType DEF RemoveInstance
    <3> QED BY <1>1, <1>6, <2>2, <3>1, <3>3 DEF RestOK, RemoveInstance
  <2> QED BY <2>1, <2>3
<1>7. CASE FinishRemoval(n)
  <2>1. InstancesOK'
    BY <1>1, <1>7, RemovalType DEF FinishRemoval, InstancesOK
  <2>2. RestOK'
    BY <1>1, <1>7 DEF RestOK, FinishRemoval, CleanupType, CleanupSteps,
         cleanupSteps, cleanupEnds, NoCleanup
  <2> QED BY <2>1, <2>2
<1>8. CASE SignalRemoved(n)
  BY <1>1, <1>8 DEF InstancesOK, RestOK, SignalRemoved, signalReconcile, CleanupType, CleanupSteps,
         cleanupEnds, NoCleanup
<1> QED BY <1>2, <1>3, <1>4, <1>5, <1>6, <1>7, <1>8 DEF Clean

LEMMA TargetType ==
  ASSUME RestOK PROVE Target \in 0 .. MaxRunners
BY SizesAssumption, BoundsAssumption DEF RestOK, Target

LEMMA WorkerMoves ==
  ASSUME NEW step \in WorkerSteps
  PROVE  /\ WorkerAt(step) \in WorkerType
         /\ \A t \in 0 .. MaxRunners : [WorkerAt(step) EXCEPT !.target = t] \in WorkerType
         /\ \A n \in Names, b \in BOOLEAN :
               /\ [WorkerAt(step) EXCEPT !.runner = n] \in WorkerType
               /\ [WorkerAt(step) EXCEPT !.runner = n, !.removeNow = b] \in WorkerType
         /\ worker \in WorkerType => /\ [worker EXCEPT !.at = step] \in WorkerType
                                     /\ \A b \in BOOLEAN :
                                           [worker EXCEPT !.at = step, !.known = b] \in WorkerType
<1> USE SizesAssumption DEF WorkerType
<1>1. WorkerAt(step) \in WorkerType
  BY DEF WorkerAt
<1>2. \A t \in 0 .. MaxRunners : [WorkerAt(step) EXCEPT !.target = t] \in WorkerType
  BY <1>1
<1>3. \A n \in Names, b \in BOOLEAN :
         /\ [WorkerAt(step) EXCEPT !.runner = n] \in WorkerType
         /\ [WorkerAt(step) EXCEPT !.runner = n, !.removeNow = b] \in WorkerType
  BY <1>1
<1>4. worker \in WorkerType => /\ [worker EXCEPT !.at = step] \in WorkerType
                               /\ \A b \in BOOLEAN :
                                     [worker EXCEPT !.at = step, !.known = b] \in WorkerType
  OBVIOUS
<1> QED BY <1>1, <1>2, <1>3, <1>4

LEMMA DecideType ==
  ASSUME TypeOK, Decide PROVE TypeOK'
<1>1. InstancesOK /\ RestOK
  BY SplitTypes
<1> SUFFICES InstancesOK' /\ RestOK'
  BY SplitTypes
<1> USE DEF Deciding, OnlyWorker, workerGoes, workerSteps, WorkerSteps,
            retryVars, demandVars, wakeVars, stopVars, worldVars
<1>2. CASE LoopStops \/ LoopWakes \/ EnterPass
  BY <1>1, <1>2, WorkerMoves DEF InstancesOK, RestOK, LoopStops, LoopWakes, EnterPass
<1>3. CASE NothingToClaim \/ CompareCount \/ NothingToTrim \/ CheckSatisfied
  BY <1>1, <1>3, WorkerMoves
     DEF InstancesOK, RestOK, NothingToClaim, CompareCount, NothingToTrim, CheckSatisfied
<1>4. CASE ReadTarget
  BY <1>1, <1>4, WorkerMoves, TargetType DEF InstancesOK, RestOK, ReadTarget
<1>5. CASE ClearSatisfiedRetry \/ BeginAcquire
  BY <1>1, <1>5, WorkerMoves
     DEF InstancesOK, RestOK, ClearSatisfiedRetry, BeginAcquire, clearRetry, RetryStates
<1>6. CASE CapacityGranted \/ CapacityAbandoned
  BY <1>1, <1>6, WorkerMoves DEF InstancesOK, RestOK, CapacityGranted, CapacityAbandoned
<1>7. CASE RereadTarget
  <2>1. [WorkerAt("verify") EXCEPT !.target = Target] \in WorkerType /\ WorkerAt("asleep") \in WorkerType
    BY <1>1, WorkerMoves, TargetType
  <2>2. worker' \in WorkerType /\ leases' \in SUBSET (Names \cup {NoName})
    BY <1>1, <1>7, <2>1 DEF RestOK, RereadTarget, returnLease
  <2> QED BY <1>1, <1>7, <2>2 DEF InstancesOK, RestOK, RereadTarget
<1>8. CASE AbandonStart
  BY <1>1, <1>8, WorkerMoves DEF InstancesOK, RestOK, AbandonStart, returnLease
<1>9. ASSUME NEW n \in Names, ClaimCleanup(n) PROVE InstancesOK' /\ RestOK'
  <2>1. InstancesOK'
    BY <1>1, <1>9, RemovalType DEF ClaimCleanup
  <2>2. RestOK'
    BY <1>1, <1>9, WorkerMoves DEF RestOK, ClaimCleanup, CleanupType, CleanupSteps
  <2> QED BY <2>1, <2>2
<1>10. ASSUME NEW n \in Names, ScaleDown(n) PROVE InstancesOK' /\ RestOK'
  <2>1. InstancesOK'
    BY <1>1, <1>10, RemovalType DEF ScaleDown
  <2>2. RestOK'
    BY <1>1, <1>10, WorkerMoves DEF RestOK, ScaleDown
  <2> QED BY <2>1, <2>2
<1>11. ASSUME NEW n \in Names, ReserveName(n) PROVE InstancesOK' /\ RestOK'
  <2>1. InstancesOK'
    BY <1>1, <1>11, ReserveType DEF ReserveName
  <2>2. RestOK'
    BY <1>1, <1>11, WorkerMoves DEF RestOK, ReserveName, clearRetry, RetryStates
  <2> QED BY <2>1, <2>2
<1> QED BY <1>2, <1>3, <1>4, <1>5, <1>6, <1>7, <1>8, <1>9, <1>10, <1>11 DEF Decide

LEMMA RetryType ==
  ASSUME RestOK, NEW n \in Names,
         \/ recordStartAttempt(n) \/ recordStartFailure(n) \/ recordStartSuccess(n)
         \/ recordWorkSuccess(n) \/ clearRetry \/ UNCHANGED retryVars
  PROVE  retry' \in RetryStates /\ since' \in [Names -> SinceStates]
BY DEF RestOK, recordStartAttempt, recordStartFailure, recordStartSuccess, recordWorkSuccess,
       clearRetry, retryVars, RetryStates, SinceStates

LEMMA StartingType ==
  ASSUME TypeOK, NEW n \in Names, Start(n) PROVE TypeOK'
<1>1. InstancesOK /\ RestOK
  BY SplitTypes
<1> SUFFICES InstancesOK' /\ RestOK'
  BY SplitTypes
<1> USE DEF Starting, workerGoes, workerSteps, WorkerSteps, retryVars, demandVars, wakeVars, stopVars
<1>2. CASE RecordStartAttempt(n)
  <2>1. retry' \in RetryStates /\ since' \in [Names -> SinceStates]
    BY <1>1, <1>2, RetryType DEF RecordStartAttempt
  <2> QED BY <1>1, <1>2, <2>1, WorkerMoves DEF InstancesOK, RestOK, RecordStartAttempt
<1>3. CASE GenerateJIT(n)
  <2>1. worker' \in WorkerType
    <3>1. PICK known \in BOOLEAN : worker' = [worker EXCEPT !.at = "starting", !.known = known]
      BY <1>3 DEF GenerateJIT
    <3>2. [worker EXCEPT !.at = "starting", !.known = known] \in WorkerType
      BY <1>1, WorkerMoves DEF RestOK
    <3> QED BY <3>1, <3>2
  <2>2. faults' \in 0 .. Faults
    BY <1>1, <1>3, FaultsType DEF GenerateJIT
  <2> QED BY <1>1, <1>3, <2>1, <2>2 DEF InstancesOK, RestOK, GenerateJIT
<1>4. CASE GenerateJITFails(n)
  <2>1. faults' \in 0 .. Faults
    BY <1>1, <1>4, FaultsType DEF GenerateJITFails, RestOK
  <2> QED BY <1>1, <1>4, <2>1, WorkerMoves DEF InstancesOK, RestOK, GenerateJITFails
<1>5. CASE ProviderStarts(n)
  BY <1>1, <1>5, WorkerMoves DEF InstancesOK, RestOK, ProviderStarts
<1>6. CASE ProviderStartFails(n)
  <2>1. faults' \in 0 .. Faults
    BY <1>1, <1>6, FaultsType DEF ProviderStartFails, RestOK
  <2> QED BY <1>1, <1>6, <2>1, WorkerMoves DEF InstancesOK, RestOK, ProviderStartFails
<1>7. CASE DropProvision(n)
  <2>1. InstancesOK'
    BY <1>1, <1>7, RemovalType DEF DropProvision
  <2>2. retry' \in RetryStates /\ since' \in [Names -> SinceStates]
    BY <1>1, <1>7, RetryType DEF DropProvision, RestOK
  <2> QED BY <1>1, <1>7, <2>1, <2>2, WorkerMoves DEF RestOK, DropProvision
<1>8. CASE MarkStarted(n)
  <2>0. worker.known \in BOOLEAN
    BY <1>1 DEF RestOK, WorkerType
  <2>1. InstancesOK'
    <3>1. UNCHANGED instances \/ markStarted(n, worker.known, "provisioning")
          \/ markStarted(n, worker.known, "idle")
      BY <1>8 DEF MarkStarted, markProvisioned, markReady
    <3> QED BY <1>1, <2>0, <3>1, StartType DEF InstancesOK, InstancePhases
  <2>2. worker' \in WorkerType
    <3> DEFINE b == n \in Removing
               at == IF NeedsReadiness THEN "launched" ELSE "succeeding"
    <3>1. worker' = [worker EXCEPT !.at = "orphan"]
          \/ worker' = [WorkerAt(at) EXCEPT !.runner = n, !.removeNow = b]
      BY <1>8 DEF MarkStarted
    <3>2. b \in BOOLEAN /\ at \in WorkerSteps /\ "orphan" \in WorkerSteps
      OBVIOUS
    <3>3. [worker EXCEPT !.at = "orphan"] \in WorkerType
      BY <1>1, <3>2, WorkerMoves DEF RestOK
    <3> HIDE DEF b, at
    <3>4. [WorkerAt(at) EXCEPT !.runner = n, !.removeNow = b] \in WorkerType
      BY <3>2, WorkerMoves
    <3> QED BY <3>1, <3>3, <3>4
  <2> QED BY <1>1, <1>8, <2>1, <2>2 DEF RestOK, MarkStarted
<1>9. CASE RemoveOrphan(n)
  <2>1. faults' \in 0 .. Faults
    BY <1>1, <1>9, FaultsType DEF RemoveOrphan
  <2> QED BY <1>1, <1>9, <2>1, WorkerMoves DEF InstancesOK, RestOK, RemoveOrphan
<1>10. CASE RecordStartSuccess(n)
  <2>1. retry' \in RetryStates /\ since' \in [Names -> SinceStates]
    BY <1>1, <1>10, RetryType DEF RecordStartSuccess
  <2> QED BY <1>1, <1>10, <2>1, WorkerMoves DEF InstancesOK, RestOK, RecordStartSuccess
<1>11. CASE LaunchedRemoved(n)
  BY <1>1, <1>11, WorkerMoves DEF InstancesOK, RestOK, LaunchedRemoved, signalReconcile
<1>12. CASE LaunchedDraining(n)
  <2>1. InstancesOK'
    BY <1>1, <1>12, JobType DEF LaunchedDraining, InstancesOK, Reasons
  <2> QED BY <1>1, <1>12, <2>1, WorkerMoves DEF RestOK, LaunchedDraining, CleanupType, CleanupSteps
<1>13. CASE LaunchedCleaned(n)
  BY <1>1, <1>13, WorkerMoves DEF InstancesOK, RestOK, LaunchedCleaned
<1>14. CASE LaunchedWatched(n)
  <2>1. ObserverAt("waiting") \in ObserverType
    BY DEF ObserverAt, ObserverType, ObserverSteps
  <2> QED BY <1>1, <1>14, <2>1, WorkerMoves DEF InstancesOK, RestOK, LaunchedWatched
<1> QED BY <1>2, <1>3, <1>4, <1>5, <1>6, <1>7, <1>8, <1>9, <1>10, <1>11, <1>12, <1>13, <1>14
        DEF Start

LEMMA ObserverMoves ==
  ASSUME NEW step \in ObserverSteps
  PROVE  /\ ObserverAt(step) \in ObserverType
         /\ \A b \in BOOLEAN : [ObserverAt(step) EXCEPT !.fresh = b] \in ObserverType
<1>1. ObserverAt(step) \in ObserverType
  BY DEF ObserverAt, ObserverType
<1> QED BY <1>1 DEF ObserverType

LEMMA ObservingType ==
  ASSUME TypeOK, NEW o \in Observers, Observe(o) PROVE TypeOK'
<1>1. InstancesOK /\ RestOK /\ o[1] \in Names
  BY SplitTypes DEF Observers
<1> SUFFICES InstancesOK' /\ RestOK'
  BY SplitTypes
<1> USE ObserverMoves
    DEF Observing, observerGoes, ObserverSteps, retryVars, demandVars, wakeVars, stopVars
<1>2. CASE ObserverCancelled(o)
  BY <1>1, <1>2 DEF InstancesOK, RestOK, ObserverCancelled
<1>3. CASE ObserveExit(o)
  BY <1>1, <1>3 DEF InstancesOK, RestOK, ObserveExit
<1>4. CASE MarkExited(o)
  <2>1. InstancesOK'
    BY <1>1, <1>4, JobType DEF MarkExited, InstancesOK, Reasons
  <2>2. observers' \in [Observers -> ObserverType]
    <3>1. exitedUnassigned(o[1]) \in BOOLEAN
      BY <1>1 DEF exitedUnassigned, InstancesOK, InstanceType
    <3> DEFINE b == exitedUnassigned(o[1])
               e == [observers[o] EXCEPT !.at = "barrier", !.unassigned = b]
    <3>2. observers' = [observers EXCEPT ![o] = e] \/ observers' = [observers EXCEPT ![o] = ObserverAt("none")]
      BY <1>1, <1>4 DEF MarkExited, RestOK
    <3>3. e \in ObserverType
      <4>1. observers[o] \in ObserverType
        BY <1>1 DEF RestOK
      <4>2. b \in BOOLEAN
        BY <3>1
      <4> HIDE DEF b
      <4> QED BY <4>1, <4>2 DEF ObserverType
    <3> HIDE DEF e
    <3> QED BY <1>1, <3>2, <3>3 DEF RestOK
  <2> QED BY <1>1, <1>4, <2>1, <2>2 DEF RestOK, MarkExited
<1>5. CASE RaiseBarrier(o)
  <2>1. demandStale' \in BOOLEAN
    BY <1>1, <1>5 DEF RestOK, RaiseBarrier, ObserverType
  <2> QED BY <1>1, <1>5, <2>1 DEF InstancesOK, RestOK, RaiseBarrier
<1>6. CASE ReportReady(o) \/ ReportUnready(o)
  <2>1. InstancesOK'
    BY <1>1, <1>6, RemovalType DEF ReportReady, ReportUnready
  <2>2. faults' \in 0 .. Faults
    BY <1>1, <1>6, FaultsType DEF ReportReady, ReportUnready
  <2>3. observers' \in [Observers -> ObserverType]
    BY <1>1, <1>6 DEF RestOK, ReportReady, ReportUnready
  <2> QED BY <1>1, <1>6, <2>1, <2>2, <2>3 DEF RestOK, ReportReady, ReportUnready
<1>7. CASE ObservedSuccess(o) \/ ObservedFailure(o)
  <2>1. retry' \in RetryStates /\ since' \in [Names -> SinceStates]
    BY <1>1, <1>7, RetryType DEF ObservedSuccess, ObservedFailure
  <2> QED BY <1>1, <1>7, <2>1 DEF InstancesOK, RestOK, ObservedSuccess, ObservedFailure
<1>8. CASE ObserverSignals(o)
  BY <1>1, <1>8 DEF InstancesOK, RestOK, ObserverSignals, signalReconcile
<1> QED BY <1>2, <1>3, <1>4, <1>5, <1>6, <1>7, <1>8 DEF Observe

LEMMA TimersType ==
  ASSUME TypeOK,
         \/ RetryDeadlinePasses \/ RetryTimerFires
         \/ \E n \in Names : CleanupDeadlinePasses(n) \/ CleanupTimerFires(n)
  PROVE  TypeOK'
<1>1. InstancesOK /\ RestOK
  BY SplitTypes
<1> SUFFICES InstancesOK' /\ RestOK'
  BY SplitTypes
<1> USE DEF Waiting, retryVars, demandVars, wakeVars, stopVars, worldVars
<1>2. CASE RetryDeadlinePasses
  BY <1>1, <1>2 DEF InstancesOK, RestOK, RetryDeadlinePasses, RetryDeadline, RetryStates
<1>3. CASE RetryTimerFires
  BY <1>1, <1>3 DEF InstancesOK, RestOK, RetryTimerFires, clearRetry, signalReconcile, RetryStates
<1>4. ASSUME NEW n \in Names, CleanupDeadlinePasses(n) PROVE InstancesOK' /\ RestOK'
  BY <1>1, <1>4, RemovalType DEF RestOK, CleanupDeadlinePasses
<1>5. ASSUME NEW n \in Names, CleanupTimerFires(n) PROVE InstancesOK' /\ RestOK'
  BY <1>1, <1>5 DEF InstancesOK, RestOK, CleanupTimerFires, signalReconcile
<1> QED BY <1>2, <1>3, <1>4, <1>5

LEMMA ListenerMoves ==
  ASSUME NEW step \in ListenerSteps PROVE ListenerAt(step) \in ListenerType
BY DEF ListenerAt, ListenerType

LEMMA ListenType ==
  ASSUME TypeOK, Listen PROVE TypeOK'
<1>1. InstancesOK /\ RestOK
  BY SplitTypes
<1> SUFFICES InstancesOK' /\ RestOK'
  BY SplitTypes
<1> USE ListenerMoves DEF Listening, listenerGoes, ListenerSteps, retryVars, demandVars, wakeVars, stopVars
<1>2. CASE PendCompletion
  BY <1>1, <1>2 DEF InstancesOK, RestOK, PendCompletion
<1>3. CASE SignalCompletion \/ SignalDesired
  <2>1. signal' \in BOOLEAN /\ cancelAcquire' \in {"nil", "set", "fired"}
    BY <1>1, <1>3 DEF RestOK, SignalCompletion, SignalDesired, signalReconcile
  <2>2. listener' \in ListenerType
    BY <1>3 DEF SignalCompletion, SignalDesired
  <2> QED BY <1>1, <1>3, <2>1, <2>2 DEF InstancesOK, RestOK, SignalCompletion, SignalDesired
<1>4. ASSUME NEW d \in 0 .. MaxDemand, HandleDesiredRunnerCount(d) PROVE InstancesOK' /\ RestOK'
  <2>1. \A o \in Observers : [observers[o] EXCEPT !.fresh = FALSE] \in ObserverType
    BY <1>1 DEF RestOK, ObserverType
  <2>2. observers' \in [Observers -> ObserverType]
    BY <1>1, <1>4, <2>1 DEF RestOK, HandleDesiredRunnerCount
  <2>3. listener' \in ListenerType
    <3>1. listener' = ListenerAt("rest") \/ listener' = ListenerAt("signalDesired")
      BY <1>4 DEF HandleDesiredRunnerCount
    <3> QED BY <3>1
  <2>4. desired' \in 0 .. MaxDemand /\ pendingCompletions' \in Nat /\ demandStale' \in BOOLEAN
    <3>1. \/ desired' = desired /\ pendingCompletions' = pendingCompletions /\ demandStale' = demandStale
          \/ desired' = d /\ pendingCompletions' = 0 /\ demandStale' = FALSE
      BY <1>4 DEF HandleDesiredRunnerCount
    <3>2. desired \in 0 .. MaxDemand /\ pendingCompletions \in Nat /\ demandStale \in BOOLEAN
      BY <1>1 DEF RestOK
    <3>3. desired' \in 0 .. MaxDemand /\ pendingCompletions' \in Nat
      BY <3>1, <3>2
    <3>4. demandStale' \in BOOLEAN
      BY <3>1, <3>2, Zenon
    <3> QED BY <3>3, <3>4
  <2> QED BY <1>1, <1>4, <2>2, <2>3, <2>4 DEF InstancesOK, RestOK, HandleDesiredRunnerCount
<1>5. ASSUME NEW n \in Names, HandleJobStarted(n) PROVE InstancesOK' /\ RestOK'
  <2>1. InstancesOK'
    BY <1>1, <1>5, JobType DEF HandleJobStarted, InstancesOK, Reasons
  <2>2. retry' \in RetryStates /\ since' \in [Names -> SinceStates]
    BY <1>1, <1>5, RetryType DEF HandleJobStarted
  <2> QED BY <1>1, <1>5, <2>1, <2>2 DEF RestOK, HandleJobStarted
<1>6. ASSUME NEW n \in Names, HandleJobCompleted(n) PROVE InstancesOK' /\ RestOK'
  <2>1. InstancesOK'
    BY <1>1, <1>6, JobType DEF HandleJobCompleted, InstancesOK, Reasons
  <2>2. retry' \in RetryStates /\ since' \in [Names -> SinceStates]
    BY <1>1, <1>6, RetryType DEF HandleJobCompleted
  <2>3. instances[n].id \in BOOLEAN
    BY <1>1 DEF InstancesOK, InstanceType
  <2>4. listener' \in ListenerType
    <3> DEFINE e == [at |-> "pendCompletion", ready |-> instances[n].id]
    <3>1. e \in ListenerType
      BY <2>3 DEF ListenerType
    <3>2. listener' \in {e, ListenerAt("completed")}
      BY <1>6 DEF HandleJobCompleted
    <3> QED BY <3>1, <3>2
  <2> QED BY <1>1, <1>6, <2>1, <2>2, <2>4 DEF RestOK, HandleJobCompleted
<1> QED BY <1>2, <1>3, <1>4, <1>5, <1>6 DEF Listen

LEMMA StopType ==
  ASSUME TypeOK, Stop PROVE TypeOK'
<1>1. InstancesOK /\ RestOK
  BY SplitTypes
<1> SUFFICES InstancesOK' /\ RestOK'
  BY SplitTypes
<1> USE DEF Stopping, StopperSteps, retryVars, demandVars, wakeVars, stopVars
<1>2. CASE DrainBegins \/ ShutdownBegins \/ DrainCompletes \/ DrainExpires \/ SessionEnds \/ ShutdownEnds
  BY <1>1, <1>2 DEF InstancesOK, RestOK, DrainBegins, ShutdownBegins, DrainCompletes, DrainExpires,
       SessionEnds, ShutdownEnds
<1>3. CASE DrainStopsWork \/ ShutdownStopsWork
  BY <1>1, <1>3 DEF InstancesOK, RestOK, DrainStopsWork, ShutdownStopsWork, stopWork, clearRetry, RetryStates
<1>4. CASE DrainBoundary
  <2>1. InstancesOK'
    BY <1>1, <1>4, EntryType DEF DrainBoundary, idleForRemoval, InstancesOK, InstancePhases, Reasons
  <2> QED BY <1>1, <1>4, <2>1 DEF RestOK, DrainBoundary
<1>5. CASE ShutdownDetaches
  <2>1. InstancesOK'
    BY AbsentType, <1>5 DEF ShutdownDetaches, detachAll, InstancesOK
  <2> QED BY <1>1, <1>5, <2>1 DEF RestOK, ShutdownDetaches, Tracked
<1>6. ASSUME NEW n \in Names, DrainClaims(n) PROVE InstancesOK' /\ RestOK'
  BY <1>1, <1>6, RemovalType DEF RestOK, DrainClaims, CleanupType, CleanupSteps
<1>7. ASSUME NEW n \in Names, ShutdownRemoves(n) PROVE InstancesOK' /\ RestOK'
  <2>1. faults' \in 0 .. Faults
    BY <1>1, <1>7, FaultsType DEF ShutdownRemoves
  <2>2. process' \in [Names -> {"none", "up", "exited", "stray"}]
    BY <1>1, <1>7 DEF RestOK, ShutdownRemoves
  <2> QED BY <1>1, <1>7, <2>1, <2>2 DEF InstancesOK, RestOK, ShutdownRemoves
<1> QED BY <1>2, <1>3, <1>4, <1>5, <1>6, <1>7 DEF Stop

LEMMA WorldType ==
  ASSUME TypeOK, NEW n \in Names, World(n) PROVE TypeOK'
<1>1. InstancesOK /\ RestOK
  BY SplitTypes
<1> SUFFICES InstancesOK' /\ RestOK'
  BY SplitTypes
<1> USE DEF Outside, retryVars, demandVars, wakeVars, taskVars, stopVars
<1>2. CASE JobAssigned(n) \/ JobEnds(n) \/ ProcessExits(n)
  BY <1>1, <1>2 DEF InstancesOK, RestOK, JobAssigned, JobEnds, ProcessExits
<1>3. CASE ProcessCrashes(n)
  <2>1. faults' \in 0 .. Faults
    BY <1>1, <1>3, FaultsType DEF ProcessCrashes
  <2> QED BY <1>1, <1>3, <2>1 DEF InstancesOK, RestOK, ProcessCrashes
<1> QED BY <1>2, <1>3 DEF World

LEMMA NextType ==
  ASSUME TypeOK, [Next]_vars PROVE TypeOK'
<1>1. CASE UNCHANGED vars
  BY <1>1 DEF TypeOK, vars, retryVars, demandVars, wakeVars, taskVars, stopVars, worldVars
<1> QED BY <1>1, CleanType, DecideType, StartingType, ObservingType, TimersType, ListenType,
           StopType, WorldType DEF Next, Over

\* The variables keep their types, in every step of every goroutine.
THEOREM TypeCorrect == Spec => []TypeOK
BY InitType, NextType, PTL DEF Spec

-----------------------------------------------------------------------------
(***************************************************************************)
(* The inductive invariant.                                                *)
(***************************************************************************)

\* startInstanceWithLease is at work on n.
StartSteps ==
    {"reserved", "jit", "starting", "marking", "succeeding", "launched", "failing", "orphan"}

StartingOf(n) == worker.at \in StartSteps /\ worker.runner = n

\* removeClaimedInstance is at work on n, up to its last signal.
CleaningSteps == {"claimed", "asking", "refused", "removing", "finishing"}

\* A name that has not been given to a runner yet leaves no trace.
UnusedNames ==
    \A n \in Names : github[n] = "unused" =>
       n \notin Tracked /\ cleanup[n].at = "none" /\ process[n] = "none"

\* cleanupInFlight says that a cleanup is at work, except for the worker's own,
\* and an entry is gone before the cleanup that removed it signals.
CleanupOwned ==
    \A n \in Names :
       /\ cleanup[n].at \in CleaningSteps /\ n \in Tracked =>
             \/ instances[n].inFlight
             \/ cleanup[n].by = "worker" /\ worker.at = "cleaning" /\ worker.runner = n
       /\ cleanup[n].at = "signalling" => n \notin Tracked

\* Nobody cleans up a runner while the worker still starts it, and until Shutdown
\* detaches it it has its entry and its lease.
StartOwned ==
    \A n \in Names : StartingOf(n) =>
       /\ cleanup[n].at = "none" /\ github[n] # "unused"
       /\ ~HandedOver => n \in Tracked /\ n \in leases /\ worker.at # "orphan"

\* There is an instance only after the provider has started it, or has failed to,
\* and before it has removed it.
InstanceExpected ==
    \A n \in Names :
       /\ StartingOf(n) /\ worker.at \in {"reserved", "jit", "starting"} => process[n] = "none"
       /\ StartingOf(n) /\ worker.at = "failing" => process[n] \in {"none", "stray"}
       /\ cleanup[n].at \in {"finishing", "signalling"} => process[n] = "none"

\* Drain sweeps when the worker has ended, Shutdown detaches after stopWork.
StopOrder ==
    /\ stopper \in {"sweeping", "drained"} => worker.at = "stopped"
    /\ stopper \in {"detaching", "removing", "over"} => workDone

Owned ==
    /\ UnusedNames
    /\ CleanupOwned
    /\ StartOwned
    /\ InstanceExpected
    /\ StopOrder
    /\ LeaseCoversInstance

IInv == TypeOK /\ Owned

-----------------------------------------------------------------------------
(***************************************************************************)
(* What the operations on the map do to an entry.                          *)
(***************************************************************************)

Terminal(n) == n \in Removing /\ instances[n].reason \in {"job-completed", "exited"}

\* No entry appears, and one that is terminal only disappears.
Ages ==
    \A m \in Names :
       /\ m \in Tracked' => m \in Tracked
       /\ Terminal(m) /\ m \in Tracked' =>
             m \in Removing' /\ instances'[m].reason = instances[m].reason

\* No entry appears or disappears, and no cleanup is forgotten.
Keeps ==
    /\ Tracked' = Tracked
    /\ \A m \in Names : instances[m].inFlight => instances'[m].inFlight

LEMMA NoChange ==
  ASSUME UNCHANGED instances PROVE Ages /\ Keeps
BY DEF Ages, Keeps, Terminal, Tracked, Removing

\* An entry changes into e.
LEMMA OneEntry ==
  ASSUME InstancesOK, NEW n \in Names, NEW e \in InstanceType,
         instances' = [instances EXCEPT ![n] = e],
         e.phase # "absent" => instances[n].phase # "absent",
         Terminal(n) /\ e.phase # "absent" => e.phase = "removing" /\ e.reason = instances[n].reason
  PROVE  /\ Ages
         /\ (instances[n].phase # "absent" => e.phase # "absent") /\ (instances[n].inFlight => e.inFlight)
               => Keeps
<1>1. \A m \in Names : instances'[m] = IF m = n THEN e ELSE instances[m]
  BY DEF InstancesOK
<1>2. Ages
  BY <1>1 DEF Ages, Terminal, Tracked, Removing
<1>3. ASSUME instances[n].phase # "absent" => e.phase # "absent", instances[n].inFlight => e.inFlight
      PROVE  Keeps
  BY <1>1, <1>3 DEF Keeps, Tracked
<1> QED BY <1>2, <1>3

LEMMA StartsAge ==
  ASSUME InstancesOK, NEW n \in Names, n \in Tracked, NEW known \in BOOLEAN,
         NEW phase \in {"provisioning", "idle"}, markStarted(n, known, phase)
  PROVE  Ages /\ Keeps
<1> DEFINE e == [instances[n] EXCEPT !.id = TRUE, !.runnerID = known,
                                     !.phase = IF @ = "provisioning" THEN phase ELSE @]
<1>1. e \in InstanceType
  BY DEF InstancesOK, InstanceType, InstancePhases
<1>2. instances' = [instances EXCEPT ![n] = e]
  BY DEF InstancesOK, markStarted
<1>3. /\ instances[n].phase # "absent" /\ e.phase # "absent" /\ e.inFlight = instances[n].inFlight
      /\ Terminal(n) => e.phase = "removing" /\ e.reason = instances[n].reason
  BY DEF InstancesOK, InstanceType, Tracked, Terminal, Removing
<1> HIDE DEF e
<1> QED BY <1>1, <1>2, <1>3, OneEntry

LEMMA JobsAge ==
  ASSUME InstancesOK, NEW n \in Names, NEW reason \in Reasons
  PROVE  /\ acceptsJob(n) /\ markBusy(n) => Ages /\ Keeps
         /\ acceptsDone(n, reason) /\ markDone(n, reason) => Ages /\ Keeps
         /\ acceptsExit(n) /\ markExited(n) => Ages /\ Keeps
<1>1. ASSUME acceptsJob(n), markBusy(n) PROVE Ages /\ Keeps
  <2> DEFINE e == [instances[n] EXCEPT !.phase = IF n \in Removing THEN @ ELSE "busy",
                                       !.job = TRUE, !.worked = TRUE]
  <2>1. e \in InstanceType
    BY DEF InstancesOK, InstanceType, InstancePhases
  <2>2. instances' = [instances EXCEPT ![n] = e]
    BY <1>1 DEF InstancesOK, markBusy
  <2>3. /\ instances[n].phase # "absent" /\ e.phase # "absent" /\ e.inFlight = instances[n].inFlight
        /\ ~Terminal(n)
    BY <1>1 DEF InstancesOK, InstanceType, acceptsJob, IsUnassignedRemoval, Busy, Terminal, Removing
  <2> HIDE DEF e
  <2> QED BY <2>1, <2>2, <2>3, OneEntry
<1>2. ASSUME acceptsDone(n, reason), markDone(n, reason) PROVE Ages /\ Keeps
  <2> DEFINE e == [instances[n] EXCEPT !.phase = "removing", !.reason = reason,
                                       !.worked = @ \/ reason = "job-completed"]
  <2>1. e \in InstanceType
    BY DEF InstancesOK, InstanceType, InstancePhases
  <2>2. instances' = [instances EXCEPT ![n] = e]
    BY <1>2 DEF InstancesOK, markDone
  <2>3. /\ instances[n].phase # "absent" /\ e.phase # "absent" /\ e.inFlight = instances[n].inFlight
        /\ ~Terminal(n)
    BY <1>2 DEF InstancesOK, InstanceType, acceptsDone, IsUnassignedRemoval, Tracked, Terminal, Removing
  <2> HIDE DEF e
  <2> QED BY <2>1, <2>2, <2>3, OneEntry
<1>3. ASSUME acceptsExit(n), markExited(n) PROVE Ages /\ Keeps
  <2> DEFINE e == [instances[n] EXCEPT !.phase = "removing", !.reason = "exited"]
  <2>1. e \in InstanceType
    BY DEF InstancesOK, InstanceType, InstancePhases, Reasons
  <2>2. instances' = [instances EXCEPT ![n] = e]
    BY <1>3 DEF InstancesOK, markExited
  <2>3. /\ instances[n].phase # "absent" /\ e.phase # "absent" /\ e.inFlight = instances[n].inFlight
        /\ ~Terminal(n)
    BY <1>3 DEF InstancesOK, InstanceType, acceptsExit, contains, Tracked, Terminal, Removing
  <2> HIDE DEF e
  <2> QED BY <2>1, <2>2, <2>3, OneEntry
<1> QED BY <1>1, <1>2, <1>3

LEMMA ReadinessAges ==
  ASSUME InstancesOK, NEW n \in Names, acceptsReadiness(n),
         readinessResult(n, TRUE) \/ readinessResult(n, FALSE)
  PROVE  Ages /\ Keeps
<1>1. ASSUME NEW e \in {[instances[n] EXCEPT !.phase = "removing", !.reason = "readiness-failed"],
                        [instances[n] EXCEPT !.phase = "idle"]},
             instances' = [instances EXCEPT ![n] = e]
      PROVE  Ages /\ Keeps
  <2>1. e \in InstanceType /\ e.phase # "absent" /\ e.inFlight = instances[n].inFlight
    BY DEF InstancesOK, InstanceType, InstancePhases, Reasons
  <2>2. instances[n].phase # "absent" /\ ~Terminal(n)
    BY DEF acceptsReadiness, Terminal, Removing
  <2> QED BY <1>1, <2>1, <2>2, OneEntry
<1>2. \/ instances' = [instances EXCEPT ![n] =
             [instances[n] EXCEPT !.phase = "removing", !.reason = "readiness-failed"]]
      \/ instances' = [instances EXCEPT ![n] = [instances[n] EXCEPT !.phase = "idle"]]
  BY DEF InstancesOK, readinessResult
<1> QED BY <1>1, <1>2

LEMMA BoundariesAge ==
  ASSUME InstancesOK
  PROVE  /\ idleForRemoval => Ages /\ Keeps
         /\ detachAll => Ages
<1>1. ASSUME idleForRemoval PROVE Ages /\ Keeps
  <2>1. ASSUME NEW m \in Names
        PROVE  /\ instances'[m].phase # "absent" <=> instances[m].phase # "absent"
               /\ instances'[m].inFlight = instances[m].inFlight
               /\ instances[m].phase = "removing" => instances'[m] = instances[m]
    BY <1>1 DEF idleForRemoval, InstancesOK, InstanceType
  <2>2. Keeps
    BY <2>1 DEF Keeps, Tracked
  <2>3. Ages
    BY <2>1 DEF Ages, Terminal, Tracked, Removing
  <2> QED BY <2>2, <2>3
<1>2. ASSUME detachAll PROVE Ages
  BY <1>2 DEF detachAll, InstancesOK, Ages, Terminal, Tracked, Removing, Absent
<1> QED BY <1>1, <1>2

LEMMA RemovalsAge ==
  ASSUME InstancesOK, NEW n \in Names
  PROVE  /\ claimRemoval(n) => Ages /\ Keeps
         /\ cleanupRetryDue(n) => Ages /\ Keeps
         /\ markIdleAboveTarget(n) => Ages /\ Keeps
         /\ failProvision(n) => Ages
         /\ canFinish(n) /\ finishRemoval(n) => Ages
         /\ deregistrationNeeded(n) /\ restoreBusy(n) => Ages
         /\ canRetry(n) /\ retryRemoval(n) => Ages
<1>1. claimRemoval(n) => Ages /\ Keeps
  BY DEF InstancesOK, InstanceType, claimRemoval, Claimable, Ages, Keeps, Terminal, Tracked, Removing
<1>2. cleanupRetryDue(n) => Ages /\ Keeps
  BY DEF InstancesOK, InstanceType, cleanupRetryDue, Ages, Keeps, Terminal, Tracked, Removing
<1>3. markIdleAboveTarget(n) => Ages /\ Keeps
  <2> DEFINE e == [instances[n] EXCEPT !.phase = "removing", !.reason = "scaled-down"]
  <2> SUFFICES ASSUME markIdleAboveTarget(n) PROVE Ages /\ Keeps
    OBVIOUS
  <2>1. e \in InstanceType
    BY DEF InstancesOK, InstanceType, InstancePhases, Reasons
  <2>2. instances' = [instances EXCEPT ![n] = e]
    BY DEF InstancesOK, markIdleAboveTarget
  <2>3. /\ instances[n].phase = "idle" /\ e.phase # "absent" /\ e.inFlight = instances[n].inFlight
        /\ ~Terminal(n)
    BY DEF InstancesOK, InstanceType, markIdleAboveTarget, Idle, Terminal, Removing
  <2> HIDE DEF e
  <2> QED BY <2>1, <2>2, <2>3, OneEntry
<1>4. ASSUME failProvision(n) \/ finishRemoval(n) PROVE Ages
  <2>1. \A m \in Names : instances'[m] \in {instances[m], Absent}
    BY <1>4 DEF InstancesOK, failProvision, finishRemoval
  <2> QED BY <2>1 DEF Ages, Terminal, Tracked, Removing, Absent
<1>5. deregistrationNeeded(n) /\ restoreBusy(n) => Ages
  <2> DEFINE e == [instances[n] EXCEPT !.phase = "busy", !.worked = TRUE, !.reason = "none",
                                       !.inFlight = FALSE, !.backoff = FALSE]
  <2> SUFFICES ASSUME deregistrationNeeded(n), restoreBusy(n) PROVE Ages
    OBVIOUS
  <2>1. e \in InstanceType
    BY DEF InstancesOK, InstanceType, InstancePhases, Reasons
  <2>2. instances' = [instances EXCEPT ![n] = e]
    BY DEF InstancesOK, restoreBusy
  <2>3. instances[n].phase = "removing" /\ ~Terminal(n)
    BY DEF deregistrationNeeded, IsUnassignedRemoval, Terminal, Removing
  <2> HIDE DEF e
  <2> QED BY <2>1, <2>2, <2>3, OneEntry
<1>6. canRetry(n) /\ retryRemoval(n) => Ages
  <2> DEFINE e == [instances[n] EXCEPT !.inFlight = FALSE, !.backoff = TRUE]
  <2> SUFFICES ASSUME canRetry(n), retryRemoval(n) PROVE Ages
    OBVIOUS
  <2>1. e \in InstanceType
    BY DEF InstancesOK, InstanceType
  <2>2. instances' = [instances EXCEPT ![n] = e]
    BY DEF InstancesOK, retryRemoval
  <2>3. instances[n].phase = "removing" /\ e.phase = "removing" /\ e.reason = instances[n].reason
    BY DEF InstancesOK, InstanceType, canRetry, Removing
  <2> HIDE DEF e
  <2> QED BY <2>1, <2>2, <2>3, OneEntry
<1> QED BY <1>1, <1>2, <1>3, <1>4, <1>5, <1>6

-----------------------------------------------------------------------------
(***************************************************************************)
(* Which steps keep every entry, and which let one go.                     *)
(***************************************************************************)

\* The goroutines other than the worker, the cleanups and the stopper.
Bystanders ==
    \/ Listen
    \/ RetryDeadlinePasses \/ RetryTimerFires
    \/ \E n \in Names : CleanupDeadlinePasses(n) \/ CleanupTimerFires(n) \/ World(n)
    \/ \E o \in Observers : Observe(o)

LEMMA BystandersAge ==
  ASSUME InstancesOK, Bystanders PROVE Ages /\ Keeps
<1>1. CASE UNCHANGED instances
  BY <1>1, NoChange
<1>2. ASSUME NEW n \in Names, CleanupDeadlinePasses(n) PROVE Ages /\ Keeps
  BY <1>2, RemovalsAge DEF CleanupDeadlinePasses
<1>3. ASSUME NEW n \in Names, HandleJobStarted(n) \/ HandleJobCompleted(n) PROVE Ages /\ Keeps
  BY <1>1, <1>3, JobsAge DEF HandleJobStarted, HandleJobCompleted, Reasons
<1>4. ASSUME NEW o \in Observers, Observe(o) PROVE Ages /\ Keeps
  <2>1. o[1] \in Names
    BY DEF Observers
  <2>2. CASE MarkExited(o)
    BY <1>1, <2>1, <2>2, JobsAge DEF MarkExited, Reasons
  <2>3. CASE ReportReady(o) \/ ReportUnready(o)
    BY <2>1, <2>3, ReadinessAges DEF ReportReady, ReportUnready
  <2> QED BY <1>1, <1>4, <2>2, <2>3
          DEF Observe, ObserverCancelled, ObserveExit, RaiseBarrier, ObservedSuccess, ObservedFailure,
              ObserverSignals
<1> QED BY <1>1, <1>2, <1>3, <1>4
        DEF Bystanders, Listen, PendCompletion, SignalCompletion, SignalDesired, HandleDesiredRunnerCount,
            RetryDeadlinePasses, RetryTimerFires, CleanupTimerFires, World, Outside, JobAssigned, JobEnds,
            ProcessExits, ProcessCrashes

LEMMA DecidingAges ==
  ASSUME InstancesOK, Decide
  PROVE  (Ages /\ Keeps) \/ \E n \in Names : ReserveName(n)
<1>1. CASE UNCHANGED instances
  BY <1>1, NoChange
<1>2. ASSUME NEW n \in Names, ClaimCleanup(n) \/ ScaleDown(n) PROVE Ages /\ Keeps
  BY <1>2, RemovalsAge DEF ClaimCleanup, ScaleDown
<1> QED BY <1>1, <1>2
        DEF Decide, LoopStops, LoopWakes, EnterPass, NothingToClaim, ReadTarget, CompareCount, NothingToTrim,
            CheckSatisfied, ClearSatisfiedRetry, BeginAcquire, CapacityGranted, CapacityAbandoned, RereadTarget,
            AbandonStart, OnlyWorker

LEMMA StartingAges ==
  ASSUME InstancesOK, NEW n \in Names, worker.known \in BOOLEAN, Start(n)
  PROVE  Ages /\ (~DropProvision(n) => Keeps)
<1>1. CASE UNCHANGED instances
  BY <1>1, NoChange
<1>2. CASE DropProvision(n)
  BY <1>2, RemovalsAge DEF DropProvision
<1>3. CASE MarkStarted(n)
  BY <1>1, <1>3, StartsAge DEF MarkStarted, markReady, markProvisioned
<1>4. CASE LaunchedDraining(n)
  BY <1>1, <1>4, JobsAge DEF LaunchedDraining, Reasons
<1> QED BY <1>1, <1>2, <1>3, <1>4
        DEF Start, RecordStartAttempt, GenerateJIT, GenerateJITFails, ProviderStarts, ProviderStartFails,
            RemoveOrphan, RecordStartSuccess, LaunchedRemoved, LaunchedCleaned, LaunchedWatched

LEMMA CleaningAges ==
  ASSUME InstancesOK, NEW n \in Names, Clean(n) PROVE Ages
<1>1. CASE UNCHANGED instances
  BY <1>1, NoChange
<1>2. CASE removalFails(n)
  BY <1>1, <1>2, RemovalsAge DEF removalFails
<1>3. CASE Refused(n)
  BY <1>1, <1>3, RemovalsAge DEF Refused
<1>4. CASE FinishRemoval(n)
  BY <1>1, <1>4, RemovalsAge DEF FinishRemoval
<1> QED BY <1>1, <1>2, <1>3, <1>4
        DEF Clean, LookUpRunner, AskGitHub, SignalRestored, RemoveInstance, SignalRemoved

LEMMA StoppingAges ==
  ASSUME InstancesOK, Stop PROVE Ages /\ (~ShutdownDetaches => Keeps)
<1>1. CASE UNCHANGED instances
  BY <1>1, NoChange
<1>2. CASE DrainBoundary \/ ShutdownDetaches
  BY <1>2, BoundariesAge DEF DrainBoundary, ShutdownDetaches
<1>3. ASSUME NEW n \in Names, DrainClaims(n) PROVE Ages /\ Keeps
  BY <1>3, RemovalsAge DEF DrainClaims
<1> QED BY <1>1, <1>2, <1>3
        DEF Stop, DrainBegins, DrainStopsWork, DrainCompletes, DrainExpires, SessionEnds, ShutdownBegins,
            ShutdownStopsWork, ShutdownEnds, ShutdownRemoves

-----------------------------------------------------------------------------
(***************************************************************************)
(* The invariant is inductive.                                             *)
(***************************************************************************)

USE DEF HandedOver

LEMMA InitOwned == Init => Owned
<1> SUFFICES ASSUME Init PROVE Owned
  OBVIOUS
<1>1. \A n \in Names : ~StartingOf(n) /\ n \notin Tracked
  BY DEF Init, InitWith, StartingOf, WorkerAt, StartSteps, Tracked, initInstances, Absent
<1> QED BY <1>1 DEF Init, InitWith, Owned, UnusedNames, CleanupOwned, StartOwned, InstanceExpected, StopOrder,
             LeaseCoversInstance, NoCleanup, CleaningSteps

\* A step that only changes the rest of the state.
LEMMA KeptOwned ==
  ASSUME Owned, Keeps, UNCHANGED <<cleanup, leases, worker>>,
         HandedOver => HandedOver',
         stopper' \in {"sweeping", "drained"} => worker.at = "stopped",
         stopper' \in {"detaching", "removing", "over"} => workDone',
         \A n \in Names : /\ github'[n] = "unused" => github[n] = "unused"
                          /\ process'[n] = process[n] \/ process[n] \in {"up", "exited"}
  PROVE  Owned'
<1>1. UnusedNames'
  BY DEF Owned, UnusedNames, Keeps
<1>2. CleanupOwned'
  BY DEF Owned, CleanupOwned, Keeps
<1>3. \A n \in Names : StartingOf(n)' <=> StartingOf(n)
  BY DEF StartingOf
<1>4. StartOwned'
  BY <1>3 DEF Owned, StartOwned, Keeps
<1>5. InstanceExpected'
  BY <1>3 DEF Owned, InstanceExpected
<1>6. StopOrder' /\ LeaseCoversInstance'
  BY DEF Owned, StopOrder, LeaseCoversInstance
<1> QED BY <1>1, <1>2, <1>4, <1>5, <1>6 DEF Owned

LEMMA BystandersOwned ==
  ASSUME TypeOK, Owned, Bystanders PROVE Owned'
<1>1. Keeps
  BY BystandersAge, SplitTypes
<1>2. UNCHANGED <<cleanup, leases, worker, workDone, stopper>>
  BY DEF Bystanders, Listen, PendCompletion, SignalCompletion, SignalDesired, HandleDesiredRunnerCount,
         HandleJobStarted, HandleJobCompleted, Listening, RetryDeadlinePasses, RetryTimerFires,
         CleanupDeadlinePasses, CleanupTimerFires, Waiting, World, Outside, taskVars, stopVars, JobAssigned, JobEnds, ProcessExits,
         ProcessCrashes, Observe, ObserverCancelled, ObserveExit, MarkExited, RaiseBarrier, ReportReady,
         ReportUnready, ObservedSuccess, ObservedFailure, ObserverSignals, Observing
<1>3. UNCHANGED <<github, process>> \/ \E n \in Names : World(n)
  BY DEF Bystanders, Listen, PendCompletion, SignalCompletion, SignalDesired, HandleDesiredRunnerCount,
         HandleJobStarted, HandleJobCompleted, Listening, RetryDeadlinePasses, RetryTimerFires,
         CleanupDeadlinePasses, CleanupTimerFires, Waiting, worldVars, Observe, ObserverCancelled, ObserveExit,
         MarkExited, RaiseBarrier, ReportReady, ReportUnready, ObservedSuccess, ObservedFailure,
         ObserverSignals, Observing
<1>4. \A n \in Names : /\ github'[n] = "unused" => github[n] = "unused"
                       /\ process'[n] = process[n] \/ process[n] \in {"up", "exited"}
  BY <1>3 DEF TypeOK, World, JobAssigned, JobEnds, ProcessExits, ProcessCrashes
<1> QED BY <1>1, <1>2, <1>4, KeptOwned DEF Owned, StopOrder

LEMMA DecidingOwned ==
  ASSUME TypeOK, Owned, Decide PROVE Owned'
<1>1. InstancesOK /\ NoName \notin Names
  BY SplitTypes, NoNameAssumption
<1>2. UNCHANGED <<process, workDone, stopper>>
  BY DEF Decide, LoopStops, LoopWakes, EnterPass, NothingToClaim, ReadTarget, CompareCount, NothingToTrim,
         CheckSatisfied, ClearSatisfiedRetry, BeginAcquire, CapacityGranted, CapacityAbandoned, RereadTarget,
         AbandonStart, ClaimCleanup, ScaleDown, ReserveName, OnlyWorker, Deciding, stopVars, worldVars
<1>3. /\ worker.at \notin StartSteps \cup {"cleaning", "stopped"}
      /\ worker'.at # "cleaning"
      /\ \A n \in Names : n \in leases => n \in leases'
  BY <1>1
     DEF Decide, LoopStops, LoopWakes, EnterPass, NothingToClaim, ReadTarget, CompareCount, NothingToTrim,
         CheckSatisfied, ClearSatisfiedRetry, BeginAcquire, CapacityGranted, CapacityAbandoned, RereadTarget,
         AbandonStart, ClaimCleanup, ScaleDown, ReserveName, OnlyWorker, workerGoes, workerSteps, WorkerAt,
         returnLease, StartSteps, TypeOK, WorkerType
<1>4. StopOrder' /\ LeaseCoversInstance'
  BY <1>2, <1>3 DEF Owned, StopOrder, LeaseCoversInstance
<1>5. ASSUME NEW n \in Names, ReserveName(n) PROVE Owned'
  <2>1. /\ UNCHANGED cleanup /\ github[n] = "unused" /\ n \in leases'
        /\ github' = [github EXCEPT ![n] = "absent"]
        /\ worker'.at = "reserved" /\ worker'.runner = n
    BY <1>5 DEF ReserveName, WorkerAt
  <2>2. \A m \in Names : instances'[m] = IF m = n THEN [Absent EXCEPT !.phase = "provisioning"] ELSE instances[m]
    BY <1>1, <1>5 DEF ReserveName, reserve, InstancesOK
  <2>3. \A m \in Names : m \in Tracked' <=> m = n \/ m \in Tracked
    BY <2>2 DEF Tracked, Absent
  <2>4. \A m \in Names : StartingOf(m)' <=> m = n
    BY <2>1 DEF StartingOf, StartSteps
  <2>5. cleanup[n].at = "none" /\ n \notin Tracked /\ process[n] = "none"
    BY <2>1 DEF Owned, UnusedNames
  <2>6. UnusedNames'
    BY <1>2, <2>1, <2>3 DEF Owned, UnusedNames, TypeOK
  <2>7. CleanupOwned'
    BY <1>3, <2>1, <2>2, <2>3, <2>5 DEF Owned, CleanupOwned, CleaningSteps
  <2>8. StartOwned'
    <3>1. github'[n] = "absent"
      BY <2>1 DEF TypeOK
    <3> QED BY <2>1, <2>3, <2>4, <2>5, <3>1 DEF StartOwned
  <2>9. InstanceExpected'
    BY <1>2, <2>1, <2>4, <2>5 DEF Owned, InstanceExpected
  <2> QED BY <1>4, <2>6, <2>7, <2>8, <2>9 DEF Owned
<1>6. ASSUME Keeps, UNCHANGED cleanup, UNCHANGED github, worker'.at \notin StartSteps PROVE Owned'
  <2>1. \A n \in Names : ~StartingOf(n)'
    BY <1>6 DEF StartingOf
  <2>2. UnusedNames' /\ CleanupOwned'
    BY <1>2, <1>3, <1>6 DEF Owned, UnusedNames, CleanupOwned, Keeps
  <2>3. StartOwned' /\ InstanceExpected'
    BY <1>2, <1>6, <2>1 DEF Owned, StartOwned, InstanceExpected
  <2> QED BY <1>4, <2>2, <2>3 DEF Owned
<1>7. ASSUME NEW n \in Names, ClaimCleanup(n) PROVE Owned'
  <2>1. /\ Keeps /\ instances'[n].inFlight /\ n \in Tracked
        /\ cleanup' = [cleanup EXCEPT ![n] = [at |-> "claimed", by |-> "goroutine"]]
        /\ UNCHANGED github /\ worker'.at = "entering"
    BY <1>1, <1>7, RemovalsAge
       DEF ClaimCleanup, claimRemoval, Claimable, Removing, Tracked, InstancesOK, InstanceType, Deciding, worldVars,
           workerGoes, WorkerAt
  <2>2. \A m \in Names : ~StartingOf(m)'
    BY <2>1 DEF StartingOf, StartSteps
  <2>3. UnusedNames'
    BY <1>2, <2>1 DEF Owned, UnusedNames, Keeps, TypeOK
  <2>4. CleanupOwned'
    BY <1>3, <2>1 DEF Owned, CleanupOwned, Keeps, TypeOK
  <2>5. StartOwned' /\ InstanceExpected'
    BY <1>2, <2>1, <2>2 DEF Owned, StartOwned, InstanceExpected, TypeOK
  <2> QED BY <1>4, <2>3, <2>4, <2>5 DEF Owned
<1>8. Keeps \/ \E n \in Names : ReserveName(n)
  BY <1>1, DecidingAges
<1>9. \/ \E n \in Names : ReserveName(n) \/ ClaimCleanup(n)
      \/ UNCHANGED cleanup /\ UNCHANGED github /\ worker'.at \notin StartSteps
  BY DEF Decide, LoopStops, LoopWakes, EnterPass, NothingToClaim, ReadTarget, CompareCount, NothingToTrim,
         CheckSatisfied, ClearSatisfiedRetry, BeginAcquire, CapacityGranted, CapacityAbandoned, RereadTarget,
         AbandonStart, ScaleDown, OnlyWorker, Deciding, worldVars, workerGoes, workerSteps, WorkerAt,
         returnLease, StartSteps, TypeOK, WorkerType
<1> QED BY <1>5, <1>6, <1>7, <1>8, <1>9

LEMMA WorkerFields ==
  ASSUME TypeOK
  PROVE  \A step \in WorkerSteps :
            /\ WorkerAt(step).at = step /\ WorkerAt(step).runner = NoName
            /\ [worker EXCEPT !.at = step].at = step
            /\ [worker EXCEPT !.at = step].runner = worker.runner
            /\ \A known \in BOOLEAN :
                  /\ [worker EXCEPT !.at = step, !.known = known].at = step
                  /\ [worker EXCEPT !.at = step, !.known = known].runner = worker.runner
BY DEF TypeOK, WorkerType, WorkerAt

LEMMA WorkerMarks ==
  ASSUME TypeOK, NEW n \in Names, MarkStarted(n)
  PROVE  \/ n \notin Tracked /\ worker'.at = "orphan" /\ worker'.runner = worker.runner
         \/ n \in Tracked /\ worker'.at \in {"launched", "succeeding"} /\ worker'.runner = n
<1>1. CASE n \notin Tracked
  <2>1. worker' = [worker EXCEPT !.at = "orphan"]
    BY <1>1 DEF MarkStarted, workerSteps
  <2>2. "orphan" \in WorkerSteps
    BY DEF WorkerSteps
  <2> QED BY <1>1, <2>1, <2>2, WorkerFields
<1>2. CASE n \in Tracked
  <2> DEFINE at == IF NeedsReadiness THEN "launched" ELSE "succeeding"
             b == n \in Removing
  <2>1. worker' = [WorkerAt(at) EXCEPT !.runner = n, !.removeNow = b]
    BY <1>2 DEF MarkStarted
  <2>2. at \in {"launched", "succeeding"}
    OBVIOUS
  <2> HIDE DEF at, b
  <2>3. worker'.at = at /\ worker'.runner = n
    BY <2>1 DEF WorkerAt
  <2> QED BY <1>2, <2>2, <2>3
<1> QED BY <1>1, <1>2

\* A step of startInstanceWithLease on n.
LEMMA StartStepOwned ==
  ASSUME Owned, NEW n \in Names, StartingOf(n), UNCHANGED <<cleanup, stopper, workDone>>,
         \A m \in Names \ {n} :
            /\ m \in Tracked' <=> m \in Tracked
            /\ instances[m].inFlight => instances'[m].inFlight
            /\ m \in leases => m \in leases'
            /\ github'[m] = github[m] /\ process'[m] = process[m]
            /\ ~StartingOf(m)',
         github'[n] # "unused",
         StartingOf(n)' /\ ~HandedOver => n \in Tracked' /\ n \in leases' /\ worker'.at # "orphan",
         StartingOf(n)' /\ worker'.at \in {"reserved", "jit", "starting"} => process'[n] = "none",
         StartingOf(n)' /\ worker'.at = "failing" => process'[n] \in {"none", "stray"},
         process'[n] \in {"up", "exited"} /\ ~HandedOver => n \in leases'
  PROVE  Owned'
<1>1. /\ cleanup[n].at = "none"
      /\ worker.at # "cleaning" /\ worker.at # "stopped"
  BY DEF Owned, StartOwned, StartingOf, StartSteps
<1>2. UnusedNames'
  BY DEF Owned, UnusedNames
<1>3. CleanupOwned'
  BY <1>1 DEF Owned, CleanupOwned, CleaningSteps
<1>4. StartOwned'
  BY <1>1 DEF Owned, StartOwned
<1>5. InstanceExpected'
  BY <1>1 DEF Owned, InstanceExpected
<1>6. StopOrder' /\ LeaseCoversInstance'
  BY <1>1 DEF Owned, StopOrder, LeaseCoversInstance
<1> QED BY <1>2, <1>3, <1>4, <1>5, <1>6 DEF Owned

LEMMA StartingOwned ==
  ASSUME TypeOK, Owned, NEW n \in Names, Start(n) PROVE Owned'
<1>1. InstancesOK /\ n # NoName /\ worker.known \in BOOLEAN /\ n \in DOMAIN process /\ n \in DOMAIN github
  BY SplitTypes, NoNameAssumption DEF TypeOK, WorkerType
<1>2. Ages /\ (~DropProvision(n) => Keeps)
  BY <1>1, StartingAges
<1>3. UNCHANGED <<stopper, workDone>> /\ worker.runner = n
  BY DEF Start, RecordStartAttempt, GenerateJIT, GenerateJITFails, ProviderStarts, ProviderStartFails,
         DropProvision, MarkStarted, RemoveOrphan, RecordStartSuccess, LaunchedRemoved, LaunchedDraining,
         LaunchedCleaned, LaunchedWatched, Starting, stopVars
<1>4. \A m \in Names \ {n} : ~StartingOf(m)'
  <2>1. CASE GenerateJIT(n)
    BY <1>3, <2>1, WorkerFields DEF GenerateJIT, StartingOf, WorkerSteps
  <2>2. CASE MarkStarted(n)
    BY <1>3, <2>2, WorkerMarks DEF StartingOf
  <2>3. CASE ~GenerateJIT(n) /\ ~MarkStarted(n)
    <3>1. \/ \E step \in WorkerSteps : workerSteps(step) \/ workerGoes(step)
          \/ UNCHANGED worker
      BY <2>3
         DEF Start, RecordStartAttempt, GenerateJITFails, ProviderStarts, ProviderStartFails, DropProvision,
             RemoveOrphan, RecordStartSuccess, LaunchedRemoved, LaunchedDraining, LaunchedCleaned,
             LaunchedWatched, WorkerSteps
    <3>2. worker'.runner \in {n, NoName}
      BY <1>3, <3>1, WorkerFields DEF workerSteps, workerGoes
    <3> QED BY <1>1, <3>2, NoNameAssumption DEF StartingOf
  <2> QED BY <2>1, <2>2, <2>3
<1>5. \A m \in Names \ {n} : Keeps => /\ m \in Tracked' <=> m \in Tracked
                                      /\ instances[m].inFlight => instances'[m].inFlight
  BY DEF Keeps
<1>6. CASE LaunchedCleaned(n)
  <2>1. /\ worker.at = "cleaning" /\ cleanup[n].at = "none" /\ worker'.at = "asleep"
        /\ UNCHANGED <<cleanup, leases, github, process>>
    BY <1>6 DEF LaunchedCleaned, Starting, workerGoes, WorkerAt
  <2>2. \A m \in Names : ~StartingOf(m)'
    BY <2>1 DEF StartingOf, StartSteps
  <2>3. Keeps
    BY <1>2, <1>6 DEF LaunchedCleaned, DropProvision, Starting
  <2>4. UnusedNames' /\ CleanupOwned'
    BY <1>3, <2>1, <2>3 DEF Owned, UnusedNames, CleanupOwned, Keeps, CleaningSteps
  <2>5. StartOwned' /\ InstanceExpected' /\ StopOrder' /\ LeaseCoversInstance'
    BY <1>3, <2>1, <2>2 DEF Owned, StartOwned, InstanceExpected, StopOrder, LeaseCoversInstance
  <2> QED BY <2>4, <2>5 DEF Owned
<1>7. CASE LaunchedDraining(n)
  <2>1. /\ worker.at = "launched" /\ worker'.at = "cleaning" /\ worker'.runner = n
        /\ cleanup' = [cleanup EXCEPT ![n] = [at |-> "claimed", by |-> "worker"]]
        /\ UNCHANGED <<leases, github, process>>
    BY <1>3, <1>7, SplitTypes DEF LaunchedDraining, Starting, workerSteps, RestOK, WorkerType
  <2>2. StartingOf(n) /\ github[n] # "unused"
    BY <1>3, <2>1 DEF StartingOf, StartSteps, Owned, StartOwned
  <2>3. \A m \in Names : ~StartingOf(m)'
    BY <2>1 DEF StartingOf, StartSteps
  <2>4. Keeps
    BY <1>2, <1>7 DEF LaunchedDraining, DropProvision, Starting
  <2>5. UnusedNames'
    BY <2>1, <2>2, <2>4 DEF Owned, UnusedNames, Keeps, TypeOK
  <2>6. CleanupOwned'
    BY <2>1, <2>4 DEF Owned, CleanupOwned, Keeps, TypeOK
  <2>7. StartOwned' /\ InstanceExpected' /\ StopOrder' /\ LeaseCoversInstance'
    BY <1>3, <2>1, <2>3 DEF Owned, StartOwned, InstanceExpected, StopOrder, LeaseCoversInstance, TypeOK
  <2> QED BY <2>5, <2>6, <2>7 DEF Owned
<1>8. CASE worker.at \in StartSteps /\ ~LaunchedDraining(n)
  <2>1. StartingOf(n) /\ UNCHANGED cleanup
    BY <1>3, <1>8
       DEF StartingOf, StartSteps, Start, RecordStartAttempt, GenerateJIT, GenerateJITFails, ProviderStarts,
           ProviderStartFails, DropProvision, MarkStarted, RemoveOrphan, RecordStartSuccess, LaunchedRemoved,
           LaunchedCleaned, LaunchedWatched, Starting
  <2>2. /\ cleanup[n].at = "none" /\ github[n] # "unused"
        /\ ~HandedOver => n \in Tracked /\ n \in leases /\ worker.at # "orphan"
    BY <2>1 DEF Owned, StartOwned
  <2>3. /\ worker.at \in {"reserved", "jit", "starting"} => process[n] = "none"
        /\ worker.at = "failing" => process[n] \in {"none", "stray"}
        /\ process[n] \in {"up", "exited"} /\ ~HandedOver => n \in leases
    BY <2>1 DEF Owned, InstanceExpected, LeaseCoversInstance
  <2>4. CASE DropProvision(n)
    <3>1. \A m \in Names \ {n} : instances'[m] = instances[m]
      BY <1>1, <2>4 DEF DropProvision, failProvision, InstancesOK
    <3>2. \A m \in Names \ {n} : /\ m \in Tracked' <=> m \in Tracked
                                 /\ instances[m].inFlight => instances'[m].inFlight
      BY <3>1 DEF Tracked
    <3>3. /\ worker.at = "failing" /\ worker'.at = "asleep" /\ leases' = leases \ {n}
          /\ UNCHANGED <<github, process>>
      BY <2>4 DEF DropProvision, Starting, workerGoes, WorkerAt
    <3>4. ~StartingOf(n)'
      BY <3>3 DEF StartingOf, StartSteps
    <3> QED BY <1>3, <1>4, <2>1, <2>2, <2>3, <3>2, <3>3, <3>4, StartStepOwned
  <2>5. CASE MarkStarted(n)
    <3>1. UNCHANGED <<leases, github, process>> /\ worker.at = "marking"
      BY <2>5 DEF MarkStarted, Starting
    <3>2. Keeps
      BY <1>2, <2>5 DEF MarkStarted, DropProvision, Starting
    <3>3. worker'.at = "orphan" => n \notin Tracked
      BY <2>5, WorkerMarks
    <3>4. ~HandedOver => n \in Tracked' /\ n \in leases' /\ worker'.at # "orphan"
      BY <2>2, <3>1, <3>2, <3>3 DEF Keeps
    <3>5. worker'.at \notin {"reserved", "jit", "starting", "failing"}
      BY <2>5, WorkerMarks
    <3> QED BY <1>3, <1>4, <1>5, <2>1, <2>2, <2>3, <3>1, <3>2, <3>4, <3>5, StartStepOwned
  <2>6. CASE RemoveOrphan(n)
    <3>1. /\ worker.at = "orphan" /\ worker'.at = "asleep" /\ leases' = leases \ {n} /\ UNCHANGED github
          /\ \A m \in Names \ {n} : process'[m] = process[m]
      BY <2>6 DEF RemoveOrphan, Starting, workerGoes, WorkerAt, TypeOK
    <3>2. ~StartingOf(n)'
      BY <3>1 DEF StartingOf, StartSteps
    <3>3. Keeps
      BY <1>2, <2>6 DEF RemoveOrphan, DropProvision, Starting
    <3> QED BY <1>3, <1>4, <1>5, <2>1, <2>2, <3>1, <3>2, <3>3, StartStepOwned
  <2>7. CASE ~DropProvision(n) /\ ~MarkStarted(n) /\ ~RemoveOrphan(n)
    <3>1. Keeps /\ UNCHANGED leases
      BY <1>2, <1>8, <2>7
         DEF Start, RecordStartAttempt, GenerateJIT, GenerateJITFails, ProviderStarts, ProviderStartFails,
             RecordStartSuccess, LaunchedRemoved, LaunchedCleaned, LaunchedWatched
    <3>2. /\ worker.at \in {"reserved", "jit"} => UNCHANGED process /\ worker'.at \in {"jit", "starting", "failing"}
          /\ worker.at = "starting" => /\ worker'.at \in {"marking", "failing"}
                                       /\ worker'.at = "failing" => process'[n] \in {"none", "stray"}
          /\ worker.at \in {"succeeding", "launched"} =>
                UNCHANGED process /\ worker'.at \in {"launched", "entering"}
          /\ worker.at \in {"reserved", "jit", "starting", "succeeding", "launched"}
      <4> USE WorkerFields DEF Starting, workerGoes, workerSteps, WorkerSteps
      <4>1. CASE RecordStartAttempt(n)
        BY <4>1 DEF RecordStartAttempt
      <4>2. CASE GenerateJIT(n)
        BY <4>2 DEF GenerateJIT
      <4>3. CASE GenerateJITFails(n)
        BY <4>3 DEF GenerateJITFails
      <4>4. CASE ProviderStarts(n)
        BY <4>4 DEF ProviderStarts
      <4>5. CASE ProviderStartFails(n)
        BY <1>1, <4>5 DEF ProviderStartFails, TypeOK
      <4>6. CASE RecordStartSuccess(n)
        BY <4>6 DEF RecordStartSuccess
      <4>7. CASE LaunchedRemoved(n)
        BY <4>7 DEF LaunchedRemoved
      <4>8. CASE LaunchedWatched(n)
        BY <4>8 DEF LaunchedWatched
      <4>9. CASE LaunchedCleaned(n)
        BY <1>8, <4>9 DEF LaunchedCleaned, StartSteps
      <4> QED BY <1>8, <2>7, <4>1, <4>2, <4>3, <4>4, <4>5, <4>6, <4>7, <4>8, <4>9 DEF Start
    <3>3. \A m \in Names \ {n} : github'[m] = github[m] /\ process'[m] = process[m]
      BY <1>1, <1>8, <2>7
         DEF TypeOK, Start, RecordStartAttempt, GenerateJIT, GenerateJITFails, ProviderStarts, ProviderStartFails,
             RecordStartSuccess, LaunchedRemoved, LaunchedCleaned, LaunchedWatched
    <3>4. github'[n] # "unused"
      BY <1>1, <1>8, <2>2, <2>7
         DEF TypeOK, Start, RecordStartAttempt, GenerateJIT, GenerateJITFails, ProviderStarts, ProviderStartFails,
             RecordStartSuccess, LaunchedRemoved, LaunchedCleaned, LaunchedWatched
    <3>5. ~HandedOver => n \in Tracked' /\ n \in leases' /\ worker'.at # "orphan"
      BY <2>2, <3>1, <3>2 DEF Keeps
    <3> QED BY <1>3, <1>4, <1>5, <2>1, <2>2, <2>3, <3>1, <3>2, <3>3, <3>4, <3>5, StartStepOwned
  <2> QED BY <2>4, <2>5, <2>6, <2>7
<1>9. worker.at \in StartSteps \/ LaunchedCleaned(n)
  BY DEF Start, RecordStartAttempt, GenerateJIT, GenerateJITFails, ProviderStarts, ProviderStartFails,
         DropProvision, MarkStarted, RemoveOrphan, RecordStartSuccess, LaunchedRemoved, LaunchedDraining,
         LaunchedWatched, Starting, StartSteps
<1> QED BY <1>6, <1>7, <1>8, <1>9

\* A step of removeClaimedInstance on n leaves every other runner alone.
LEMMA CleanStepOwned ==
  ASSUME TypeOK, Owned, NEW n \in Names, UNCHANGED <<worker, stopper, workDone>>,
         cleanup[n].at # "none",
         \A m \in Names \ {n} :
            /\ cleanup'[m] = cleanup[m] /\ instances'[m] = instances[m]
            /\ github'[m] = github[m] /\ process'[m] = process[m]
            /\ m \in leases => m \in leases',
         n \in Tracked' => n \in Tracked,
         github'[n] # "unused",
         process[n] = "none" => process'[n] = "none",
         cleanup'[n].by = cleanup[n].by \/ cleanup'[n].at = "none",
         cleanup'[n].at \in CleaningSteps =>
            /\ cleanup[n].at \in CleaningSteps
            /\ n \in Tracked' /\ instances[n].inFlight => instances'[n].inFlight,
         cleanup'[n].at = "signalling" => n \notin Tracked',
         cleanup'[n].at \in {"finishing", "signalling"} => process'[n] = "none",
         process'[n] \in {"up", "exited"} /\ ~HandedOver => n \in leases'
  PROVE  Owned'
<1>1. UnusedNames'
  BY DEF Owned, UnusedNames, Tracked
<1>2. CleanupOwned'
  <2>1. \A m \in Names \ {n} : m \in Tracked' <=> m \in Tracked
    BY DEF Tracked
  <2>2. cleanup'[n].at \in CleaningSteps => cleanup'[n].by = cleanup[n].by
    BY DEF CleaningSteps
  <2> QED BY <2>1, <2>2 DEF Owned, CleanupOwned
<1>3. \A m \in Names : StartingOf(m)' <=> StartingOf(m)
  BY DEF StartingOf
<1>4. ~StartingOf(n)
  BY DEF Owned, StartOwned
<1>5. StartOwned'
  BY <1>3, <1>4 DEF Owned, StartOwned, Tracked
<1>6. InstanceExpected'
  BY <1>3, <1>4 DEF Owned, InstanceExpected
<1>7. StopOrder' /\ LeaseCoversInstance'
  BY DEF Owned, StopOrder, LeaseCoversInstance
<1> QED BY <1>1, <1>2, <1>5, <1>6, <1>7 DEF Owned

LEMMA CleaningOwned ==
  ASSUME TypeOK, Owned, NEW n \in Names, Clean(n) PROVE Owned'
<1>1. InstancesOK /\ Ages
  BY SplitTypes, CleaningAges
<1>2. UNCHANGED <<worker, stopper, workDone>>
  BY DEF Clean, LookUpRunner, AskGitHub, Refused, SignalRestored, RemoveInstance, FinishRemoval, SignalRemoved,
         Cleaning, stopVars
<1>3. n \in Tracked' => n \in Tracked
  BY <1>1 DEF Ages
<1>4. cleanup[n].at # "none" => github[n] # "unused"
  BY DEF Owned, UnusedNames
<1>5. cleanup[n].at \in {"finishing", "signalling"} => process[n] = "none"
  BY DEF Owned, InstanceExpected
<1>6. process[n] \in {"up", "exited"} /\ ~HandedOver => n \in leases
  BY DEF Owned, LeaseCoversInstance
<1>7. ASSUME cleanupEnds(n)
      PROVE  /\ cleanup'[n].at = "none"
             /\ \A m \in Names \ {n} : cleanup'[m] = cleanup[m]
  BY <1>7 DEF cleanupEnds, NoCleanup, TypeOK
<1>8. ASSUME NEW step \in CleanupSteps, cleanupSteps(n, step)
      PROVE  /\ cleanup'[n].at = step /\ cleanup'[n].by = cleanup[n].by
             /\ \A m \in Names \ {n} : cleanup'[m] = cleanup[m]
  BY <1>8 DEF cleanupSteps, TypeOK, CleanupType
<1>9. ASSUME UNCHANGED instances
      PROVE  /\ \A m \in Names : instances'[m] = instances[m]
             /\ Tracked' = Tracked
  BY <1>9 DEF Tracked
<1>10. ASSUME removalFails(n)
       PROVE  /\ cleanup'[n].at = "none"
              /\ \A m \in Names \ {n} : cleanup'[m] = cleanup[m] /\ instances'[m] = instances[m]
  BY <1>1, <1>7, <1>10 DEF removalFails, retryRemoval, InstancesOK
<1>11. CASE LookUpRunner(n)
  <2>1. /\ cleanup[n].at = "claimed"
        /\ UNCHANGED <<github, process, leases>>
    BY <1>11 DEF LookUpRunner
  <2>2. CASE removalFails(n)
    BY <1>2, <1>3, <1>4, <1>6, <1>10, <2>1, <2>2, CleanStepOwned DEF CleaningSteps
  <2>3. ASSUME NEW step \in {"asking", "removing"}, cleanupSteps(n, step), UNCHANGED instances PROVE Owned'
    <3>1. step \in CleanupSteps
      BY DEF CleanupSteps
    <3>2. /\ cleanup'[n].at = step /\ cleanup'[n].by = cleanup[n].by
          /\ \A m \in Names \ {n} : cleanup'[m] = cleanup[m]
      BY <1>8, <2>3, <3>1
    <3> QED BY <1>2, <1>3, <1>4, <1>6, <1>9, <2>1, <2>3, <3>2, CleanStepOwned DEF CleaningSteps
  <2> QED BY <1>11, <2>2, <2>3 DEF LookUpRunner
<1>12. CASE AskGitHub(n)
  <2>1. /\ cleanup[n].at = "asking" /\ UNCHANGED <<process, leases>>
        /\ \A m \in Names \ {n} : github'[m] = github[m]
        /\ github'[n] # "unused"
    BY <1>4, <1>12 DEF AskGitHub, TypeOK
  <2>2. CASE removalFails(n)
    BY <1>2, <1>3, <1>6, <1>10, <2>1, <2>2, CleanStepOwned DEF CleaningSteps
  <2>3. ASSUME NEW step \in {"refused", "removing"}, cleanupSteps(n, step), UNCHANGED instances PROVE Owned'
    <3>1. step \in CleanupSteps
      BY DEF CleanupSteps
    <3>2. /\ cleanup'[n].at = step /\ cleanup'[n].by = cleanup[n].by
          /\ \A m \in Names \ {n} : cleanup'[m] = cleanup[m]
      BY <1>8, <2>3, <3>1
    <3> QED BY <1>2, <1>3, <1>6, <1>9, <2>1, <2>3, <3>2, CleanStepOwned DEF CleaningSteps
  <2> QED BY <1>12, <2>2, <2>3 DEF AskGitHub
<1>13. CASE Refused(n)
  <2>1. cleanup[n].at = "refused" /\ UNCHANGED <<process, leases, github>>
    BY <1>13 DEF Refused
  <2>2. CASE deregistrationNeeded(n)
    <3>1. cleanup'[n].at = "none" /\ \A m \in Names \ {n} : cleanup'[m] = cleanup[m]
      BY <1>7, <1>13, <2>2 DEF Refused
    <3>2. \A m \in Names \ {n} : instances'[m] = instances[m]
      BY <1>1, <1>13, <2>2 DEF Refused, restoreBusy, InstancesOK
    <3> QED BY <1>2, <1>3, <1>4, <1>6, <2>1, <3>1, <3>2, CleanStepOwned DEF CleaningSteps
  <2>3. CASE ~deregistrationNeeded(n)
    <3>1. UNCHANGED instances /\ cleanupSteps(n, "removing") /\ "removing" \in CleanupSteps
      BY <1>13, <2>3 DEF Refused, CleanupSteps
    <3>2. /\ cleanup'[n].at = "removing" /\ cleanup'[n].by = cleanup[n].by
          /\ \A m \in Names \ {n} : cleanup'[m] = cleanup[m]
      BY <1>8, <3>1
    <3> QED BY <1>2, <1>3, <1>4, <1>6, <1>9, <2>1, <3>1, <3>2, CleanStepOwned DEF CleaningSteps
  <2> QED BY <2>2, <2>3
<1>14. CASE RemoveInstance(n)
  <2>1. /\ cleanup[n].at = "removing" /\ UNCHANGED <<github, leases>>
        /\ \A m \in Names \ {n} : process'[m] = process[m]
        /\ process'[n] \in {process[n], "none"}
    BY <1>14 DEF RemoveInstance, TypeOK
  <2>2. CASE removalFails(n)
    BY <1>2, <1>3, <1>4, <1>6, <1>10, <2>1, <2>2, CleanStepOwned DEF CleaningSteps
  <2>3. ASSUME cleanupSteps(n, "finishing"), UNCHANGED instances, process' = [process EXCEPT ![n] = "none"]
        PROVE Owned'
    <3>1. "finishing" \in CleanupSteps
      BY DEF CleanupSteps
    <3>2. /\ cleanup'[n].at = "finishing" /\ cleanup'[n].by = cleanup[n].by
          /\ \A m \in Names \ {n} : cleanup'[m] = cleanup[m]
      BY <1>8, <2>3, <3>1
    <3>3. process'[n] = "none"
      BY <2>3 DEF TypeOK
    <3> QED BY <1>2, <1>3, <1>4, <1>9, <2>1, <2>3, <3>2, <3>3, CleanStepOwned DEF CleaningSteps
  <2> QED BY <1>14, <2>2, <2>3 DEF RemoveInstance
<1>15. CASE FinishRemoval(n)
  <2>1. cleanup[n].at = "finishing" /\ UNCHANGED <<github, process>> /\ process[n] = "none"
    BY <1>5, <1>15 DEF FinishRemoval
  <2>2. CASE canFinish(n)
    <3>1. finishRemoval(n) /\ leases' = leases \ {n} /\ cleanupSteps(n, "signalling")
          /\ "signalling" \in CleanupSteps
      BY <1>15, <2>2 DEF FinishRemoval, CleanupSteps
    <3>2. /\ cleanup'[n].at = "signalling" /\ cleanup'[n].by = cleanup[n].by
          /\ \A m \in Names \ {n} : cleanup'[m] = cleanup[m]
      BY <1>8, <3>1
    <3>3. n \notin Tracked' /\ \A m \in Names \ {n} : instances'[m] = instances[m]
      BY <1>1, <3>1 DEF finishRemoval, InstancesOK, Tracked, Absent
    <3> QED BY <1>2, <1>4, <2>1, <3>1, <3>2, <3>3, CleanStepOwned DEF CleaningSteps
  <2>3. CASE ~canFinish(n)
    <3>1. UNCHANGED <<instances, leases>> /\ cleanupEnds(n)
      BY <1>15, <2>3 DEF FinishRemoval
    <3> QED BY <1>2, <1>3, <1>4, <1>6, <1>7, <1>9, <2>1, <3>1, CleanStepOwned DEF CleaningSteps
  <2> QED BY <2>2, <2>3
<1>16. CASE SignalRemoved(n)
  <2>1. cleanup[n].at = "signalling" /\ UNCHANGED <<instances, github, process, leases>> /\ cleanupEnds(n)
    BY <1>16 DEF SignalRemoved
  <2> QED BY <1>2, <1>3, <1>4, <1>6, <1>7, <1>9, <2>1, CleanStepOwned DEF CleaningSteps
<1>17. CASE SignalRestored(n)
  <2>1. UNCHANGED <<instances, cleanup, leases, github, process>>
    BY <1>17 DEF SignalRestored
  <2> QED BY <1>2, <2>1, NoChange, KeptOwned DEF Owned, StopOrder
<1> QED BY <1>11, <1>12, <1>13, <1>14, <1>15, <1>16, <1>17 DEF Clean

LEMMA StoppingOwned ==
  ASSUME TypeOK, Owned, Stop PROVE Owned'
<1>1. InstancesOK /\ Ages /\ (~ShutdownDetaches => Keeps)
  BY SplitTypes, StoppingAges
<1>2. UNCHANGED <<worker, github>> /\ (workDone => workDone')
  <2>1. UNCHANGED <<worker, github>>
    BY DEF Stop, DrainBegins, DrainStopsWork, DrainBoundary, DrainCompletes, DrainExpires, SessionEnds,
           ShutdownBegins, ShutdownStopsWork, ShutdownDetaches, ShutdownEnds, DrainClaims, ShutdownRemoves, Stopping
  <2>2. workDone' = workDone \/ workDone' = TRUE
    BY DEF Stop, DrainBegins, DrainStopsWork, DrainBoundary, DrainCompletes, DrainExpires, SessionEnds,
           ShutdownBegins, ShutdownStopsWork, ShutdownDetaches, ShutdownEnds, DrainClaims, ShutdownRemoves,
           stopVars, stopWork
  <2>3. workDone => workDone'
    BY <2>2, Zenon
  <2> QED BY <2>1, <2>3
<1>3. \A m \in Names : StartingOf(m)' <=> StartingOf(m)
  BY <1>2 DEF StartingOf
<1>4. CASE \/ DrainBegins \/ DrainStopsWork \/ DrainBoundary \/ DrainCompletes \/ DrainExpires
           \/ SessionEnds \/ ShutdownBegins \/ ShutdownStopsWork \/ ShutdownEnds
  <2>1. /\ Keeps /\ UNCHANGED <<cleanup, leases, process>>
        /\ stopper' \in {"sweeping", "drained"} => worker.at = "stopped"
        /\ stopper' \in {"detaching", "removing", "over"} => workDone'
        /\ HandedOver => HandedOver'
    <3>1. ~ShutdownDetaches
      BY <1>4 DEF DrainBegins, DrainStopsWork, DrainBoundary, DrainCompletes, DrainExpires, SessionEnds,
           ShutdownBegins, ShutdownStopsWork, ShutdownDetaches, ShutdownEnds
    <3>2. UNCHANGED <<cleanup, leases, process>>
      BY <1>4 DEF DrainBegins, DrainStopsWork, DrainBoundary, DrainCompletes, DrainExpires, SessionEnds,
           ShutdownBegins, ShutdownStopsWork, ShutdownEnds
    <3>3. stopper' \in {"sweeping", "drained"} => worker.at = "stopped"
      BY <1>4 DEF DrainBegins, DrainStopsWork, DrainBoundary, DrainCompletes, DrainExpires, SessionEnds,
           ShutdownBegins, ShutdownStopsWork, ShutdownEnds, Quiet, Owned, StopOrder
    <3>4. stopper' \in {"detaching", "removing", "over"} => workDone'
      BY <1>2, <1>4 DEF DrainBegins, DrainStopsWork, DrainBoundary, DrainCompletes, DrainExpires, SessionEnds,
           ShutdownBegins, ShutdownStopsWork, ShutdownEnds, stopWork, Owned, StopOrder
    <3>5. HandedOver => HandedOver'
      BY <1>4 DEF DrainBegins, DrainStopsWork, DrainBoundary, DrainCompletes, DrainExpires, SessionEnds,
           ShutdownBegins, ShutdownStopsWork, ShutdownEnds, HandedOver
    <3> QED BY <1>1, <3>1, <3>2, <3>3, <3>4, <3>5
  <2> QED BY <1>2, <2>1, KeptOwned
<1>5. ASSUME NEW n \in Names, DrainClaims(n) PROVE Owned'
  <2>1. /\ stopper = "sweeping" /\ worker.at = "stopped"
        /\ UNCHANGED <<leases, process, stopper, workDone>>
        /\ \A m \in Names : cleanup[m].at = "none"
        /\ cleanup' = [cleanup EXCEPT ![n] = [at |-> "claimed", by |-> "drain"]]
    BY <1>5 DEF DrainClaims, NoCleanupRuns, stopVars, Owned, StopOrder
  <2>2. Keeps /\ n \in Tracked /\ instances'[n].inFlight
    BY <1>1, <1>5, RemovalsAge
       DEF DrainClaims, claimRemoval, Claimable, Removing, Tracked, InstancesOK, InstanceType
  <2>3. \A m \in Names : ~StartingOf(m)'
    BY <1>3, <2>1 DEF StartingOf, StartSteps
  <2>4. UnusedNames'
    BY <1>2, <2>1, <2>2 DEF Owned, UnusedNames, Keeps, TypeOK
  <2>5. CleanupOwned'
    BY <2>1, <2>2 DEF CleanupOwned, Keeps, TypeOK, CleaningSteps
  <2>6. StartOwned' /\ InstanceExpected'
    BY <2>1, <2>3 DEF StartOwned, InstanceExpected, TypeOK
  <2>7. StopOrder' /\ LeaseCoversInstance'
    BY <1>2, <2>1 DEF Owned, StopOrder, LeaseCoversInstance
  <2> QED BY <2>4, <2>5, <2>6, <2>7 DEF Owned
<1>6. ASSUME workDone', UNCHANGED cleanup, stopper' \in {"removing"},
             \A m \in Names : /\ m \in Tracked' => m \in Tracked
                              /\ m \in Tracked' /\ instances[m].inFlight => instances'[m].inFlight
                              /\ process'[m] = process[m] \/ process'[m] = "none"
      PROVE  Owned'
  <2>1. UnusedNames' /\ CleanupOwned'
    BY <1>2, <1>6 DEF Owned, UnusedNames, CleanupOwned
  <2>2. StartOwned' /\ InstanceExpected'
    BY <1>2, <1>3, <1>6 DEF Owned, StartOwned, InstanceExpected
  <2>3. StopOrder' /\ LeaseCoversInstance'
    BY <1>6 DEF StopOrder, LeaseCoversInstance
  <2> QED BY <2>1, <2>2, <2>3 DEF Owned
<1>7. CASE ShutdownDetaches
  <2>1. /\ workDone' /\ UNCHANGED <<cleanup, process>> /\ stopper' = "removing"
        /\ \A m \in Names : m \notin Tracked'
    BY <1>7 DEF ShutdownDetaches, detachAll, Tracked, Absent, Owned, StopOrder
  <2> QED BY <1>6, <2>1
<1>8. ASSUME NEW n \in Names, ShutdownRemoves(n) PROVE Owned'
  <2>1. /\ UNCHANGED <<instances, cleanup, workDone>> /\ stopper' = "removing" /\ workDone
        /\ \A m \in Names : process'[m] = process[m] \/ process'[m] = "none"
    BY <1>8 DEF ShutdownRemoves, TypeOK, Owned, StopOrder
  <2> QED BY <1>1, <1>6, <2>1 DEF Tracked
<1> QED BY <1>4, <1>5, <1>7, <1>8 DEF Stop

LEMMA NextInv ==
  ASSUME IInv, [Next]_vars PROVE IInv'
<1>1. TypeOK'
  BY NextType DEF IInv
<1>2. CASE UNCHANGED vars
  <2>1. Keeps
    BY <1>2, NoChange DEF vars
  <2>2. UNCHANGED <<cleanup, leases, worker, workDone, stopper, github, process>>
    BY <1>2 DEF vars, taskVars, stopVars, worldVars
  <2>3. Owned /\ StopOrder
    BY DEF IInv, Owned
  <2>4. Owned'
    BY <2>1, <2>2, <2>3, KeptOwned DEF StopOrder
  <2> QED BY <1>1, <2>4 DEF IInv
<1>3. CASE Bystanders
  BY <1>1, <1>3, BystandersOwned DEF IInv
<1>4. CASE Decide
  BY <1>1, <1>4, DecidingOwned DEF IInv
<1>5. ASSUME NEW n \in Names, Start(n) \/ Clean(n) PROVE IInv'
  BY <1>1, <1>5, StartingOwned, CleaningOwned DEF IInv
<1>6. CASE Stop
  BY <1>1, <1>6, StoppingOwned DEF IInv
<1> QED BY <1>2, <1>3, <1>4, <1>5, <1>6 DEF Next, Over, Bystanders

-----------------------------------------------------------------------------
(***************************************************************************)
(* Theorems.                                                               *)
(***************************************************************************)

\* Names, cleanups and starts each have the owner that the code assumes.
THEOREM Inductive == Spec => []IInv
<1>1. Init => IInv
  BY InitType, InitOwned DEF IInv
<1> QED BY <1>1, NextInv, PTL DEF Spec

\* Until Shutdown takes the runners out of the map, the capacity of a runner is held
\* for as long as the provider has the instance that its start returned, however
\* often a removal fails, is refused or is repeated (finishRemoval, failProvision);
\* what a failed start leaves behind is outside of this.
THEOREM LeaseCoversInstanceHolds == Spec => []LeaseCoversInstance
<1>1. IInv => LeaseCoversInstance
  BY DEF IInv, Owned
<1> QED BY <1>1, Inductive, PTL

\* However often completions, exits, retries and refusals make a removal
\* claimable, it is taken up only when nobody is at work on it.
THEOREM OneCleanupOwnerHolds == Spec => OneCleanupOwner
<1> DEFINE Step == \A n \in Names :
              cleanup'[n] # cleanup[n] /\ cleanup'[n].at = "claimed" => cleanup[n].at = "none"
<1>1. ASSUME IInv, [Next]_vars PROVE [Step]_vars
  <2>1. TypeOK /\ Owned
    BY <1>1 DEF IInv
  <2>2. CASE UNCHANGED cleanup
    BY <2>2
  <2>3. ASSUME NEW m \in Names, ClaimCleanup(m) PROVE Step
    <3>1. /\ worker.at = "claim" /\ m \in Tracked /\ ~instances[m].inFlight
          /\ cleanup' = [cleanup EXCEPT ![m] = [at |-> "claimed", by |-> "goroutine"]]
      BY <2>3 DEF ClaimCleanup, claimRemoval, Claimable, Removing, Tracked
    <3>2. cleanup[m].at \notin CleaningSteps \cup {"signalling"}
      BY <2>1, <3>1 DEF Owned, CleanupOwned
    <3>3. cleanup[m].at = "none"
      BY <2>1, <3>2 DEF TypeOK, CleanupType, CleanupSteps, CleaningSteps
    <3> QED BY <2>1, <3>1, <3>3 DEF TypeOK
  <2>4. ASSUME NEW m \in Names, DrainClaims(m) PROVE Step
    BY <2>4 DEF DrainClaims, NoCleanupRuns
  <2>5. ASSUME NEW m \in Names, LaunchedDraining(m) PROVE Step
    <3>1. StartingOf(m) /\ cleanup' = [cleanup EXCEPT ![m] = [at |-> "claimed", by |-> "worker"]]
      BY <2>5 DEF LaunchedDraining, Starting, StartingOf, StartSteps
    <3> QED BY <2>1, <3>1 DEF Owned, StartOwned, TypeOK
  <2>6. ASSUME NEW m \in Names, Clean(m) PROVE Step
    <3>1. \/ UNCHANGED cleanup \/ cleanupEnds(m)
          \/ \E step \in CleanupSteps \ {"claimed"} : cleanupSteps(m, step)
      BY <2>6 DEF Clean, LookUpRunner, AskGitHub, Refused, SignalRestored, RemoveInstance, FinishRemoval,
           SignalRemoved, removalFails, CleanupSteps
    <3> QED BY <2>1, <3>1 DEF cleanupEnds, cleanupSteps, NoCleanup, TypeOK, CleanupType
  <2>7. \/ UNCHANGED cleanup
        \/ \E m \in Names : ClaimCleanup(m) \/ DrainClaims(m) \/ LaunchedDraining(m) \/ Clean(m)
    <3>1. CASE UNCHANGED vars
      BY <3>1 DEF vars, taskVars
    <3>2. CASE Bystanders
      BY <3>2 DEF Bystanders, Listen, PendCompletion, SignalCompletion, SignalDesired, HandleDesiredRunnerCount,
           HandleJobStarted, HandleJobCompleted, Listening, RetryDeadlinePasses, RetryTimerFires,
           CleanupDeadlinePasses, CleanupTimerFires, Waiting, World, Outside, taskVars, JobAssigned, JobEnds,
           ProcessExits, ProcessCrashes, Observe, ObserverCancelled, ObserveExit, MarkExited, RaiseBarrier,
           ReportReady, ReportUnready, ObservedSuccess, ObservedFailure, ObserverSignals, Observing
    <3>3. CASE Decide
      BY <3>3 DEF Decide, LoopStops, LoopWakes, EnterPass, NothingToClaim, ReadTarget, CompareCount,
           NothingToTrim, CheckSatisfied, ClearSatisfiedRetry, BeginAcquire, CapacityGranted, CapacityAbandoned,
           RereadTarget, AbandonStart, ScaleDown, ReserveName, OnlyWorker
    <3>4. ASSUME NEW n \in Names, Start(n), ~LaunchedDraining(n) PROVE UNCHANGED cleanup
      BY <3>4 DEF Start, RecordStartAttempt, GenerateJIT, GenerateJITFails, ProviderStarts, ProviderStartFails,
           DropProvision, MarkStarted, RemoveOrphan, RecordStartSuccess, LaunchedRemoved, LaunchedCleaned,
           LaunchedWatched
    <3>5. CASE Stop
      BY <3>5 DEF Stop, DrainBegins, DrainStopsWork, DrainBoundary, DrainCompletes, DrainExpires, SessionEnds,
           ShutdownBegins, ShutdownStopsWork, ShutdownDetaches, ShutdownEnds, ShutdownRemoves
    <3> QED BY <1>1, <3>1, <3>2, <3>3, <3>4, <3>5 DEF Next, Over, Bystanders
  <2> QED BY <2>2, <2>3, <2>4, <2>5, <2>6, <2>7
<1> QED BY <1>1, Inductive, PTL DEF Spec, OneCleanupOwner

\* A completed or exited runner never serves again, whatever arrives for it.
THEOREM TerminalRemovalHolds == Spec => TerminalRemoval
<1> DEFINE Step == \A n \in Removing :
              instances[n].reason \in {"job-completed", "exited"} /\ n \in Tracked' =>
                 n \in Removing' /\ instances'[n].reason = instances[n].reason
<1>1. ASSUME IInv, [Next]_vars PROVE [Step]_vars
  <2>1. InstancesOK /\ Owned /\ worker.known \in BOOLEAN
    BY <1>1, SplitTypes DEF IInv, TypeOK, WorkerType
  <2>2. ASSUME Ages PROVE Step
    BY <2>2 DEF Ages, Terminal, Removing
  <2>3. ASSUME NEW m \in Names, ReserveName(m) PROVE Step
    <3>1. m \notin Tracked
      BY <2>1, <2>3 DEF ReserveName, Owned, UnusedNames
    <3>2. \A n \in Names \ {m} : instances'[n] = instances[n]
      BY <2>1, <2>3 DEF ReserveName, reserve, InstancesOK
    <3> QED BY <3>1, <3>2 DEF Tracked, Removing
  <2>4. Ages \/ \E m \in Names : ReserveName(m)
    <3>1. CASE UNCHANGED vars
      BY <3>1, NoChange DEF vars
    <3>2. CASE Bystanders
      BY <2>1, <3>2, BystandersAge
    <3>3. CASE Decide
      BY <2>1, <3>3, DecidingAges
    <3>4. ASSUME NEW n \in Names, Start(n) \/ Clean(n) PROVE Ages
      BY <2>1, <3>4, StartingAges, CleaningAges
    <3>5. CASE Stop
      BY <2>1, <3>5, StoppingAges
    <3> QED BY <1>1, <3>1, <3>2, <3>3, <3>4, <3>5 DEF Next, Over, Bystanders
  <2> QED BY <2>2, <2>3, <2>4
<1> QED BY <1>1, Inductive, PTL DEF Spec, TerminalRemoval

=============================================================================
