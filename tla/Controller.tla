----------------------------- MODULE Controller -----------------------------
(***************************************************************************)
(* internal/controller: ScaleSetController, which keeps the runners of one *)
(* GitHub scale set, together with what it works against.                  *)
(*                                                                         *)
(* Its goroutines interleave at every lock, channel and remote call:       *)
(*   worker     reconcileLoop, the only one to start runners and, until a  *)
(*              drain, to claim removals                                   *)
(*   cleanup    removeClaimedInstance, one goroutine per claimed removal   *)
(*   observers  watchInstance and waitReady, up to two per runner          *)
(*   listener   the callbacks of the message session, one at a time        *)
(*   stopper    Drain and Shutdown, driven by runScaleSetController        *)
(* `github` and `process` are the two outside views of a runner: its       *)
(* registration with its job, and its container or VM.                     *)
(*                                                                         *)
(* The host capacity is CapacityPromise seen by one scale set: a lease is  *)
(* granted when fewer than HostSlots are out.                              *)
(***************************************************************************)
EXTENDS StartRetry

CONSTANTS
    MinRunners,
    MaxRunners,
    HostSlots,        \* leases this scale set can get
    Watches,          \* the provider implements InstanceWatcher (both do)
    NeedsReadiness,   \* it implements InstanceReadiness (Docker does)
    NoName,
    MaxDemand,        \* bound: the largest desired count GitHub sends
    Faults,           \* bound: calls that fail and runners that crash
    Stops             \* whether the process is ever asked to stop

ASSUME SizesAssumption ==
    MinRunners \in Nat /\ MaxRunners \in Nat /\ HostSlots \in Nat /\ MinRunners <= MaxRunners

ASSUME BoundsAssumption == MaxDemand \in Nat /\ Faults \in Nat

ASSUME FlagsAssumption == NeedsReadiness \in BOOLEAN /\ Watches \in BOOLEAN /\ Stops \in BOOLEAN

ASSUME NoNameAssumption == NoName \notin Names

VARIABLES
    desired, pendingCompletions, demandStale,   \* guarded by desiredMu
    signal,             \* whether the channel `reconcile` holds a token
    cancelAcquire,      \* "nil", "set", or "fired"
    leases,             \* by runner; NoName: the worker's, before it has a name
    worker, cleanup, restored, observers, listener, cleanupTimers,
    stopper, draining, workDone, expired,
    detached,           \* instances Shutdown has yet to remove
    github, process, inbox, faults

demandVars == <<desired, pendingCompletions, demandStale>>
wakeVars   == <<signal, cancelAcquire>>
stopVars   == <<stopper, draining, workDone, expired, detached>>
worldVars  == <<github, process, inbox, faults>>
taskVars   == <<cleanup, restored, observers, cleanupTimers>>

vars == <<instances, retryVars, demandVars, wakeVars, leases, worker, taskVars,
          listener, stopVars, worldVars>>

-----------------------------------------------------------------------------
(***************************************************************************)
(* The places a goroutine can be at.  Steps of one goroutine with nothing  *)
(* between them that another could tell apart are taken together.          *)
(***************************************************************************)

WorkerSteps ==
    {"asleep", "entering", "claim", "target", "count", "trim", "satisfied", "clearing", "allowed",
     "waiting", "recheck", "verify", "reserved", "jit", "starting", "marking", "succeeding",
     "launched", "failing", "orphan", "cleaning", "stopped"}

WorkerType ==
    [at : WorkerSteps, target : 0 .. MaxRunners, runner : Names \cup {NoName},
     known : BOOLEAN, removeNow : BOOLEAN]

WorkerAt(step) == [at |-> step, target |-> 0, runner |-> NoName, known |-> FALSE,
                   removeNow |-> FALSE]

workerGoes(step) == worker' = WorkerAt(step)

workerSteps(step) == worker' = [worker EXCEPT !.at = step]

CleanupSteps ==
    {"none", "claimed", "asking", "refused", "removing", "finishing", "signalling"}

NoCleanup == [at |-> "none", by |-> "nobody"]

CleanupType == [at : CleanupSteps, by : {"nobody", "goroutine", "worker", "drain"}]

cleanupSteps(n, step) == cleanup' = [cleanup EXCEPT ![n].at = step]

cleanupEnds(n) == cleanup' = [cleanup EXCEPT ![n] = NoCleanup]

ObserverKinds == {"watcher", "readiness"}

Observers == Names \X ObserverKinds

\* What the provider lets the controller observe.
StartedKinds ==
    {k \in ObserverKinds : IF k = "watcher" THEN Watches ELSE NeedsReadiness}

ObserverSteps ==
    {"none", "waiting", "exiting", "barrier", "failure", "success", "signalling"}

\* fresh: no desired count has arrived since the exit was observed.
ObserverType == [at : ObserverSteps, fresh : BOOLEAN, unassigned : BOOLEAN]

ObserverAt(step) == [at |-> step, fresh |-> FALSE, unassigned |-> FALSE]

observerGoes(o, step) == observers' = [observers EXCEPT ![o] = ObserverAt(step)]

ListenerSteps ==
    {"opening", "rest", "started", "completed", "pendCompletion", "signalCompletion",
     "signalDesired"}

\* ready: the completed runner has an ID to clean up.
ListenerAt(step) == [at |-> step, ready |-> FALSE]

listenerGoes(step) == listener' = ListenerAt(step)

StopperSteps ==
    {"serving", "stopping", "awaiting", "sweeping", "drained", "leaving", "halting",
     "detaching", "removing", "over"}

\* Past the point where the controller still answers for its runners.
ShuttingDown == stopper \in {"leaving", "halting", "detaching", "removing", "over"}

-----------------------------------------------------------------------------
(***************************************************************************)
(* Shared operations.                                                      *)
(***************************************************************************)

\* signalReconcile_KeepWaiting forgets to abandon the capacity wait.
signalReconcile_KeepWaiting ==
    /\ signal' = (signal \/ ~draining)
    /\ UNCHANGED cancelAcquire

signalReconcile ==
    IF draining
    THEN UNCHANGED wakeVars
    ELSE /\ signal' = TRUE
         /\ cancelAcquire' = IF cancelAcquire = "nil" THEN "nil" ELSE "fired"

Target_Unbounded == MinRunners + desired

Target == LET wanted == MinRunners + desired
          IN  IF wanted < MaxRunners THEN wanted ELSE MaxRunners

CanScale == pendingCompletions = 0 /\ ~demandStale

\* A call whose context is done may fail for free, any other spends a fault.
mayFail(contextDone) ==
    /\ contextDone \/ faults > 0
    /\ faults' = IF contextDone THEN faults ELSE faults - 1

\* A controller whose predecessors have used the names in `used` up; `budget`
\* calls may fail.
InitWith(used, budget) ==
    /\ initInstances
    /\ initRetry
    /\ desired = 0 /\ pendingCompletions = 0 /\ demandStale = FALSE
    /\ signal = FALSE /\ cancelAcquire = "nil"
    /\ leases = {}
    /\ worker = WorkerAt("asleep")
    /\ cleanup = [n \in Names |-> NoCleanup]
    /\ restored = {}
    /\ observers = [o \in Observers |-> ObserverAt("none")]
    /\ cleanupTimers = {}
    /\ listener = ListenerAt("opening")
    /\ stopper = "serving" /\ draining = FALSE /\ workDone = FALSE /\ expired = FALSE
    /\ detached = {}
    /\ github = [n \in Names |-> IF n \in used THEN "absent" ELSE "unused"]
    /\ process = [n \in Names |-> "none"]
    /\ inbox = {}
    /\ faults = budget

Init == InitWith({}, Faults)

-----------------------------------------------------------------------------
(***************************************************************************)
(* removeClaimedInstance with deregister and finishRemoval, for whoever    *)
(* runs it: a cleanup goroutine, the worker or Drain.                      *)
(***************************************************************************)

Cleaning == UNCHANGED <<demandVars, worker, observers, listener, stopVars, inbox>>

ContextDone(n) ==
    \/ cleanup[n].by = "goroutine" /\ workDone
    \/ cleanup[n].by = "drain" /\ expired

\* retryRemoval and its timer.  The worker's own removal is left to Drain.
removalFails(n) ==
    /\ IF cleanup[n].by # "worker" /\ canRetry(n)
       THEN /\ retryRemoval(n)
            /\ cleanupTimers' = IF ContextDone(n) \/ draining THEN cleanupTimers
                                ELSE cleanupTimers \cup {n}
       ELSE UNCHANGED <<instances, cleanupTimers>>
    /\ cleanupEnds(n)

LookUpRunner_NoQuestion(n) ==
    /\ cleanup[n].at = "claimed"
    /\ cleanupSteps(n, "removing")
    /\ UNCHANGED <<instances, retryVars, wakeVars, leases, restored, cleanupTimers, github, process, faults>>
    /\ Cleaning

\* deregister asks GitHub only about a removal that looked idle, and gives up
\* when it does not know the runner's ID.
LookUpRunner(n) ==
    /\ cleanup[n].at = "claimed"
    /\ IF deregistrationNeeded(n) /\ ~instances[n].runnerID
       THEN removalFails(n)
       ELSE /\ cleanupSteps(n, IF deregistrationNeeded(n) THEN "asking" ELSE "removing")
            /\ UNCHANGED <<instances, cleanupTimers>>
    /\ UNCHANGED <<retryVars, wakeVars, leases, restored, github, process, faults>> /\ Cleaning

\* RemoveRunner: done, not found, refused because it holds a job, or an error
\* after which nobody knows whether it was done.
AskGitHub(n) ==
    /\ cleanup[n].at = "asking"
    /\ LET removed == [github EXCEPT ![n] = IF @ = "registered" THEN "absent" ELSE @]
       IN  \/ /\ github' = removed
              /\ cleanupSteps(n, IF github[n] = "working" THEN "refused" ELSE "removing")
              /\ UNCHANGED <<instances, cleanupTimers, faults>>
           \/ /\ mayFail(ContextDone(n))
              /\ github' \in {github, removed}
              /\ removalFails(n)
    /\ UNCHANGED <<retryVars, wakeVars, leases, restored, process>> /\ Cleaning

Refused_AlwaysRestore(n) ==
    /\ cleanup[n].at = "refused"
    /\ n \in Tracked
    /\ restoreBusy(n)
    /\ UNCHANGED retryVars
    /\ cleanupEnds(n)
    /\ restored' = restored \cup {n}
    /\ UNCHANGED <<wakeVars, leases, cleanupTimers, github, process, faults>> /\ Cleaning

\* restoreBusy keeps the runner, unless its job completed meanwhile.  The call
\* still has to signal; the runner may be removed again before it does.
Refused(n) ==
    /\ cleanup[n].at = "refused"
    /\ IF deregistrationNeeded(n)
       THEN /\ restoreBusy(n) /\ recordWorkSuccess(n)
            /\ cleanupEnds(n)
            /\ restored' = restored \cup {n}
       ELSE /\ cleanupSteps(n, "removing")
            /\ UNCHANGED <<instances, retryVars, restored>>
    /\ UNCHANGED <<wakeVars, leases, cleanupTimers, github, process, faults>> /\ Cleaning

SignalRestored(n) ==
    /\ n \in restored
    /\ signalReconcile
    /\ restored' = restored \ {n}
    /\ UNCHANGED <<instances, retryVars, leases, cleanup, cleanupTimers, github, process, faults>>
    /\ Cleaning

RemoveInstance_IgnoreError(n) ==
    /\ cleanup[n].at = "removing"
    /\ cleanupSteps(n, "finishing")
    /\ \/ process' = [process EXCEPT ![n] = "none"] /\ UNCHANGED faults
       \/ mayFail(ContextDone(n)) /\ UNCHANGED process
    /\ UNCHANGED <<instances, retryVars, wakeVars, leases, restored, cleanupTimers, github>>
    /\ Cleaning

RemoveInstance(n) ==
    /\ cleanup[n].at = "removing"
    /\ LET removed == [process EXCEPT ![n] = "none"]
       IN  \/ /\ process' = removed
              /\ cleanupSteps(n, "finishing")
              /\ UNCHANGED <<instances, cleanupTimers, faults>>
           \/ /\ mayFail(ContextDone(n))
              /\ process' \in {process, removed}
              /\ removalFails(n)
    /\ UNCHANGED <<retryVars, wakeVars, leases, restored, github>> /\ Cleaning

\* finishRemoval: the entry goes, then the lease.
FinishRemoval(n) ==
    /\ cleanup[n].at = "finishing"
    /\ IF canFinish(n)
       THEN finishRemoval(n) /\ leases' = leases \ {n} /\ cleanupSteps(n, "signalling")
       ELSE UNCHANGED <<instances, leases>> /\ cleanupEnds(n)
    /\ UNCHANGED <<retryVars, wakeVars, restored, cleanupTimers, github, process, faults>> /\ Cleaning

SignalRemoved(n) ==
    /\ cleanup[n].at = "signalling"
    /\ signalReconcile
    /\ cleanupEnds(n)
    /\ UNCHANGED <<instances, retryVars, leases, restored, cleanupTimers, github, process, faults>>
    /\ Cleaning

Clean(n) ==
    \/ LookUpRunner(n) \/ AskGitHub(n) \/ Refused(n) \/ SignalRestored(n)
    \/ RemoveInstance(n) \/ FinishRemoval(n) \/ SignalRemoved(n)

-----------------------------------------------------------------------------
(***************************************************************************)
(* reconcileLoop and reconcileOne.                                         *)
(***************************************************************************)

\* What the worker leaves alone while it decides.
Deciding == UNCHANGED <<demandVars, restored, observers, cleanupTimers, listener, stopVars, worldVars>>

OnlyWorker == UNCHANGED <<instances, retryVars, wakeVars, leases, cleanup>> /\ Deciding

LoopStops == worker.at = "asleep" /\ workDone /\ workerGoes("stopped") /\ OnlyWorker

LoopWakes ==
    /\ worker.at = "asleep"
    /\ signal /\ signal' = FALSE
    /\ workerGoes("entering")
    /\ UNCHANGED <<instances, retryVars, cancelAcquire, leases, cleanup>> /\ Deciding

EnterPass ==
    /\ worker.at = "entering"
    /\ workerGoes(IF draining THEN "asleep" ELSE "claim")
    /\ OnlyWorker

ClaimCleanup(n) ==
    /\ worker.at = "claim"
    /\ claimRemoval(n)
    /\ cleanup' = [cleanup EXCEPT ![n] = [at |-> "claimed", by |-> "goroutine"]]
    /\ workerGoes("entering")
    /\ UNCHANGED <<retryVars, wakeVars, leases>> /\ Deciding

NothingToClaim ==
    /\ worker.at = "claim"
    /\ Claimable = {}
    /\ workerGoes("target")
    /\ OnlyWorker

ReadTarget ==
    /\ worker.at = "target"
    /\ worker' = IF CanScale THEN [WorkerAt("count") EXCEPT !.target = Target]
                 ELSE WorkerAt("asleep")
    /\ OnlyWorker

CompareCount ==
    /\ worker.at = "count"
    /\ IF count < worker.target THEN workerGoes("allowed")
       ELSE workerSteps(IF count = worker.target THEN "satisfied" ELSE "trim")
    /\ OnlyWorker

ScaleDown(n) ==
    /\ worker.at = "trim"
    /\ canTrim(worker.target) /\ markIdleAboveTarget(n)
    /\ workerGoes("entering")
    /\ UNCHANGED <<retryVars, wakeVars, leases, cleanup>> /\ Deciding

NothingToTrim ==
    /\ worker.at = "trim"
    /\ ~canTrim(worker.target)
    /\ workerSteps("satisfied")
    /\ OnlyWorker

\* clearSatisfiedRetry counts under one lock and clears under another.
CheckSatisfied ==
    /\ worker.at = "satisfied"
    /\ workerGoes(IF servingCount >= worker.target THEN "clearing" ELSE "asleep")
    /\ OnlyWorker

ClearSatisfiedRetry ==
    /\ worker.at = "clearing"
    /\ clearRetry
    /\ workerGoes("asleep")
    /\ UNCHANGED <<instances, wakeVars, leases, cleanup>> /\ Deciding

BeginAcquire_NoCheck ==
    /\ worker.at = "allowed"
    /\ IF retryAllowed
       THEN clearRetry /\ cancelAcquire' = "set" /\ workerGoes("waiting")
       ELSE UNCHANGED <<retryVars, cancelAcquire>> /\ workerGoes("asleep")
    /\ UNCHANGED <<instances, signal, leases, cleanup>> /\ Deciding

\* retryAllowed, and acquireCapacity up to its Acquire: a signal that is
\* already in the channel abandons the wait before it begins.
BeginAcquire ==
    /\ worker.at = "allowed"
    /\ IF ~retryAllowed THEN UNCHANGED <<retryVars, cancelAcquire>> /\ workerGoes("asleep")
       ELSE /\ clearRetry
            /\ IF signal THEN UNCHANGED cancelAcquire /\ workerGoes("asleep")
               ELSE cancelAcquire' = "set" /\ workerGoes("waiting")
    /\ UNCHANGED <<instances, signal, leases, cleanup>> /\ Deciding

CapacityGranted ==
    /\ worker.at = "waiting"
    /\ Cardinality(leases) < HostSlots
    /\ leases' = leases \cup {NoName}
    /\ cancelAcquire' = "nil"
    /\ workerGoes("recheck")
    /\ UNCHANGED <<instances, retryVars, signal, cleanup>> /\ Deciding

CapacityAbandoned ==
    /\ worker.at = "waiting"
    /\ cancelAcquire = "fired" \/ workDone
    /\ cancelAcquire' = "nil"
    /\ workerGoes("asleep")
    /\ UNCHANGED <<instances, retryVars, signal, leases, cleanup>> /\ Deciding

returnLease == leases' = leases \ {NoName} /\ workerGoes("asleep")

RereadTarget_KeepLease ==
    /\ worker.at = "recheck"
    /\ worker' = IF CanScale /\ ~draining THEN [WorkerAt("verify") EXCEPT !.target = Target]
                 ELSE WorkerAt("asleep")
    /\ OnlyWorker

RereadTarget ==
    /\ worker.at = "recheck"
    /\ IF CanScale /\ ~draining
       THEN UNCHANGED leases /\ worker' = [WorkerAt("verify") EXCEPT !.target = Target]
       ELSE returnLease
    /\ UNCHANGED <<instances, retryVars, wakeVars, cleanup>> /\ Deciding

\* Bound: a runner takes a name of its own, and Names are all there are.
NamesLeft == \E n \in Names : github[n] = "unused"

\* The rest of the check after the wait.
MayStart == count < worker.target /\ retryAllowed /\ NamesLeft

AbandonStart ==
    /\ worker.at = "verify"
    /\ ~MayStart
    /\ returnLease
    /\ UNCHANGED <<instances, retryVars, wakeVars, cleanup>> /\ Deciding

\* The check holds, and startInstanceWithLease reserves a name.
ReserveName(n) ==
    /\ worker.at = "verify"
    /\ MayStart
    /\ github[n] = "unused"
    /\ reserve(n)
    /\ clearRetry
    /\ leases' = (leases \ {NoName}) \cup {n}
    /\ github' = [github EXCEPT ![n] = "absent"]
    /\ worker' = [WorkerAt("reserved") EXCEPT !.runner = n]
    /\ UNCHANGED <<wakeVars, cleanup, process, inbox, faults, demandVars, restored,
                   observers, cleanupTimers, listener, stopVars>>

Decide ==
    \/ LoopStops \/ LoopWakes \/ EnterPass \/ NothingToClaim \/ ReadTarget
    \/ CompareCount \/ NothingToTrim \/ CheckSatisfied \/ ClearSatisfiedRetry
    \/ BeginAcquire \/ CapacityGranted \/ CapacityAbandoned \/ RereadTarget \/ AbandonStart
    \/ \E n \in Names : ClaimCleanup(n) \/ ScaleDown(n) \/ ReserveName(n)

-----------------------------------------------------------------------------
(***************************************************************************)
(* startInstanceWithLease after the reservation.  The disk check before    *)
(* the JIT request is left out: it only delays, its failures are logged.   *)
(***************************************************************************)

Starting(step, n) ==
    /\ worker.at = step /\ worker.runner = n
    /\ UNCHANGED <<demandVars, restored, cleanupTimers, listener, stopVars, inbox>>

RecordStartAttempt(n) ==
    /\ Starting("reserved", n)
    /\ recordStartAttempt(n)
    /\ workerSteps("jit")
    /\ UNCHANGED <<instances, wakeVars, leases, cleanup, observers, github, process, faults>>

\* GenerateJitRunnerConfig registers the runner; that the answer carries no
\* runner ID counts as a fault.
GenerateJIT(n) ==
    /\ Starting("jit", n)
    /\ github' = [github EXCEPT ![n] = "registered"]
    /\ \E known \in BOOLEAN :
          /\ worker' = [worker EXCEPT !.at = "starting", !.known = known]
          /\ IF known THEN UNCHANGED faults ELSE mayFail(FALSE)
    /\ UNCHANGED <<instances, retryVars, wakeVars, leases, cleanup, observers, process>>

\* It fails, perhaps after GitHub has registered the runner.
GenerateJITFails(n) ==
    /\ Starting("jit", n)
    /\ mayFail(workDone)
    /\ \E effect \in {"absent", "registered"} : github' = [github EXCEPT ![n] = effect]
    /\ workerSteps("failing")
    /\ UNCHANGED <<instances, retryVars, wakeVars, leases, cleanup, observers, process>>

\* The container or VM is up; StartInstance has yet to return.
ProviderStarts(n) ==
    /\ Starting("starting", n)
    /\ process' = [process EXCEPT ![n] = "up"]
    /\ workerSteps("marking")
    /\ UNCHANGED <<instances, retryVars, wakeVars, leases, cleanup, observers, github, faults>>

\* A failed start may leave an instance behind, which may even run: the reply of
\* a create got lost, or the clean-up failed too, whose errors the providers drop.
ProviderStartFails(n) ==
    /\ Starting("starting", n)
    /\ mayFail(workDone)
    /\ \E left \in {"none", "stray"} : process' = [process EXCEPT ![n] = left]
    /\ workerSteps("failing")
    /\ UNCHANGED <<instances, retryVars, wakeVars, leases, cleanup, observers, github>>

\* fail: the failure is recorded, the entry dropped, the lease released.
DropProvision(n) ==
    /\ Starting("failing", n)
    /\ IF workDone \/ draining THEN UNCHANGED retryVars ELSE recordStartFailure(n)
    /\ failProvision(n)
    /\ leases' = leases \ {n}
    /\ workerGoes("asleep")
    /\ UNCHANGED <<wakeVars, cleanup, observers, github, process, faults>>

MarkStarted(n) ==
    /\ Starting("marking", n)
    /\ IF n \notin Tracked
       THEN UNCHANGED instances /\ workerSteps("orphan")
       ELSE /\ IF NeedsReadiness THEN markProvisioned(n, worker.known)
                                 ELSE markReady(n, worker.known)
            /\ worker' = [WorkerAt(IF NeedsReadiness THEN "launched" ELSE "succeeding")
                             EXCEPT !.runner = n, !.removeNow = n \in Removing]
    /\ UNCHANGED <<retryVars, wakeVars, leases, cleanup, observers, github, process, faults>>

\* Shutdown detached the name meanwhile: remove the instance on the spot.
RemoveOrphan(n) ==
    /\ Starting("orphan", n)
    /\ \/ process' = [process EXCEPT ![n] = "none"] /\ UNCHANGED faults
       \/ mayFail(FALSE) /\ UNCHANGED process
    /\ leases' = leases \ {n}
    /\ workerGoes("asleep")
    /\ UNCHANGED <<instances, retryVars, wakeVars, cleanup, observers, github>>

RecordStartSuccess(n) ==
    /\ Starting("succeeding", n)
    /\ recordStartSuccess(n)
    /\ workerSteps("launched")
    /\ UNCHANGED <<instances, wakeVars, leases, cleanup, observers, github, process, faults>>

\* Its job completed before the start returned: the worker itself will claim
\* the removal.
LaunchedRemoved(n) ==
    /\ Starting("launched", n)
    /\ worker.removeNow /\ ~draining
    /\ signalReconcile
    /\ workerGoes("entering")
    /\ UNCHANGED <<instances, retryVars, leases, cleanup, observers, github, process, faults>>

\* A drain began during the start: the worker removes the instance itself,
\* without claiming the removal.
LaunchedDraining(n) ==
    /\ Starting("launched", n)
    /\ draining
    /\ IF ~worker.removeNow /\ acceptsDone(n, "drain") THEN markDone(n, "drain")
                                                       ELSE UNCHANGED instances
    /\ cleanup' = [cleanup EXCEPT ![n] = [at |-> "claimed", by |-> "worker"]]
    /\ workerSteps("cleaning")
    /\ UNCHANGED <<retryVars, wakeVars, leases, observers, github, process, faults>>

LaunchedCleaned(n) ==
    /\ Starting("cleaning", n)
    /\ cleanup[n].at = "none"
    /\ workerGoes("asleep")
    /\ UNCHANGED <<instances, retryVars, wakeVars, leases, cleanup, observers, github, process, faults>>

LaunchedWatched(n) ==
    /\ Starting("launched", n)
    /\ ~worker.removeNow /\ ~draining
    /\ observers' = [o \in Observers |->
          IF o[1] = n /\ o[2] \in StartedKinds THEN ObserverAt("waiting") ELSE observers[o]]
    /\ workerGoes("entering")
    /\ UNCHANGED <<instances, retryVars, wakeVars, leases, cleanup, github, process, faults>>

Start(n) ==
    \/ RecordStartAttempt(n) \/ GenerateJIT(n) \/ GenerateJITFails(n) \/ ProviderStarts(n) \/ ProviderStartFails(n)
    \/ DropProvision(n) \/ MarkStarted(n) \/ RemoveOrphan(n) \/ RecordStartSuccess(n)
    \/ LaunchedRemoved(n) \/ LaunchedDraining(n) \/ LaunchedCleaned(n) \/ LaunchedWatched(n)

-----------------------------------------------------------------------------
(***************************************************************************)
(* watchInstance, waitReady and handleExit.  A watch that reports an error *)
(* while the instance is up is repeated, which changes nothing.            *)
(***************************************************************************)

Observing == UNCHANGED <<leases, worker, cleanup, restored, cleanupTimers, listener, stopVars,
                         github, process, inbox, desired, pendingCompletions>>

ObserverCancelled(o) ==
    /\ observers[o].at = "waiting"
    /\ workDone \/ (o[2] = "readiness" /\ instances[o[1]].phase # "provisioning")
    /\ observerGoes(o, "none")
    /\ UNCHANGED <<instances, retryVars, wakeVars, demandStale, faults>> /\ Observing

\* The instance is seen to have exited; the demand revision is read.
ObserveExit(o) ==
    /\ observers[o].at = "waiting"
    /\ process[o[1]] # "up"
    /\ o[2] = "readiness" => instances[o[1]].phase = "provisioning"
    /\ ~workDone
    /\ observers' = [observers EXCEPT ![o] =
          IF o[2] = "watcher" /\ ~contains(o[1]) THEN ObserverAt("none")
          ELSE [ObserverAt("exiting") EXCEPT !.fresh = TRUE]]
    /\ UNCHANGED <<instances, retryVars, wakeVars, demandStale, faults>> /\ Observing

MarkExited(o) ==
    /\ observers[o].at = "exiting"
    /\ IF acceptsExit(o[1])
       THEN /\ markExited(o[1])
            /\ observers' = [observers EXCEPT ![o].at = "barrier",
                                              ![o].unassigned = exitedUnassigned(o[1])]
       ELSE UNCHANGED instances /\ observerGoes(o, "none")
    /\ UNCHANGED <<retryVars, wakeVars, demandStale, faults>> /\ Observing

\* The desired count is stale unless a newer one arrived since the exit.
RaiseBarrier(o) ==
    /\ observers[o].at = "barrier"
    /\ demandStale' = (demandStale \/ observers[o].fresh)
    /\ observerGoes(o, IF observers[o].unassigned THEN "failure" ELSE "signalling")
    /\ UNCHANGED <<instances, retryVars, wakeVars, faults>> /\ Observing

ReportReady(o) ==
    /\ observers[o].at = "waiting" /\ o[2] = "readiness"
    /\ process[o[1]] = "up"
    /\ ~workDone /\ acceptsReadiness(o[1])
    /\ readinessResult(o[1], FALSE)
    /\ observerGoes(o, "success")
    /\ UNCHANGED <<retryVars, wakeVars, demandStale, faults>> /\ Observing

\* Not ready in time, or no verdict to be had.
ReportUnready(o) ==
    /\ observers[o].at = "waiting" /\ o[2] = "readiness"
    /\ ~workDone /\ acceptsReadiness(o[1])
    /\ mayFail(FALSE)
    /\ readinessResult(o[1], TRUE)
    /\ observerGoes(o, "failure")
    /\ UNCHANGED <<retryVars, wakeVars, demandStale>> /\ Observing

ObservedSuccess(o) ==
    /\ observers[o].at = "success"
    /\ recordStartSuccess(o[1])
    /\ observerGoes(o, "signalling")
    /\ UNCHANGED <<instances, wakeVars, demandStale, faults>> /\ Observing

ObservedFailure_NoSignal(o) ==
    /\ observers[o].at = "failure"
    /\ IF workDone \/ draining \/ hasWork(o[1]) THEN UNCHANGED retryVars
                                                ELSE recordStartFailure(o[1])
    /\ observerGoes(o, "none")
    /\ UNCHANGED <<instances, wakeVars, demandStale, faults>> /\ Observing

\* recordStartFailureFor: not during a stop, nor for a runner that had a job.
ObservedFailure(o) ==
    /\ observers[o].at = "failure"
    /\ IF workDone \/ draining \/ hasWork(o[1]) THEN UNCHANGED retryVars
                                                ELSE recordStartFailure(o[1])
    /\ observerGoes(o, "signalling")
    /\ UNCHANGED <<instances, wakeVars, demandStale, faults>> /\ Observing

ObserverSignals(o) ==
    /\ observers[o].at = "signalling"
    /\ signalReconcile
    /\ observerGoes(o, "none")
    /\ UNCHANGED <<instances, retryVars, demandStale, faults>> /\ Observing

Observe(o) ==
    \/ ObserverCancelled(o) \/ ObserveExit(o) \/ MarkExited(o) \/ RaiseBarrier(o)
    \/ ReportReady(o) \/ ReportUnready(o) \/ ObservedSuccess(o) \/ ObservedFailure(o)
    \/ ObserverSignals(o)

-----------------------------------------------------------------------------
(***************************************************************************)
(* Timers.                                                                 *)
(***************************************************************************)

Waiting == UNCHANGED <<demandVars, leases, worker, cleanup, restored, observers, listener,
                       stopVars, worldVars>>

RetryDeadlinePasses ==
    /\ RetryDeadline
    /\ UNCHANGED <<instances, wakeVars, cleanupTimers>> /\ Waiting

RetryTimerFires_NoSignal ==
    /\ retry = "due"
    /\ clearRetry
    /\ UNCHANGED <<instances, cleanupTimers, wakeVars>> /\ Waiting

RetryTimerFires ==
    /\ retry = "due"
    /\ clearRetry
    /\ signalReconcile
    /\ UNCHANGED <<instances, cleanupTimers>> /\ Waiting

CleanupDeadlinePasses(n) ==
    /\ cleanupRetryDue(n)
    /\ UNCHANGED <<retryVars, wakeVars, cleanupTimers>> /\ Waiting

\* The timer is armed after the deadline is set, so it fires later.
CleanupTimerFires(n) ==
    /\ n \in cleanupTimers /\ ~instances[n].backoff
    /\ signalReconcile
    /\ cleanupTimers' = cleanupTimers \ {n}
    /\ UNCHANGED <<instances, retryVars>> /\ Waiting

-----------------------------------------------------------------------------
(***************************************************************************)
(* The listener.  The session hands over a message as the callbacks for    *)
(* its JobStarted, then its JobCompleted events, then one desired count;   *)
(* it calls the desired count alone when it (re)connects.                  *)
(***************************************************************************)

Listening == UNCHANGED <<leases, worker, cleanup, restored, cleanupTimers, stopVars,
                         github, process, faults>>

\* markBusy and recordWorkSuccessFor.
HandleJobStarted(n) ==
    /\ listener.at \in {"rest", "started"} /\ ~ShuttingDown
    /\ <<n, "started">> \in inbox
    /\ inbox' = inbox \ {<<n, "started">>}
    /\ IF acceptsJob(n) THEN markBusy(n) /\ recordWorkSuccess(n)
                        ELSE UNCHANGED <<instances, retryVars>>
    /\ listenerGoes("started")
    /\ UNCHANGED <<demandVars, wakeVars, observers>> /\ Listening

HandleJobCompleted_NotDraining(n) ==
    /\ listener.at \in {"rest", "started", "completed"} /\ ~ShuttingDown
    /\ <<n, "completed">> \in inbox /\ <<n, "started">> \notin inbox
    /\ inbox' = inbox \ {<<n, "completed">>}
    /\ IF acceptsDone(n, "job-completed") /\ ~draining
       THEN /\ markDone(n, "job-completed") /\ recordWorkSuccess(n)
            /\ listener' = [at |-> "pendCompletion", ready |-> instances[n].id]
       ELSE UNCHANGED <<instances, retryVars>> /\ listenerGoes("completed")
    /\ UNCHANGED <<demandVars, wakeVars, observers>> /\ Listening

\* HandleJobCompleted: markDone and recordWorkSuccessFor ...
HandleJobCompleted(n) ==
    /\ listener.at \in {"rest", "started", "completed"} /\ ~ShuttingDown
    /\ <<n, "completed">> \in inbox /\ <<n, "started">> \notin inbox
    /\ inbox' = inbox \ {<<n, "completed">>}
    /\ IF acceptsDone(n, "job-completed")
       THEN /\ markDone(n, "job-completed") /\ recordWorkSuccess(n)
            /\ listener' = [at |-> "pendCompletion", ready |-> instances[n].id]
       ELSE UNCHANGED <<instances, retryVars>> /\ listenerGoes("completed")
    /\ UNCHANGED <<demandVars, wakeVars, observers>> /\ Listening

\* ... the barrier ...
PendCompletion ==
    /\ listener.at = "pendCompletion"
    /\ pendingCompletions' = pendingCompletions + 1
    /\ listenerGoes(IF listener.ready THEN "signalCompletion" ELSE "completed")
    /\ UNCHANGED <<instances, retryVars, desired, demandStale, wakeVars, observers, inbox>>
    /\ Listening

\* ... and the signal, when there is an instance to clean up.
SignalCompletion ==
    /\ listener.at = "signalCompletion"
    /\ signalReconcile
    /\ listenerGoes("completed")
    /\ UNCHANGED <<instances, retryVars, demandVars, observers, inbox>> /\ Listening

HandleDesiredRunnerCount(d) ==
    /\ listener.at \in {"opening", "started", "completed"} \/ (listener.at = "rest" /\ ~ShuttingDown)
    /\ IF draining \/ ShuttingDown
       THEN UNCHANGED <<demandVars, observers>> /\ listenerGoes("rest")
       ELSE /\ desired' = d /\ pendingCompletions' = 0 /\ demandStale' = FALSE
            /\ observers' = [o \in Observers |-> [observers[o] EXCEPT !.fresh = FALSE]]
            /\ listenerGoes("signalDesired")
    /\ UNCHANGED <<instances, retryVars, wakeVars, inbox>> /\ Listening

SignalDesired ==
    /\ listener.at = "signalDesired"
    /\ signalReconcile
    /\ listenerGoes("rest")
    /\ UNCHANGED <<instances, retryVars, demandVars, observers, inbox>> /\ Listening

Listen ==
    \/ PendCompletion \/ SignalCompletion \/ SignalDesired
    \/ \E d \in 0 .. MaxDemand : HandleDesiredRunnerCount(d)
    \/ \E n \in Names : HandleJobStarted(n) \/ HandleJobCompleted(n)

-----------------------------------------------------------------------------
(***************************************************************************)
(* Drain and Shutdown.  The message session ends ("leaving") when Drain    *)
(* has returned, or at once when there is no time for a drain.             *)
(***************************************************************************)

Stopping == UNCHANGED <<demandVars, wakeVars, worker, restored, observers, cleanupTimers,
                        listener, github, inbox>>

NoCleanupRuns == \A n \in Names : cleanup[n].at = "none" /\ n \notin restored

Quiet_IgnoringWorker ==
    /\ NoCleanupRuns
    /\ \A o \in Observers : observers[o].at = "none"

\* waitWorker returns: the worker, the cleanups and the observers have ended.
Quiet ==
    /\ worker.at = "stopped"
    /\ NoCleanupRuns
    /\ \A o \in Observers : observers[o].at = "none"

\* stopWork.
stopWork == workDone' = TRUE /\ clearRetry

DrainBegins ==
    /\ Stops /\ stopper = "serving"
    /\ draining' = TRUE
    /\ stopper' = "stopping"
    /\ UNCHANGED <<instances, retryVars, leases, cleanup, workDone, expired, detached, process, faults>> /\ Stopping

DrainStopsWork ==
    /\ stopper = "stopping"
    /\ stopWork
    /\ stopper' = "awaiting"
    /\ UNCHANGED <<instances, leases, cleanup, draining, expired, detached, process, faults>> /\ Stopping

DrainBoundary ==
    /\ stopper = "awaiting"
    /\ Quiet
    /\ idleForRemoval
    /\ stopper' = "sweeping"
    /\ UNCHANGED <<retryVars, leases, cleanup, draining, workDone, expired, detached, process, faults>> /\ Stopping

\* Drain runs one removal at a time, and finds out itself what is due.
DrainClaims(n) ==
    /\ stopper = "sweeping" /\ ~expired
    /\ NoCleanupRuns
    /\ claimRemoval(n)
    /\ cleanup' = [cleanup EXCEPT ![n] = [at |-> "claimed", by |-> "drain"]]
    /\ UNCHANGED <<retryVars, leases, stopVars, process, faults>> /\ Stopping

DrainCompletes_IgnoringRemovals ==
    /\ stopper = "sweeping"
    /\ NoCleanupRuns
    /\ Busy = {}
    /\ stopper' = "drained"
    /\ UNCHANGED <<instances, retryVars, leases, cleanup, draining, workDone, expired, detached, process, faults>>
    /\ Stopping

DrainCompletes ==
    /\ stopper = "sweeping"
    /\ NoCleanupRuns
    /\ Busy = {} /\ Removing = {}
    /\ stopper' = "drained"
    /\ UNCHANGED <<instances, retryVars, leases, cleanup, draining, workDone, expired, detached, process, faults>>
    /\ Stopping

\* The drain's deadline.
DrainExpires ==
    /\ stopper \in {"awaiting", "sweeping"}
    /\ expired' = TRUE
    /\ UNCHANGED <<instances, retryVars, leases, cleanup, stopper, draining, workDone, detached, process, faults>>
    /\ Stopping

\* Drain has returned, or the process stops without one: the session ends.
SessionEnds ==
    /\ \/ Stops /\ stopper = "serving"
       \/ stopper = "drained"
       \/ expired /\ stopper = "awaiting"
       \/ expired /\ stopper = "sweeping" /\ NoCleanupRuns
    /\ stopper' = "leaving"
    /\ UNCHANGED <<instances, retryVars, leases, cleanup, draining, workDone, expired, detached, process, faults>>
    /\ Stopping

ShutdownBegins ==
    /\ stopper = "leaving"
    /\ listener.at = "rest"
    /\ draining' = TRUE
    /\ stopper' = "halting"
    /\ UNCHANGED <<instances, retryVars, leases, cleanup, workDone, expired, detached, process, faults>> /\ Stopping

ShutdownStopsWork ==
    /\ stopper = "halting"
    /\ stopWork
    /\ stopper' = "detaching"
    /\ UNCHANGED <<instances, leases, cleanup, draining, expired, detached, process, faults>> /\ Stopping

\* After waitWorker, which may time out.  An instance without an ID only loses
\* its lease, the others are removed side by side.
ShutdownDetaches ==
    /\ stopper = "detaching"
    /\ detachAll
    /\ detached' = {n \in Tracked : instances[n].id}
    /\ leases' = leases \ (Tracked \ detached')
    /\ stopper' = "removing"
    /\ UNCHANGED <<retryVars, cleanup, draining, workDone, expired, process, faults>> /\ Stopping

ShutdownRemoves_KeepLease(n) ==
    /\ stopper = "removing" /\ n \in detached
    /\ \/ process' = [process EXCEPT ![n] = "none"] /\ UNCHANGED faults
       \/ mayFail(FALSE) /\ UNCHANGED process
    /\ detached' = detached \ {n}
    /\ UNCHANGED <<instances, retryVars, leases, cleanup, stopper, draining, workDone, expired>> /\ Stopping

ShutdownRemoves(n) ==
    /\ stopper = "removing" /\ n \in detached
    /\ \/ process' = [process EXCEPT ![n] = "none"] /\ UNCHANGED faults
       \/ mayFail(FALSE) /\ UNCHANGED process
    /\ leases' = leases \ {n}
    /\ detached' = detached \ {n}
    /\ UNCHANGED <<instances, retryVars, cleanup, stopper, draining, workDone, expired>> /\ Stopping

ShutdownEnds ==
    /\ stopper = "removing" /\ detached = {}
    /\ stopper' = "over"
    /\ UNCHANGED <<instances, retryVars, leases, cleanup, draining, workDone, expired, detached, process, faults>>
    /\ Stopping

Stop ==
    \/ DrainBegins \/ DrainStopsWork \/ DrainBoundary \/ DrainCompletes \/ DrainExpires
    \/ SessionEnds \/ ShutdownBegins \/ ShutdownStopsWork \/ ShutdownDetaches
    \/ ShutdownEnds
    \/ \E n \in Names : DrainClaims(n) \/ ShutdownRemoves(n)

-----------------------------------------------------------------------------
(***************************************************************************)
(* GitHub and the host.                                                    *)
(***************************************************************************)

Outside == UNCHANGED <<instances, retryVars, demandVars, wakeVars, leases, worker, taskVars,
                       listener, stopVars>>

\* GitHub gives a running runner a job; JobStarted comes some time later.
JobAssigned(n) ==
    /\ github[n] = "registered" /\ process[n] \in {"up", "stray"}
    /\ github' = [github EXCEPT ![n] = "working"]
    /\ inbox' = inbox \cup {<<n, "started">>}
    /\ UNCHANGED <<process, faults>> /\ Outside

\* The job ends, or GitHub gives it up because the runner is gone.
JobEnds(n) ==
    /\ github[n] = "working"
    /\ github' = [github EXCEPT ![n] = "finished"]
    /\ inbox' = inbox \cup {<<n, "completed">>}
    /\ UNCHANGED <<process, faults>> /\ Outside

\* An ephemeral runner exits after its job and once it is deregistered.
ProcessExits(n) ==
    /\ process[n] = "up"
    /\ github[n] \in {"finished", "absent"}
    /\ process' = [process EXCEPT ![n] = "exited"]
    /\ UNCHANGED <<github, inbox, faults>> /\ Outside

ProcessCrashes(n) ==
    /\ process[n] = "up"
    /\ mayFail(FALSE)
    /\ process' = [process EXCEPT ![n] = "exited"]
    /\ UNCHANGED <<github, inbox>> /\ Outside

World(n) ==
    JobAssigned(n) \/ JobEnds(n) \/ ProcessExits(n) \/ ProcessCrashes(n)

-----------------------------------------------------------------------------

\* The controller's process is gone.
Over == stopper = "over" /\ UNCHANGED vars

Next ==
    \/ Over
    \/ /\ stopper # "over"
       /\ \/ Decide \/ Listen \/ Stop
          \/ RetryDeadlinePasses \/ RetryTimerFires
          \/ \E n \in Names :
                Start(n) \/ Clean(n) \/ CleanupDeadlinePasses(n) \/ CleanupTimerFires(n) \/ World(n)
          \/ \E o \in Observers : Observe(o)

Spec == Init /\ [][Next]_vars

-----------------------------------------------------------------------------
(***************************************************************************)
(* Properties.                                                             *)
(***************************************************************************)

\* The types of the variables.
TypeOK ==
    /\ instances \in [Names -> InstanceType]
    /\ retry \in RetryStates /\ since \in [Names -> SinceStates]
    /\ desired \in 0 .. MaxDemand /\ pendingCompletions \in Nat /\ demandStale \in BOOLEAN
    /\ signal \in BOOLEAN /\ cancelAcquire \in {"nil", "set", "fired"}
    /\ leases \in SUBSET (Names \cup {NoName})
    /\ worker \in WorkerType
    /\ cleanup \in [Names -> CleanupType]
    /\ restored \in SUBSET Names
    /\ observers \in [Observers -> ObserverType]
    /\ cleanupTimers \in SUBSET Names
    /\ listener \in [at : ListenerSteps, ready : BOOLEAN]
    /\ stopper \in StopperSteps /\ detached \in SUBSET Names
    /\ draining \in BOOLEAN /\ workDone \in BOOLEAN /\ expired \in BOOLEAN
    /\ github \in [Names -> {"unused", "absent", "registered", "working", "finished"}]
    /\ process \in [Names -> {"none", "up", "exited", "stray"}]
    /\ inbox \in SUBSET (Names \X {"started", "completed"})
    /\ faults \in 0 .. Faults

\* "The caller must not destroy it": until Shutdown, no live runner that holds
\* a job is removed, although the controller may not know of the job yet.
NoJobKilled ==
    [][\A n \in Names :
          process[n] = "up" /\ process'[n] = "none" /\ github[n] = "working" => ShuttingDown]_vars

\* Replacing a runner early never pushes the scale set over max-runners, even
\* when GitHub makes the controller take a removal back.
WithinMaxRunners == count <= MaxRunners

\* Shutdown has taken the entries out of the map: it removes each instance once,
\* whether that works or not.
HandedOver == stopper \in {"removing", "over"}

\* Until then, capacity is held for as long as the provider has an instance that
\* its start returned, whatever fails or is repeated on the way to its removal.
\* An instance that a failed start left behind is not covered: both providers drop
\* the error of the clean-up, and its lease is released with the failure.
LeaseCoversInstance ==
    \A n \in Names : process[n] \in {"up", "exited"} /\ ~HandedOver => n \in leases

\* No lease leaks: each belongs to an instance in the map, to the start or
\* cleanup at work on it, or to the worker on its way to reserve a name.
LeaseHasOwner ==
    \A l \in leases :
       \/ l = NoName /\ worker.at \in {"recheck", "verify"}
       \/ l \in Tracked \cup detached
       \/ l \in Names /\ l = worker.runner

\* One cleanup owner at a time: a removal is taken up only when nobody is at
\* work on it, though completions, exits, retries and refusals all make
\* removals claimable again.
OneCleanupOwner ==
    [][\A n \in Names :
          cleanup'[n] # cleanup[n] /\ cleanup'[n].at = "claimed" => cleanup[n].at = "none"]_vars

\* A completed or exited runner never serves again: from then on its entry can
\* only disappear.
TerminalRemoval ==
    [][\A n \in Removing :
          instances[n].reason \in {"job-completed", "exited"} /\ n \in Tracked' =>
             n \in Removing' /\ instances'[n].reason = instances[n].reason]_vars

\* Work the worker would find if it looked.
WorkAvailable ==
    \/ Claimable # {}
    \/ CanScale /\ count < Target /\ NamesLeft /\ retryAllowed /\ worker.at # "waiting"
    \/ CanScale /\ count > Target /\ canTrim(Target)

\* Somebody is on the way to signalReconcile.
SignalOwed ==
    \/ IF worker.at = "waiting" THEN cancelAcquire = "fired" ELSE signal
    \/ workDone \/ draining \/ retry = "due"
    \/ listener.at # "rest"
    \/ \E n \in Names :
          \/ n \in restored
          \/ cleanup[n].at = "signalling"
          \/ n \in cleanupTimers /\ ~instances[n].backoff
    \/ \E o \in Observers :
          observers[o].at \in {"barrier", "failure", "success", "signalling"}

\* No lost wake-up: until the process leaves, the worker never sleeps, nor waits
\* for host capacity, next to work that nobody is going to tell it about.
NoLostWakeup ==
    worker.at \in {"asleep", "waiting"} /\ WorkAvailable /\ ~ShuttingDown => SignalOwed

\* Drain reports completion only when no runner is left in the map, busy, being
\* removed or still on its way up, that Shutdown would then cut off.
DrainLeavesNothing == stopper = "drained" => Tracked = {}

\* A runner has left by completion or exit since the last desired count.
StaleDemand ==
    \/ pendingCompletions > 0 \/ demandStale \/ listener.at = "pendCompletion"
    \/ \E o \in Observers : observers[o].at = "barrier" /\ observers[o].fresh

\* "Wait for a fresh desired-count callback before replacing the runner": no
\* runner is reserved while the desired count may still include the job of one
\* that is gone.
ReplacesOnFreshDemand ==
    [][\A n \in Names : n \in Tracked' \ Tracked => ~StaleDemand]_vars

-----------------------------------------------------------------------------
(***************************************************************************)
(* Fairness.  Every goroutine runs on, timers expire, and a message that   *)
(* the listener has begun to deliver is delivered to its end.  When there  *)
(* is room the broker grants at once, so repeated signals cannot cancel    *)
(* every wait.  Nothing obliges GitHub to send messages or jobs to end.    *)
(***************************************************************************)
MessageEnds ==
    \/ PendCompletion \/ SignalCompletion \/ SignalDesired
    \/ listener.at # "rest" /\ \E d \in 0 .. MaxDemand : HandleDesiredRunnerCount(d)

Fairness ==
    /\ WF_vars(Decide) /\ SF_vars(CapacityGranted)
    /\ WF_vars(MessageEnds)
    /\ WF_vars(RetryDeadlinePasses) /\ WF_vars(RetryTimerFires)
    /\ \A n \in Names :
          /\ WF_vars(Start(n)) /\ WF_vars(Clean(n))
          /\ WF_vars(CleanupDeadlinePasses(n)) /\ WF_vars(CleanupTimerFires(n))
    /\ \A o \in Observers : WF_vars(observers[o].at # "waiting" /\ Observe(o))

FairSpec == Spec /\ Fairness

\* A removal always comes to an end, in spite of failed attempts and of a worker
\* that waits for the very capacity the removal will return.
RemovalEnds ==
    \A n \in Names :
       n \in Removing /\ instances[n].runnerID ~> n \notin Removing

\* Missing runners are started: the controller never rests below its target
\* unless it waits for a desired count.
Short == stopper = "serving" /\ CanScale /\ count < Target /\ NamesLeft

ShortfallEnds == Short ~> ~Short \/ listener.at # "rest"

\* When jobs end and GitHub reports it, Drain comes to an end.
DrainEnds == stopper = "stopping" ~> stopper \in {"drained", "leaving"}

\* The worker gets its work done: removals end and missing runners are started.
WorkGetsDone == RemovalEnds /\ ShortfallEnds

=============================================================================
