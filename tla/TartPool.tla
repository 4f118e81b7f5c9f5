------------------------------ MODULE TartPool ------------------------------
(***************************************************************************)
(* internal/provider/tart.go: the Tart VMs of one host.                    *)
(*                                                                         *)
(* Every Tart scale set has a TartProvider; all of them share the slots of *)
(* one TartHostCoordinator, because macOS runs two VMs at most.  A set     *)
(* with a warm pool has one filler goroutine per pool slot (fillPool) that *)
(* boots VMs into the buffered channel p.pool.  The starter is the         *)
(* controller's worker inside StartInstance.                               *)
(*                                                                         *)
(* A VM is known to three parties which are never updated together: the    *)
(* coordinator (its slot), Tart (the clone on disk and the `tart run`      *)
(* process) and whoever holds the *warmVM: a goroutine, the pool, or       *)
(* activeVMs.  Commands fail, VMs crash and contexts end at any moment.    *)
(***************************************************************************)
EXTENDS Naturals, Sequences, FiniteSets

CONSTANTS
    Sets,       \* Tart scale sets
    PoolSize,   \* pool-size of each, 0 when it has no pool
    Limit,      \* slots of the coordinator
    VMs,        \* bound: VM names in use at one time
    NoVM, Nobody,
    Faults,     \* bound: commands that fail and VMs that crash
    Drains,     \* whether controllers are asked to drain
    Stops       \* whether they are asked to shut down

ASSUME PoolSizeAssumption == PoolSize \in [Sets -> Nat]

ASSUME LimitAssumption == Limit \in Nat \ {0} /\ Faults \in Nat

ASSUME NullsAssumption == NoVM \notin VMs /\ Nobody \notin Sets

ASSUME StopsAssumption == Drains \in BOOLEAN /\ Stops \in BOOLEAN

VARIABLES
    free,        \* slots in the coordinator's channel
    vms,         \* every VM as Tart and its warmVM know it
    pool,        \* p.pool, the channel of each set
    active,      \* p.activeVMs of all sets
    serving,     \* instance IDs the controllers hold
    task,        \* where each goroutine is, and with which VM
    working,     \* sets whose controller's workCtx is live
    stopped,     \* sets whose poolStop was called
    running,     \* whether the run context of the process is live
    stopper,     \* how far Shutdown of each set is
    faults

stopVars == <<working, stopped, running, stopper>>

vars == <<free, vms, pool, active, serving, task, stopVars, faults>>

-----------------------------------------------------------------------------

Slots == 0 .. Limit - 1

NoSlot == Limit

Starter(s) == <<s, 0>>

Fillers(s) == {<<s, i>> : i \in 1 .. PoolSize[s]}

Workers == UNION {Fillers(s) \cup {Starter(s)} : s \in Sets}

Owner(w) == w[1]

IsFiller(w) == w[2] # 0

VM == [owner : Sets \cup {Nobody}, pooled : BOOLEAN, onDisk : BOOLEAN,
       run : {"off", "up"}, cancelled : BOOLEAN, reaped : BOOLEAN,
       abandoned : BOOLEAN, slot : Slots \cup {NoSlot}]

\* A name nobody uses: no clone, no process, no slot.
Blank == [owner |-> Nobody, pooled |-> FALSE, onDisk |-> FALSE, run |-> "off",
          cancelled |-> FALSE, reaped |-> FALSE, abandoned |-> FALSE, slot |-> NoSlot]

Places == {"idle", "acquiring", "preparing", "booting", "backoff", "offering",
           "clearing", "leaving", "stopped", "taking", "discarding", "starting", "aborting"}

At(place) == [at |-> place, vm |-> NoVM]

goes(w, place) == task' = [task EXCEPT ![w] = At(place)]

steps(w, place) == task' = [task EXCEPT ![w].at = place]

-----------------------------------------------------------------------------
(***************************************************************************)
(* Contexts.  poolCtx derives from the run context; the VM of a filler is  *)
(* a child of poolCtx, that of a cold start a child of the worker's        *)
(* context, which StartInstance is called with.                            *)
(***************************************************************************)

\* The VMs of the pool as children of the controller's work context.
PoolLive_OfWork(s) == running /\ s \notin stopped /\ s \in working

\* The pool ends with the process only.
PoolLive_RunOnly(s) == s \in Sets /\ running

PoolLive(s) == running /\ s \notin stopped

ContextLive(w) == IF IsFiller(w) THEN PoolLive(Owner(w)) ELSE Owner(w) \in working

\* vmCtx is done, so that exec kills `tart run`.
Cancelled(v) ==
    \/ vms[v].cancelled
    \/ IF vms[v].pooled THEN ~PoolLive(vms[v].owner) ELSE vms[v].owner \notin working

FaultLeft == faults > 0

mayFail(failed) == IF failed THEN FaultLeft /\ faults' = faults - 1 ELSE UNCHANGED faults

-----------------------------------------------------------------------------
(***************************************************************************)
(* `tart stop` and `tart delete` of a VM: "gone" when it could be deleted, *)
(* "stopped" when it only is known not to run, "up" when both commands     *)
(* failed and it still runs.  Tart does not delete a running VM.           *)
(***************************************************************************)

Outcomes(v) == {"gone", "stopped"} \cup (IF vms[v].run = "up" THEN {"up"} ELSE {})

AfterCleanUp(vm, outcome) ==
    [vm EXCEPT !.cancelled = TRUE,
               !.run       = IF outcome = "up" THEN "up" ELSE "off",
               !.onDisk    = (outcome # "gone") /\ vm.onDisk]

\* releaseVM, or releaseSlot of bootVM.  A name is free again once nothing is left of its VM.
WithoutSlot(vm) ==
    IF vm.onDisk \/ vm.run = "up" THEN [vm EXCEPT !.slot = NoSlot] ELSE Blank

release(v, vm) ==
    /\ vms'  = [vms EXCEPT ![v] = WithoutSlot(vm)]
    /\ free' = free \cup ({vm.slot} \ {NoSlot})

\* Without waiting for vm.done: the slot is released although the VM may run.
destroyVM_AlwaysReleases(v) ==
    \E outcome \in Outcomes(v) :
        mayFail(outcome # "gone") /\ release(v, AfterCleanUp(vms[v], outcome))

\* The slot is released at once and again by the reaper.
destroyVM_ReleasesTwice(v) ==
    \E outcome \in Outcomes(v) :
        /\ mayFail(outcome # "gone")
        /\ LET vm == AfterCleanUp(vms[v], outcome)
           IN  IF outcome = "up"
               THEN /\ vms'  = [vms EXCEPT ![v] = [vm EXCEPT !.reaped = TRUE]]
                    /\ free' = free \cup {vm.slot}
               ELSE release(v, vm)

\* The slot is kept, and nobody waits for the VM to end.
destroyVM_NoReaper(v) ==
    \E outcome \in Outcomes(v) :
        /\ mayFail(outcome # "gone")
        /\ LET vm == AfterCleanUp(vms[v], outcome)
           IN  IF outcome = "up"
               THEN vms' = [vms EXCEPT ![v] = vm] /\ UNCHANGED free
               ELSE release(v, vm)

\* destroyVM: the slot is kept for the goroutine that waits for vm.done while
\* the VM may still run.
destroyVM(v) ==
    \E outcome \in Outcomes(v) :
        /\ mayFail(outcome # "gone")
        /\ LET vm == AfterCleanUp(vms[v], outcome)
           IN  IF outcome = "up"
               THEN vms' = [vms EXCEPT ![v] = [vm EXCEPT !.reaped = TRUE]] /\ UNCHANGED free
               ELSE release(v, vm)

\* <-vm.done; p.releaseVM(vm)
Reap(v) ==
    /\ vms[v].reaped /\ vms[v].run = "off" /\ vms[v].slot # NoSlot
    /\ release(v, vms[v])
    /\ UNCHANGED <<pool, active, serving, task, stopVars, faults>>

-----------------------------------------------------------------------------
(***************************************************************************)
(* bootVM, for a filler as for a cold start.                               *)
(***************************************************************************)

\* A failed boot ends the filler.
AfterFailure_GivesUp(w) == IF IsFiller(w) THEN "stopped" ELSE "idle"

\* A filler whose boot failed ends with its context and otherwise waits for
\* its retry; a cold start returns the error.
AfterFailure(w) ==
    IF ~IsFiller(w) THEN "idle" ELSE IF PoolLive(Owner(w)) THEN "backoff" ELSE "stopped"

\* coordinator.acquire: a free slot, whose index also decides the MAC address.
AcquireSlot(w) ==
    /\ task[w].at = "acquiring"
    /\ \E idx \in free, v \in VMs :
        /\ vms[v] = Blank
        /\ vms'  = [vms EXCEPT ![v] = [Blank EXCEPT !.owner = Owner(w), !.pooled = IsFiller(w),
                                                    !.slot = idx]]
        /\ free' = free \ {idx}
        /\ task' = [task EXCEPT ![w] = [at |-> "preparing", vm |-> v]]
    /\ UNCHANGED <<pool, active, serving, stopVars, faults>>

AcquireCancelled(w) ==
    /\ task[w].at = "acquiring" /\ ~ContextLive(w)
    /\ goes(w, AfterFailure(w))
    /\ UNCHANGED <<free, vms, pool, active, serving, stopVars, faults>>

\* Clone, configure, set the MAC address, and start `tart run`.
Prepare(w) ==
    LET v == task[w].vm IN
    /\ task[w].at = "preparing" /\ ContextLive(w)
    /\ vms' = [vms EXCEPT ![v].onDisk = TRUE, ![v].run = "up"]
    /\ steps(w, "booting")
    /\ UNCHANGED <<free, pool, active, serving, stopVars, faults>>

\* One of these commands fails.  The result of the `tart delete` is ignored.
PrepareFails(w) ==
    LET v == task[w].vm IN
    /\ task[w].at = "preparing"
    /\ \E left \in BOOLEAN :
        /\ mayFail(ContextLive(w) \/ left)
        /\ release(v, [vms[v] EXCEPT !.onDisk = left])
    /\ goes(w, AfterFailure(w))
    /\ UNCHANGED <<pool, active, serving, stopVars>>

\* waitForExec: the guest agent answers.
Booted(w) ==
    /\ task[w].at = "booting" /\ ContextLive(w) /\ vms[task[w].vm].run = "up"
    /\ steps(w, IF IsFiller(w) THEN "offering" ELSE "starting")
    /\ UNCHANGED <<free, vms, pool, active, serving, stopVars, faults>>

\* waitForExec gives up.  The results of `tart stop` and `tart delete` are
\* ignored, and the slot is released whatever they were.
BootFails(w) ==
    LET v     == task[w].vm
        hangs == ContextLive(w) /\ vms[v].run = "up"
    IN
    /\ task[w].at = "booting"
    /\ \E outcome \in Outcomes(v) :
        LET cost == (IF hangs THEN 1 ELSE 0) + (IF outcome # "gone" THEN 1 ELSE 0)
        IN  /\ cost <= faults
            /\ faults' = faults - cost
            /\ release(v, [AfterCleanUp(vms[v], outcome) EXCEPT !.abandoned = TRUE])
    /\ goes(w, AfterFailure(w))
    /\ UNCHANGED <<pool, active, serving, stopVars>>

-----------------------------------------------------------------------------
(***************************************************************************)
(* fillPool.                                                               *)
(***************************************************************************)

NextRound(w) == IF PoolLive(Owner(w)) THEN "acquiring" ELSE "stopped"

\* waitPoolRetry
RetryBoot(w) ==
    /\ task[w].at = "backoff"
    /\ goes(w, NextRound(w))
    /\ UNCHANGED <<free, vms, pool, active, serving, stopVars, faults>>

\* A pool without a bound.
PutInPool_Unbounded(w) ==
    LET s == Owner(w) IN
    /\ task[w].at = "offering"
    /\ pool' = [pool EXCEPT ![s] = Append(@, task[w].vm)]
    /\ goes(w, NextRound(w))
    /\ UNCHANGED <<free, vms, active, serving, stopVars, faults>>

\* case p.pool <- vm
PutInPool(w) ==
    LET s == Owner(w) IN
    /\ task[w].at = "offering"
    /\ Len(pool[s]) < PoolSize[s]
    /\ pool' = [pool EXCEPT ![s] = Append(@, task[w].vm)]
    /\ goes(w, NextRound(w))
    /\ UNCHANGED <<free, vms, active, serving, stopVars, faults>>

\* case <-vm.done and case <-p.poolCtx.Done()
GiveUpOffer(w) ==
    /\ task[w].at = "offering"
    /\ \/ vms[task[w].vm].run = "off" /\ steps(w, "clearing")
       \/ ~PoolLive(Owner(w)) /\ steps(w, "leaving")
    /\ UNCHANGED <<free, vms, pool, active, serving, stopVars, faults>>

-----------------------------------------------------------------------------
(***************************************************************************)
(* StartInstance.                                                          *)
(***************************************************************************)

StartInstance(s) ==
    /\ task[Starter(s)].at = "idle" /\ s \in working
    /\ goes(Starter(s), IF PoolSize[s] > 0 THEN "taking" ELSE "acquiring")
    /\ UNCHANGED <<free, vms, pool, active, serving, stopVars, faults>>

\* case vm = <-p.pool; a VM that has died is discarded.
TakeFromPool(s) ==
    LET v == Head(pool[s]) IN
    /\ task[Starter(s)].at = "taking" /\ pool[s] # <<>>
    /\ pool' = [pool EXCEPT ![s] = Tail(@)]
    /\ task' = [task EXCEPT ![Starter(s)] =
                   [at |-> IF vms[v].run = "off" THEN "discarding" ELSE "starting", vm |-> v]]
    /\ UNCHANGED <<free, vms, active, serving, stopVars, faults>>

TakeCancelled(s) ==
    /\ task[Starter(s)].at = "taking" /\ s \notin working
    /\ goes(Starter(s), "idle")
    /\ UNCHANGED <<free, vms, pool, active, serving, stopVars, faults>>

\* runRunner and waitRunnerListening succeed.
RunnerListening(s) ==
    LET v == task[Starter(s)].vm IN
    /\ task[Starter(s)].at = "starting" /\ s \in working /\ vms[v].run = "up"
    /\ active'  = active \cup {v}
    /\ serving' = serving \cup {v}
    /\ goes(Starter(s), "idle")
    /\ UNCHANGED <<free, vms, pool, stopVars, faults>>

RunnerFails(s) ==
    LET v == task[Starter(s)].vm IN
    /\ task[Starter(s)].at = "starting"
    /\ mayFail(s \in working /\ vms[v].run = "up")
    /\ steps(Starter(s), "aborting")
    /\ UNCHANGED <<free, vms, pool, active, serving, stopVars>>

\* destroyVM, called by a filler or a starter.
Destroy(w) ==
    /\ task[w].at \in {"clearing", "leaving", "discarding", "aborting"}
    /\ destroyVM(task[w].vm)
    /\ goes(w, CASE task[w].at = "clearing"   -> NextRound(w)
                 [] task[w].at = "leaving"    -> "stopped"
                 [] task[w].at = "discarding" -> "taking"
                 [] task[w].at = "aborting"   -> "idle")
    /\ UNCHANGED <<pool, active, serving, stopVars>>

-----------------------------------------------------------------------------
(***************************************************************************)
(* RemoveInstance.  The controller keeps the instance and tries again when *)
(* it fails, except during its Shutdown.                                   *)
(***************************************************************************)

\* The VM leaves activeVMs before it is known to have stopped.
RemoveInstance_Untracks(v) ==
    /\ v \in serving
    /\ \E outcome \in Outcomes(v) :
        /\ mayFail(outcome # "gone")
        /\ IF outcome # "up" /\ v \in active
           THEN release(v, AfterCleanUp(vms[v], outcome))
           ELSE UNCHANGED <<vms, free>>
        /\ active' = active \ {v}
        /\ serving' = IF outcome = "gone" THEN serving \ {v} ELSE serving
    /\ UNCHANGED <<pool, task, stopVars>>

RemoveInstance(v) ==
    /\ v \in serving
    /\ \E outcome \in Outcomes(v) :
        /\ mayFail(outcome # "gone")
        /\ LET vm == [AfterCleanUp(vms[v], outcome) EXCEPT !.cancelled = vms[v].cancelled]
           IN  IF outcome # "up" /\ v \in active
               THEN release(v, [vm EXCEPT !.cancelled = TRUE]) /\ active' = active \ {v}
               ELSE /\ vms' = [vms EXCEPT ![v] = IF vm.onDisk \/ v \in active THEN vm ELSE Blank]
                    /\ UNCHANGED <<free, active>>
        /\ IF outcome = "gone" \/ stopper[vms[v].owner] # "none"
           THEN serving' = serving \ {v}
           ELSE UNCHANGED serving
    /\ UNCHANGED <<pool, task, stopVars>>

-----------------------------------------------------------------------------
(***************************************************************************)
(* The end: Drain and Shutdown of a controller, and the run context.       *)
(***************************************************************************)

\* Drain and Shutdown of the controller begin with stopWork.
StopWork(s) ==
    /\ Drains /\ s \in working
    /\ working' = working \ {s}
    /\ UNCHANGED <<free, vms, pool, active, serving, task, stopped, running, stopper, faults>>

CancelRun ==
    /\ Stops /\ running
    /\ running' = FALSE
    /\ UNCHANGED <<free, vms, pool, active, serving, task, working, stopped, stopper, faults>>

BeginShutdown(s) ==
    /\ Stops /\ s \notin working /\ stopper[s] = "none" /\ task[Starter(s)].at = "idle"
    /\ stopper' = [stopper EXCEPT ![s] = "removing"]
    /\ UNCHANGED <<free, vms, pool, active, serving, task, working, stopped, running, faults>>

\* Shutdown of the provider, once the instances are removed: poolStop.
StopPool(s) ==
    /\ stopper[s] = "removing"
    /\ \A v \in serving : vms[v].owner # s
    /\ stopped' = stopped \cup {s}
    /\ stopper' = [stopper EXCEPT ![s] = IF PoolSize[s] > 0 THEN "emptying" ELSE "done"]
    /\ UNCHANGED <<free, vms, pool, active, serving, task, working, running, faults>>

EmptyPool(s) ==
    /\ stopper[s] = "emptying" /\ pool[s] # <<>>
    /\ destroyVM(Head(pool[s]))
    /\ pool' = [pool EXCEPT ![s] = Tail(@)]
    /\ UNCHANGED <<active, serving, task, stopVars>>

\* default: p.poolWg.Wait()
PoolEmptied(s) ==
    /\ stopper[s] = "emptying" /\ pool[s] = <<>>
    /\ stopper' = [stopper EXCEPT ![s] = "joining"]
    /\ UNCHANGED <<free, vms, pool, active, serving, task, working, stopped, running, faults>>

ShutdownReturns(s) ==
    /\ stopper[s] = "joining"
    /\ \A w \in Fillers(s) : task[w].at = "stopped"
    /\ stopper' = [stopper EXCEPT ![s] = "done"]
    /\ UNCHANGED <<free, vms, pool, active, serving, task, working, stopped, running, faults>>

-----------------------------------------------------------------------------
(***************************************************************************)
(* The `tart run` process.                                                 *)
(***************************************************************************)

Exits(v) ==
    /\ vms' = [vms EXCEPT ![v] = [vms[v] EXCEPT !.run = "off"]]
    /\ UNCHANGED <<free, pool, active, serving, task, stopVars>>

Killed(v) == vms[v].run = "up" /\ Cancelled(v) /\ Exits(v) /\ UNCHANGED faults

Crashes(v) == vms[v].run = "up" /\ mayFail(TRUE) /\ Exits(v)

-----------------------------------------------------------------------------

Init ==
    /\ free = Slots
    /\ vms = [v \in VMs |-> Blank]
    /\ pool = [s \in Sets |-> <<>>]
    /\ active = {} /\ serving = {}
    /\ task = [w \in Workers |-> At(IF IsFiller(w) THEN "acquiring" ELSE "idle")]
    /\ working = Sets /\ stopped = {} /\ running = TRUE
    /\ stopper = [s \in Sets |-> "none"]
    /\ faults = Faults

Step(w) ==
    \/ AcquireSlot(w) \/ AcquireCancelled(w) \/ Prepare(w) \/ PrepareFails(w)
    \/ Booted(w) \/ BootFails(w) \/ RetryBoot(w) \/ PutInPool(w) \/ GiveUpOffer(w) \/ Destroy(w)

StarterStep(s) ==
    TakeFromPool(s) \/ TakeCancelled(s) \/ RunnerListening(s) \/ RunnerFails(s)

StopStep(s) ==
    \/ BeginShutdown(s) \/ StopPool(s) \/ EmptyPool(s) \/ PoolEmptied(s) \/ ShutdownReturns(s)

\* Everything has ended.
Ended == (\A s \in Sets : stopper[s] = "done") /\ UNCHANGED vars

Next ==
    \/ \E w \in Workers : Step(w)
    \/ \E s \in Sets : StartInstance(s) \/ StarterStep(s) \/ StopWork(s) \/ StopStep(s)
    \/ \E v \in VMs : Reap(v) \/ RemoveInstance(v) \/ Killed(v) \/ Crashes(v)
    \/ CancelRun
    \/ Ended

Spec == Init /\ [][Next]_vars

-----------------------------------------------------------------------------
(***************************************************************************)
(* Fairness: goroutines run on, waiting receivers of the coordinator's     *)
(* channel are served in order, a cancelled `tart run` dies, and jobs end  *)
(* and their instances are removed; a controller whose run context is done *)
(* shuts down (the deferred Shutdown of runScaleSetController).            *)
(***************************************************************************)

Fairness ==
    /\ \A w \in Workers : WF_vars(Step(w)) /\ SF_vars(AcquireSlot(w))
    /\ \A s \in Sets : /\ WF_vars(StarterStep(s)) /\ WF_vars(StopStep(s))
                       /\ WF_vars(~running /\ StopWork(s))
    /\ \A v \in VMs : WF_vars(Reap(v)) /\ WF_vars(Killed(v)) /\ WF_vars(RemoveInstance(v))

FairSpec == Spec /\ Fairness

-----------------------------------------------------------------------------

TypeOK ==
    /\ free \subseteq Slots
    /\ vms \in [VMs -> VM]
    /\ pool \in [Sets -> Seq(VMs)] /\ \A s \in Sets : Len(pool[s]) <= PoolSize[s]
    /\ active \subseteq VMs /\ serving \subseteq VMs
    /\ task \in [Workers -> [at : Places, vm : VMs \cup {NoVM}]]
    /\ working \subseteq Sets /\ stopped \subseteq Sets /\ running \in BOOLEAN
    /\ stopper \in [Sets -> {"none", "removing", "emptying", "joining", "done"}]
    /\ faults \in 0 .. Faults

InPool(v, s) == \E i \in 1 .. Len(pool[s]) : pool[s][i] = v

Holds(v) == vms[v].slot # NoSlot

\* Whoever failed or stopped at any moment, every slot is in the channel or
\* with exactly one VM, so that no two VMs ever have one MAC address
\* (releaseVM's sync.Once, destroyVM's reaper, bootVM's error paths).
SlotsAccounted ==
    /\ \A idx \in Slots : idx \in free \/ \E v \in VMs : vms[v].slot = idx
    /\ \A v \in VMs : Holds(v) => /\ vms[v].slot \notin free
                                  /\ \A u \in VMs \ {v} : vms[u].slot # vms[v].slot

\* A VM runs without a slot only when bootVM gave it up: destroyVM and
\* RemoveInstance hold the slot of a VM they could not stop.
SlotWhileRunning ==
    \A v \in VMs : vms[v].run = "up" => Holds(v) \/ vms[v].abandoned

Reaped(v) == vms[v].reaped

Pooled(v) == \E s \in Sets : InPool(v, s)

HasHolder(v) == v \in active \/ Reaped(v) \/ Pooled(v) \/ \E w \in Workers : task[w].vm = v

\* No *warmVM is shared: not by two goroutines, nor by one and a pool.
OneHolder ==
    /\ \A w, u \in Workers : (task[w].vm = task[u].vm /\ task[w].vm # NoVM) => w = u
    /\ \A w \in Workers : LET v == task[w].vm
                         IN  v # NoVM => v \notin active /\ ~Reaped(v) /\ ~Pooled(v)
    /\ \A v \in VMs : ~(v \in active /\ Reaped(v)) /\ (Pooled(v) => v \notin active /\ ~Reaped(v))
    /\ \A s, t \in Sets : \A i \in 1 .. Len(pool[s]), j \in 1 .. Len(pool[t]) :
          pool[s][i] = pool[t][j] => s = t /\ i = j

\* A slot is never lost: a VM that holds one is with a goroutine, in a pool, in
\* activeVMs or waited for by a reaper, and never with two of them, so that no
\* VM is given to two runners or destroyed under one.
SlotHasOneHolder == OneHolder /\ \A v \in VMs : Holds(v) => HasHolder(v)

\* The tart run process of v dies of the end of a context, although its
\* controller neither removed the VM nor is shut down.
KilledByDrain(v) ==
    /\ v \in serving /\ v \in serving' /\ running /\ stopper[vms[v].owner] = "none"
    /\ vms[v].run = "up" /\ vms'[v].run = "off" /\ faults' = faults

\* Draining spares the VM of a runner ("waits for in-flight jobs").
DrainSparesRunners == [][\A v \in VMs : ~KilledByDrain(v)]_vars

\* It spares those that came from the warm pool, whose context outlives the
\* work context of the controller.
DrainSparesWarmRunners == [][\A v \in VMs : vms[v].pooled => ~KilledByDrain(v)]_vars

\* A slot that was kept because its VM could not be stopped comes back.
KeptSlotReturns ==
    \A v \in VMs : (vms[v].cancelled /\ Holds(v)) ~> ~Holds(v)

\* StartInstance of a scale set with a pool returns, with a runner or an error,
\* as long as jobs end: no deadlock between pool and slots.  (A cold start may
\* wait for ever: a pool of one and the VM its filler offers hold two slots.)
StartReturns ==
    \A s \in {t \in Sets : PoolSize[t] > 0} :
        task[Starter(s)].at # "idle" ~> task[Starter(s)].at = "idle"

\* Shutdown returns: no filler stays behind at a full pool or a missing slot.
ShutdownEnds ==
    \A s \in Sets : stopper[s] = "emptying" ~> stopper[s] = "done"

\* Host slots are kept with their VMs: each is free or with one VM, a VM that may run has
\* one, and every VM with a slot has one holder who will give it back.
SlotsKept == TypeOK /\ SlotsAccounted /\ SlotWhileRunning /\ SlotHasOneHolder

\* Slots come back, starts return and Shutdown ends: pool, slots and goroutines never
\* wait for each other for ever.
PoolProgress == KeptSlotReturns /\ StartReturns /\ ShutdownEnds

=============================================================================
