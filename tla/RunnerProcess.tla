--------------------------- MODULE RunnerProcess ---------------------------
(***************************************************************************)
(* cmd/runner: the processes of one host and what they leave behind.       *)
(*                                                                         *)
(* `runner run` takes the host lock, starts up, removes what a dead        *)
(* process left, and runs one controller per scale set, each with a        *)
(* listener that reconnects and a goroutine that waits for the drain       *)
(* (watchScaleSetDrain).  Signals arrive at any moment, a process can be   *)
(* killed at any moment, and `runner scaleset delete` and                  *)
(* `runner doctor --fix` compete for the lock.                             *)
(*                                                                         *)
(* What a controller does with its instances is in Controller and          *)
(* TartPool; here a scale set has at most one, which has a job.  A set and *)
(* its process are a pair <<p, s>>.                                        *)
(***************************************************************************)
EXTENDS HostLock

CONSTANTS
    Runners, Deleters, Doctors,   \* processes by command
    Sets,
    SetsOf,        \* the scale sets in the configuration of each runner
    PlaceOf,       \* the Docker socket or TART_HOME each runner uses for each set
    DoctorPlaces,  \* those `doctor --fix` looks at
    Nobody,
    DrainTimeout,  \* whether drain-timeout is positive
    MaxJobs,       \* bound: jobs a set is sent
    MaxSignals,    \* bound: signals a runner gets
    Faults,        \* bound: calls that fail
    Crashes        \* bound: processes killed

ASSUME CommandsAssumption ==
    /\ Contenders = Runners \cup Deleters \cup Doctors
    /\ Runners \cap (Deleters \cup Doctors) = {} /\ Deleters \cap Doctors = {}
    /\ Nobody \notin Runners /\ SetsOf \in [Runners -> SUBSET Sets]
    /\ DOMAIN PlaceOf = Runners \X Sets

ASSUME BoundsAssumption ==
    /\ DrainTimeout \in BOOLEAN
    /\ {MaxJobs, MaxSignals, Faults, Crashes} \subseteq Nat /\ MaxSignals <= 3

VARIABLES
    phase,       \* where each process is once it has the lock
    found,       \* orphans it has listed and not yet tried
    signals,     \* signals each runner has received
    cancelled,   \* runners whose run context is cancelled
    drain,       \* runners whose drain channel is closed
    set,         \* where runScaleSetController is, for each pair
    watcher,     \* where watchScaleSetDrain is
    listenDone,  \* pairs whose listenCtx was cancelled by the watcher
    timedOut,    \* pairs whose drain ran into its deadline
    instances,   \* containers and VMs, by the pair that started them
    registered,  \* scale sets GitHub knows
    session,     \* owner of the message session of each set
    jobs,        \* jobs assigned to each set and not yet taken
    arrivals,    \* jobs sent so far
    stranded,    \* sets some of whose waiting jobs lost their scale set
    faults, crashes

procVars == <<phase, found>>
stopVars == <<signals, cancelled, drain>>
setVars == <<set, watcher, listenDone, timedOut>>
githubVars == <<registered, session, jobs, arrivals, stranded>>
budgets == <<faults, crashes>>

vars == <<lockVars, procVars, stopVars, setVars, instances, githubVars, budgets>>

Pairs == {i \in Runners \X Sets : i[2] \in SetsOf[i[1]]}

Of(p) == {i \in Pairs : i[1] = p}

\* The processes of `absent` never run; `broken` calls may fail and `killed`
\* processes be killed.
InitWith(absent, broken, killed) ==
    /\ LockInit
    /\ phase = [p \in Contenders |-> IF p \in absent THEN "exited" ELSE "off"]
    /\ found = [p \in Contenders |-> {}]
    /\ signals = [p \in Runners |-> 0] /\ cancelled = {} /\ drain = {}
    /\ set = [i \in Pairs |-> "off"] /\ watcher = [i \in Pairs |-> "off"]
    /\ listenDone = {} /\ timedOut = {}
    /\ instances = {}
    /\ registered \in SUBSET UNION {SetsOf[p] : p \in Runners \ absent}
    /\ session = [s \in Sets |-> Nobody]
    /\ jobs = [s \in Sets |-> 0] /\ arrivals = [s \in Sets |-> 0] /\ stranded = {}
    /\ faults = broken /\ crashes = killed

Init == InitWith({}, Faults, Crashes)

Goes(p, to) == phase' = [phase EXCEPT ![p] = to]

SetGoes(i, to) == set' = [set EXCEPT ![i] = to]

\* Something outside fails, which costs a fault unless it has to fail.
Fails(forced) == (forced \/ faults > 0) /\ faults' = (IF forced THEN faults ELSE faults - 1) /\ UNCHANGED crashes

-----------------------------------------------------------------------------
(***************************************************************************)
(* Start-up.                                                               *)
(***************************************************************************)

FirstPhase(p) ==
    CASE p \in Runners -> "starting" [] p \in Doctors -> "listing" [] p \in Deleters -> "looking"

\* A command that does not wait for the lock.
TakeLock_Unasked(p) ==
    /\ phase[p] = "off" /\ lock[p] # "off" /\ Goes(p, FirstPhase(p))
    /\ UNCHANGED <<lockVars, found, stopVars, setVars, instances, githubVars, budgets>>

\* Acquire has returned: startManager, runDoctor and runScalesetDelete go on,
\* or give up without touching anything.
TakeLock(p) ==
    /\ phase[p] = "off"
    /\ \/ lock[p] = "held" /\ Goes(p, FirstPhase(p))
       \/ lock[p] \in {"refused", "failed"} /\ Goes(p, "exited")
    /\ UNCHANGED <<lockVars, found, stopVars, setVars, instances, githubVars, budgets>>

LockStep(p) ==
    /\ phase[p] = "off" /\ (BeginAcquire(p) \/ Acquire(p))
    /\ UNCHANGED <<procVars, stopVars, setVars, instances, githubVars, budgets>>

\* Validation, the Docker clients, the Tart binary.  A step that
\* fails, or --dry-run, ends the process before it has touched anything.
StartUp(p) ==
    /\ phase[p] = "starting"
    /\ Goes(p, "listing") \/ Goes(p, "leaving")
    /\ UNCHANGED <<lockVars, found, stopVars, setVars, instances, githubVars, budgets>>

\* Where a process looks for orphans: at the places of its own configuration.
Searched(p) == IF p \in Doctors THEN DoctorPlaces ELSE {PlaceOf[i] : i \in Of(p)}

\* findOrphanContainers and findOrphanTartVMs claim by label and by the names a
\* runner gives, whoever lists: whether the process that made them is alive is
\* not in the list.
Orphans(places) == {i \in instances : PlaceOf[i] \in places}

\* reconcileOrphans and runDoctor list, place by place.  A place whose listing
\* fails is skipped by the one and ends the other.
ListOrphans(p) ==
    /\ phase[p] = "listing" /\ Goes(p, "removing")
    /\ \E places \in SUBSET Searched(p) :
          /\ found' = [found EXCEPT ![p] = Orphans(places)]
          /\ \/ places = Searched(p) /\ UNCHANGED budgets
             \/ places # Searched(p) /\ Fails(p \in cancelled)
    /\ UNCHANGED <<lockVars, stopVars, setVars, instances, githubVars>>

\* A removal that fails does not stop the rest.
RemoveOrphan(p) ==
    \E o \in found[p] :
        /\ phase[p] = "removing"
        /\ found' = [found EXCEPT ![p] = @ \ {o}]
        /\ \/ instances' = instances \ {o} /\ UNCHANGED budgets
           \/ Fails(p \in cancelled) /\ UNCHANGED instances
        /\ UNCHANGED <<lockVars, phase, stopVars, setVars, githubVars>>

\* Scale sets that start while orphans are still being removed.
Reconciled_AtOnce(p) ==
    /\ phase[p] = "removing"
    /\ \/ p \in Doctors /\ found[p] = {} /\ Goes(p, "leaving") /\ UNCHANGED set
       \/ /\ p \in Runners /\ Goes(p, "running")
          /\ set' = [i \in Pairs |-> IF i \in Of(p) THEN "looking" ELSE set[i]]
    /\ UNCHANGED <<lockVars, found, stopVars, watcher, listenDone, timedOut, instances, githubVars, budgets>>

\* Start-up goes on with the health server, the stores, the sweepers, the
\* broker and one goroutine per scale set; the doctor is done.
Reconciled(p) ==
    /\ phase[p] = "removing" /\ found[p] = {}
    /\ \/ p \in Doctors /\ Goes(p, "leaving") /\ UNCHANGED <<set, budgets>>
       \/ /\ p \in Runners /\ Goes(p, "running") /\ UNCHANGED budgets
          /\ set' = [i \in Pairs |-> IF i \in Of(p) THEN "looking" ELSE set[i]]
       \/ p \in Runners /\ Goes(p, "leaving") /\ Fails(FALSE) /\ UNCHANGED set
    /\ UNCHANGED <<lockVars, found, stopVars, watcher, listenDone, timedOut, instances, githubVars>>

-----------------------------------------------------------------------------
(***************************************************************************)
(* One scale set: runScaleSetController.                                   *)
(***************************************************************************)

RunDone(i) == i[1] \in cancelled

\* listenCtx descends from the run context.
ListenEnded(i) == RunDone(i) \/ i \in listenDone

\* runScaleSetController returned an error: runManager cancels every set.
Errs(i) == SetGoes(i, "done") /\ cancelled' = cancelled \cup {i[1]}

setRest == <<lockVars, procVars, signals, drain, instances, arrivals>>

\* ensureScaleSet asks whether GitHub knows the scale set, and then creates or
\* updates it.
LookUpScaleSet(i) ==
    /\ set[i] = "looking"
    /\ \/ SetGoes(i, IF i[2] \in registered THEN "updating" ELSE "creating")
          /\ UNCHANGED <<cancelled, budgets>>
       \/ Errs(i) /\ Fails(RunDone(i))
    /\ UNCHANGED <<setRest, watcher, listenDone, timedOut, registered, session, jobs, stranded>>

\* The controller is made and watchScaleSetDrain started.  An update fails for
\* a scale set that is gone.
EnsureScaleSet(i) ==
    /\ set[i] \in {"creating", "updating"}
    /\ \/ /\ set[i] = "updating" => i[2] \in registered
          /\ registered' = registered \cup {i[2]}
          /\ SetGoes(i, "connecting") /\ watcher' = [watcher EXCEPT ![i] = "waiting"]
          /\ UNCHANGED <<cancelled, budgets>>
       \/ /\ Errs(i) /\ Fails(RunDone(i) \/ (set[i] = "updating" /\ i[2] \notin registered))
          /\ UNCHANGED <<registered, watcher>>
    /\ UNCHANGED <<setRest, listenDone, timedOut, session, jobs, stranded>>

\* listenOnce asks for a message session, which one listener at a time can have.
Connect(i) ==
    /\ set[i] = "connecting"
    /\ \/ /\ session[i[2]] = Nobody /\ i[2] \in registered /\ ~ListenEnded(i)
          /\ session' = [session EXCEPT ![i[2]] = i[1]] /\ SetGoes(i, "listening") /\ UNCHANGED budgets
       \/ /\ SetGoes(i, IF ListenEnded(i) THEN "stopping" ELSE "waiting")
          /\ Fails(ListenEnded(i) \/ session[i[2]] # Nobody \/ i[2] \notin registered)
          /\ UNCHANGED session
    /\ UNCHANGED <<setRest, cancelled, watcher, listenDone, timedOut, registered, jobs, stranded>>

\* The listener returns and listenOnce closes its session: because listenCtx is
\* done, because the connection was lost, or, unexpectedly, without an error.
\* A session whose Close fails stays until GitHub drops it.
ListenerReturns(i) ==
    /\ set[i] = "listening"
    /\ \/ ListenEnded(i) /\ SetGoes(i, "stopping") /\ UNCHANGED budgets
       \/ ~ListenEnded(i) /\ (SetGoes(i, "waiting") \/ SetGoes(i, "failing")) /\ Fails(FALSE)
    /\ session' \in {session, [session EXCEPT ![i[2]] = Nobody]}
    /\ UNCHANGED <<setRest, cancelled, watcher, listenDone, timedOut, registered, jobs, stranded>>

\* The select between listenCtx and the back-off timer.
Reconnect(i) ==
    /\ set[i] = "waiting"
    /\ \/ ListenEnded(i) /\ SetGoes(i, "stopping")
       \/ SetGoes(i, "connecting")
    /\ UNCHANGED <<setRest, cancelled, watcher, listenDone, timedOut, registered, session, jobs, stranded, budgets>>

\* A shutdown that deletes the scale set, as one that is re-created on start
\* might.
ShutdownSet_Unregisters(i) ==
    /\ set[i] \in {"stopping", "failing"}
    /\ instances' = instances \ {i} /\ listenDone' = listenDone \cup {i}
    /\ \/ set[i] = "stopping" /\ SetGoes(i, "done") /\ UNCHANGED cancelled
       \/ set[i] = "failing" /\ Errs(i)
    /\ registered' = registered \ {i[2]}
    /\ stranded' = IF jobs[i[2]] > 0 THEN stranded \cup {i[2]} ELSE stranded
    /\ UNCHANGED <<lockVars, procVars, signals, drain, watcher, timedOut,
                   session, jobs, arrivals, budgets>>

\* The deferred Shutdown removes what is left of the set; a removal that fails
\* leaves the instance behind.  The scale set stays registered.
ShutdownSet(i) ==
    /\ set[i] \in {"stopping", "failing"}
    /\ \/ instances' = instances \ {i} /\ UNCHANGED budgets
       \/ i \in instances /\ Fails(FALSE) /\ UNCHANGED instances
    /\ listenDone' = listenDone \cup {i}
    /\ \/ set[i] = "stopping" /\ SetGoes(i, "done") /\ UNCHANGED cancelled
       \/ set[i] = "failing" /\ Errs(i)
    /\ UNCHANGED <<lockVars, procVars, signals, drain, watcher, timedOut, githubVars>>

-----------------------------------------------------------------------------
(***************************************************************************)
(* watchScaleSetDrain.                                                     *)
(***************************************************************************)

watcherRest == <<lockVars, procVars, stopVars, set, instances, githubVars, budgets>>

WatcherGoes(i, to) == watcher' = [watcher EXCEPT ![i] = to]

CancelListen(i) == listenDone' = listenDone \cup {i}

\* A watcher that stops the listener first.
WatchDrain_StopsListener(i) ==
    /\ watcher[i] = "waiting" /\ (ListenEnded(i) \/ i[1] \in drain)
    /\ WatcherGoes(i, "done") /\ CancelListen(i)
    /\ UNCHANGED <<watcherRest, timedOut>>

WatchDrain(i) ==
    /\ watcher[i] = "waiting"
    /\ \/ ListenEnded(i) /\ WatcherGoes(i, "done") /\ UNCHANGED <<listenDone, timedOut>>
       \/ i[1] \in drain /\ DrainTimeout /\ WatcherGoes(i, "draining") /\ UNCHANGED <<listenDone, timedOut>>
       \/ /\ i[1] \in drain /\ ~DrainTimeout
          /\ WatcherGoes(i, "done") /\ CancelListen(i) /\ timedOut' = timedOut \cup {i}
    /\ UNCHANGED watcherRest

\* A watcher that leaves the listener running.
DrainReturns_KeepsListener(i) ==
    /\ watcher[i] = "draining" /\ i \notin instances
    /\ WatcherGoes(i, "done")
    /\ UNCHANGED <<watcherRest, listenDone, timedOut>>

\* Drain returns when no instance is left, when its deadline has passed, or
\* when listenCtx is done.
DrainReturns(i) ==
    /\ watcher[i] = "draining"
    /\ \/ (i \notin instances \/ ListenEnded(i)) /\ UNCHANGED timedOut
       \/ timedOut' = timedOut \cup {i}
    /\ WatcherGoes(i, "done") /\ CancelListen(i)
    /\ UNCHANGED watcherRest

-----------------------------------------------------------------------------
(***************************************************************************)
(* GitHub and jobs.                                                        *)
(***************************************************************************)

githubRest == <<lockVars, procVars, stopVars, setVars, registered, budgets>>

\* GitHub assigns a job to the scale set, whether or not it is listened to.
JobQueued(s) ==
    /\ s \in registered /\ arrivals[s] < MaxJobs
    /\ jobs' = [jobs EXCEPT ![s] = @ + 1] /\ arrivals' = [arrivals EXCEPT ![s] = @ + 1]
    /\ UNCHANGED <<githubRest, instances, session, stranded>>

\* The controller starts an instance for a waiting job.  Jobs stranded with a
\* scale set that was deleted are never offered again.
TakeJob(i) ==
    /\ set[i] = "listening" /\ ~ListenEnded(i) /\ watcher[i] = "waiting" /\ i[1] \notin drain
    /\ jobs[i[2]] > 0 /\ i[2] \notin stranded /\ i \notin instances
    /\ jobs' = [jobs EXCEPT ![i[2]] = @ - 1]
    /\ instances' = instances \cup {i}
    /\ UNCHANGED <<githubRest, session, arrivals, stranded>>

\* A job ends and the controller removes its instance.
JobEnds(i) ==
    /\ i \in instances /\ set[i] \in {"connecting", "listening", "waiting"}
    /\ instances' = instances \ {i}
    /\ UNCHANGED <<githubRest, session, jobs, arrivals, stranded>>

\* A session nobody uses expires.
SessionExpires(s) ==
    /\ session[s] # Nobody
    /\ set[<<session[s], s>>] # "listening"
    /\ session' = [session EXCEPT ![s] = Nobody]
    /\ UNCHANGED <<githubRest, instances, jobs, arrivals, stranded>>

-----------------------------------------------------------------------------
(***************************************************************************)
(* Signals and the end of a process.                                       *)
(***************************************************************************)

Up(p) == phase[p] \notin {"off", "exited", "killed"}

\* handleShutdownSignals: an interrupt cancels, the others drain; the second
\* signal cancels.
Signal(p) ==
    /\ Up(p) /\ signals[p] < MaxSignals /\ signals[p] < 2
    /\ signals' = [signals EXCEPT ![p] = @ + 1]
    /\ \/ cancelled' = cancelled \cup {p} /\ UNCHANGED drain
       \/ signals[p] = 0 /\ drain' = drain \cup {p} /\ UNCHANGED cancelled
    /\ UNCHANGED <<lockVars, procVars, setVars, instances, githubVars, budgets>>

\* The process is gone from one moment to the next, with its goroutines and its
\* lock, and its instances stay.
Dies(p) ==
    /\ Goes(p, "killed") /\ Release(p)
    /\ set' = [i \in Pairs |-> IF i \in Of(p) THEN "off" ELSE set[i]]
    /\ watcher' = [i \in Pairs |-> IF i \in Of(p) THEN "off" ELSE watcher[i]]
    /\ found' = [found EXCEPT ![p] = {}]
    /\ UNCHANGED <<cancelled, drain, listenDone, timedOut, instances, githubVars, faults>>

\* The third signal.
ForceExit(p) ==
    /\ Up(p) /\ signals[p] = 2 /\ MaxSignals = 3
    /\ signals' = [signals EXCEPT ![p] = 3]
    /\ Dies(p) /\ UNCHANGED crashes

Crash(p) ==
    /\ Up(p) /\ crashes > 0 /\ crashes' = crashes - 1
    /\ Dies(p) /\ UNCHANGED signals

\* A runManager that returns when the first scale set has.
AllSetsDone_First(p) ==
    /\ phase[p] = "running" /\ \E i \in Of(p) : set[i] = "done"
    /\ Goes(p, "leaving")
    /\ UNCHANGED <<lockVars, found, stopVars, setVars, instances, githubVars, budgets>>

\* wg.Wait returns.
AllSetsDone(p) ==
    /\ phase[p] = "running" /\ \A i \in Of(p) : set[i] = "done"
    /\ Goes(p, "leaving")
    /\ UNCHANGED <<lockVars, found, stopVars, setVars, instances, githubVars, budgets>>

\* The deferred release of the lock, and the end of the process.
Leave(p) ==
    /\ phase[p] = "leaving" /\ Goes(p, "exited") /\ Release(p)
    /\ set' = [i \in Pairs |-> IF i \in Of(p) THEN "off" ELSE set[i]]
    /\ watcher' = [i \in Pairs |-> IF i \in Of(p) THEN "off" ELSE watcher[i]]
    /\ UNCHANGED <<found, stopVars, listenDone, timedOut, instances, githubVars, budgets>>

-----------------------------------------------------------------------------
(***************************************************************************)
(* runner scaleset delete: deleteScaleSet looks the scale set up and       *)
(* deletes it.                                                             *)
(***************************************************************************)

LookUpForDelete(d) ==
    /\ phase[d] = "looking" /\ d \in Deleters
    /\ \/ \E s \in registered : found' = [found EXCEPT ![d] = {s}] /\ Goes(d, "deleting")
       \/ registered # Sets /\ Goes(d, "leaving") /\ UNCHANGED found
    /\ UNCHANGED <<lockVars, stopVars, setVars, instances, githubVars, budgets>>

\* The waiting jobs lose their scale set.
DeleteScaleSet(d) ==
    /\ phase[d] = "deleting" /\ Goes(d, "leaving")
    /\ \/ /\ registered' = registered \ found[d]
          /\ stranded' = stranded \cup {s \in found[d] : jobs[s] > 0}
          /\ UNCHANGED budgets
       \/ Fails(FALSE) /\ UNCHANGED <<registered, stranded>>
    /\ UNCHANGED <<lockVars, found, stopVars, setVars, instances, session, jobs, arrivals>>

-----------------------------------------------------------------------------

ProcessStep(p) ==
    \/ LockStep(p) \/ TakeLock(p) \/ StartUp(p) \/ ListOrphans(p) \/ RemoveOrphan(p)
    \/ Reconciled(p) \/ AllSetsDone(p) \/ Leave(p) \/ LookUpForDelete(p) \/ DeleteScaleSet(p)

SetStep(i) ==
    \/ LookUpScaleSet(i) \/ EnsureScaleSet(i) \/ Connect(i) \/ ListenerReturns(i) \/ Reconnect(i)
    \/ ShutdownSet(i)

WatcherStep(i) == WatchDrain(i) \/ DrainReturns(i)

\* Every process has ended.
Ended == (\A p \in Contenders : phase[p] \in {"exited", "killed"}) /\ UNCHANGED vars

Next ==
    \/ \E p \in Contenders : ProcessStep(p)
    \/ \E p \in Runners : Signal(p) \/ ForceExit(p) \/ Crash(p)
    \/ \E i \in Pairs : SetStep(i) \/ WatcherStep(i) \/ TakeJob(i) \/ JobEnds(i)
    \/ \E s \in Sets : JobQueued(s) \/ SessionExpires(s)
    \/ Ended

Spec == Init /\ [][Next]_vars

\* Goroutines run on, jobs end, and sessions nobody uses expire.  That a
\* reconnection succeeds in the end needs no more, as calls fail finitely often.
Fairness ==
    /\ \A p \in Contenders : WF_vars(ProcessStep(p))
    /\ \A i \in Pairs : /\ WF_vars(SetStep(i)) /\ WF_vars(WatcherStep(i))
                        /\ WF_vars(TakeJob(i)) /\ WF_vars(JobEnds(i))
    /\ \A s \in Sets : WF_vars(SessionExpires(s))

FairSpec == Spec /\ Fairness

-----------------------------------------------------------------------------

Phases ==
    {"off", "starting", "listing", "removing", "running", "looking", "deleting", "leaving", "exited", "killed"}

SetPlaces ==
    {"off", "looking", "creating", "updating", "connecting", "listening", "waiting", "stopping", "failing", "done"}

TypeOK ==
    /\ LockTypeOK
    /\ phase \in [Contenders -> Phases]
    /\ found \in [Contenders -> SUBSET (Pairs \cup Sets)]
    /\ signals \in [Runners -> 0 .. 3] /\ cancelled \subseteq Runners /\ drain \subseteq Runners
    /\ set \in [Pairs -> SetPlaces]
    /\ watcher \in [Pairs -> {"off", "waiting", "draining", "done"}]
    /\ listenDone \subseteq Pairs /\ timedOut \subseteq Pairs
    /\ instances \subseteq Pairs
    /\ registered \subseteq Sets /\ session \in [Sets -> Runners \cup {Nobody}]
    /\ jobs \in [Sets -> 0 .. MaxJobs] /\ arrivals \in [Sets -> 0 .. MaxJobs]
    /\ stranded \subseteq Sets /\ faults \in 0 .. Faults /\ crashes \in 0 .. Crashes

\* No container or VM of a live process is ever taken for an orphan, although
\* the listing cannot tell whose it is: the lock, and the order of start-up,
\* are all that keeps a second runner or the doctor from killing jobs.
ReconcileSparesLive ==
    [][\A p \in Contenders : \A i \in (found[p] \ found'[p]) \cap Pairs :
          phase[p] = "removing" => ~Up(i[1])]_vars

\* Nobody deletes a scale set under a listener.
ListenedSetStays ==
    \A i \in Pairs : set[i] \in {"updating", "connecting", "listening", "waiting"} =>
        i[2] \in registered

\* A graceful stop spares jobs: an instance is only removed by the end of its
\* set when the drain is over time or disabled, the process was told to stop
\* at once, or a scale set failed.
DrainSparesJobs ==
    [][\A i \in Pairs :
          (set[i] # "done" /\ set'[i] = "done" /\ i \in instances /\ i \notin instances')
              => \/ i \in timedOut \/ i[1] \in cancelled \/ set[i] = "failing"]_vars

\* While nothing has failed, no instance of an earlier process stands beside
\* the controllers of the next one at the sockets and TART_HOMEs of its
\* configuration (unless it was stopped while it started), and a process that
\* ends in order leaves none of its own behind.  What a crash left at a place that
\* the configuration no longer names is not looked for.
NoOrphanBesideRunner ==
    faults = Faults =>
        /\ \A p \in Runners : phase[p] = "running" /\ p \notin cancelled =>
              Orphans(Searched(p)) \subseteq Of(p)
        /\ \A i \in instances : phase[i[1]] # "exited"

\* A runner that was told to stop ends, whatever it is doing: starting up,
\* connecting, waiting to reconnect or draining.
SignalledRunnerEnds ==
    \A p \in Runners : signals[p] > 0 ~> phase[p] \in {"exited", "killed"}

\* Jobs that wait are taken by a runner that runs on, those queued while no
\* runner was up included: sessions are recreated and scale sets survive
\* restarts.
WaitingJobsTaken ==
    \A i \in Pairs : []<>(jobs[i[2]] = 0 \/ phase[i[1]] # "running" \/ signals[i[1]] > 0)

\* Nothing is taken from a live runner by another process: neither its instances as
\* orphans nor the scale set it listens to.
LiveRunnerSpared == [](TypeOK /\ ListenedSetStays) /\ ReconcileSparesLive

=============================================================================
