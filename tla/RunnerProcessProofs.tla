------------------------ MODULE RunnerProcessProofs ------------------------
(***************************************************************************)
(* What holds of the processes of a host however many runners, doctors and *)
(* deletions there are, whichever scale sets they serve, and whenever they *)
(* are signalled or killed.                                                *)
(*                                                                         *)
(* Everything rests on the lock: LockInv says that the path names one file *)
(* for good, which every open descriptor refers to, so that two flocks     *)
(* exclude each other; StageInv that a process past Acquire has the lock.  *)
(* So whoever lists orphans or deletes a scale set is alone on the host,   *)
(* and what it finds was left by the dead (FoundInv, SetInv).              *)
(***************************************************************************)
EXTENDS RunnerProcess, TLAPS

-----------------------------------------------------------------------------
(***************************************************************************)
(* The inductive invariant.                                                *)
(***************************************************************************)

\* Who has the file open, and who has it locked.
LockInv ==
    /\ \A p \in Contenders :
          /\ fd[p] # NoInode <=> lock[p] \in {"inspecting", "locking", "writing", "held"}
          /\ fd[p] # NoInode => fd[p] = path
          /\ p \in holding <=> lock[p] \in {"writing", "held"}
    /\ \A p, q \in holding : p = q

\* Which command is where, and with the lock or without.
StageInv ==
    \A p \in Contenders :
       /\ Up(p) => Holds(p)
       /\ phase[p] \in {"starting", "running"} => p \in Runners
       /\ phase[p] \in {"looking", "deleting"} => p \in Deleters

\* A scale set is served by a process that runs, and is registered until its
\* listener has ended.
SetInv ==
    \A i \in Pairs :
       /\ set[i] # "off" => phase[i[1]] \in {"running", "leaving"}
       /\ phase[i[1]] = "leaving" => set[i] \in {"off", "done"}
       /\ set[i] \in {"updating", "connecting", "listening", "waiting"} => i[2] \in registered

\* Whose instances there are.  While nothing has failed, those of a process that
\* ended in order are gone.
InstanceInv ==
    \A i \in instances :
       /\ \/ set[i] \in {"connecting", "listening", "waiting", "stopping", "failing", "done"}
          \/ phase[i[1]] \in {"killed", "exited"}
       /\ faults = Faults => set[i] # "done" /\ phase[i[1]] # "exited"

\* The instances a process could find.
InReach(p) == Orphans(Searched(p))

\* Whose instances a process that starts has found, and what it may have missed.
FoundInv ==
    \A p \in Contenders :
       /\ \A i \in found[p] : i \in Pairs => i[1] # p
       /\ faults = Faults /\ p \in Runners \ cancelled =>
             /\ phase[p] = "removing" => InReach(p) \subseteq found[p]
             /\ phase[p] = "running" => InReach(p) \subseteq Of(p)

\* Why a listener has ended.
ListenInv ==
    \A i \in listenDone \cap instances :
       set[i] \in {"connecting", "listening", "waiting", "stopping"} => i \in timedOut \/ RunDone(i)

StopInv ==
    \A i \in instances : set[i] = "stopping" => i \in timedOut \/ RunDone(i)

JobsSent == \A s \in Sets : jobs[s] <= arrivals[s]

\* What `scaleset delete` has looked up is a scale set.
ChosenInv == \A d \in Contenders : phase[d] = "deleting" => found[d] \subseteq Sets

IInv ==
    /\ TypeOK /\ JobsSent /\ ChosenInv /\ LockInv /\ StageInv /\ SetInv /\ InstanceInv /\ FoundInv
    /\ ListenInv /\ StopInv

USE CommandsAssumption, BoundsAssumption

\* What the processes, the sets and GitHub may do, action by action.
LEMMA StepKinds ==
  ASSUME [Next]_vars
  PROVE  \/ UNCHANGED vars
         \/ \E p \in Contenders : ProcessStep(p)
         \/ \E p \in Runners : Signal(p) \/ ForceExit(p) \/ Crash(p)
         \/ \E i \in Pairs : SetStep(i) \/ WatcherStep(i)
         \/ \E i \in Pairs : TakeJob(i) \/ JobEnds(i)
         \/ \E s \in Sets : JobQueued(s) \/ SessionExpires(s)
BY DEF Next, Ended

LEMMA PairParts ==
  /\ \A i \in Pairs : i[1] \in Runners /\ i[2] \in Sets /\ i[1] \in Contenders /\ i = <<i[1], i[2]>>
  /\ \A p : Of(p) \subseteq Pairs
  /\ \A p, i : i \in Of(p) <=> i \in Pairs /\ i[1] = p
BY DEF Pairs, Of

\* Only its own steps and its death move a process.
LEMMA OthersFrame ==
  /\ \A p \in Runners : Signal(p) => UNCHANGED <<lockVars, procVars>>
  /\ \A i \in Pairs : SetStep(i) \/ WatcherStep(i) => UNCHANGED <<lockVars, procVars>>
  /\ \A i \in Pairs : TakeJob(i) \/ JobEnds(i) => UNCHANGED <<lockVars, procVars>>
  /\ \A s \in Sets : JobQueued(s) \/ SessionExpires(s) => UNCHANGED <<lockVars, procVars>>
<1>1. \A p \in Runners : Signal(p) => UNCHANGED <<lockVars, procVars>>
  BY DEF Signal
<1>2. \A i \in Pairs : SetStep(i) => UNCHANGED <<lockVars, procVars>>
  BY DEF SetStep, LookUpScaleSet, EnsureScaleSet, Connect, ListenerReturns, Reconnect, ShutdownSet, setRest
<1>3. \A i \in Pairs : WatcherStep(i) => UNCHANGED <<lockVars, procVars>>
  BY DEF WatcherStep, WatchDrain, DrainReturns, watcherRest
<1>4. \A i \in Pairs : TakeJob(i) \/ JobEnds(i) => UNCHANGED <<lockVars, procVars>>
  BY DEF TakeJob, JobEnds, githubRest
<1>5. \A s \in Sets : JobQueued(s) \/ SessionExpires(s) => UNCHANGED <<lockVars, procVars>>
  BY DEF JobQueued, SessionExpires, githubRest
<1> QED BY <1>1, <1>2, <1>3, <1>4, <1>5

-----------------------------------------------------------------------------
(***************************************************************************)
(* Types.                                                                  *)
(***************************************************************************)

LEMMA InitTypes ==
  ASSUME NEW absent \in SUBSET Contenders, NEW broken \in 0 .. Faults, NEW killed \in 0 .. Crashes,
         InitWith(absent, broken, killed)
  PROVE  TypeOK /\ JobsSent /\ ChosenInv
<1>1. LockTypeOK
  BY DEF InitWith, LockInit, LockTypeOK, NoInode, MaxAttempts, LockPlaces
<1>2. registered \subseteq Sets
  BY DEF InitWith
<1> QED BY <1>1, <1>2 DEF InitWith, TypeOK, JobsSent, ChosenInv, Phases, SetPlaces

\* The lock's own steps.
LEMMA LockTypes ==
  ASSUME LockTypeOK, NEW p \in Contenders, BeginAcquire(p) \/ Acquire(p) \/ Release(p)
  PROVE  LockTypeOK'
<1>1. ASSUME NEW place \in LockPlaces, Moves(p, place) PROVE lock' \in [Contenders -> LockPlaces]
  BY <1>1 DEF Moves, LockTypeOK
<1>2. CASE BeginAcquire(p)
  BY <1>1, <1>2 DEF BeginAcquire, LockTypeOK, LockPlaces
<1>3. CASE OpenExisting(p)
  BY <1>1, <1>3 DEF OpenExisting, Opens, LockTypeOK, LockPlaces, NoInode, MaxAttempts
<1>4. CASE CreateExclusive(p)
  BY <1>1, <1>4 DEF CreateExclusive, Opens, LockTypeOK, LockPlaces, NoInode
<1>5. CASE Inspect(p) \/ Flock(p) \/ WriteInfo(p) \/ AcquireFails(p) \/ Release(p)
  BY <1>1, <1>5 DEF Inspect, Flock, WriteInfo, AcquireFails, Release, Closes, LockTypeOK, LockPlaces, NoInode
<1> QED BY <1>2, <1>3, <1>4, <1>5 DEF Acquire

\* The end of a process.
LEMMA DiesTypes ==
  ASSUME TypeOK, NEW p \in Runners, Dies(p)
  PROVE  /\ LockTypeOK' /\ phase' \in [Contenders -> Phases]
         /\ found' \in [Contenders -> SUBSET (Pairs \cup Sets)]
         /\ set' \in [Pairs -> SetPlaces] /\ watcher' \in [Pairs -> {"off", "waiting", "draining", "done"}]
<1>1. LockTypeOK'
  BY LockTypes DEF TypeOK, Dies
<1> QED BY <1>1 DEF Dies, Goes, TypeOK, Phases, SetPlaces

LEMMA NextTypes ==
  ASSUME TypeOK, JobsSent, ChosenInv, [Next]_vars PROVE TypeOK' /\ JobsSent'
<1> USE DEF procVars, stopVars, setVars, githubVars, budgets
<1>1. CASE UNCHANGED vars
  BY <1>1 DEF TypeOK, LockTypeOK, JobsSent, vars, lockVars
<1>2. ASSUME NEW p \in Contenders, ProcessStep(p) PROVE TypeOK' /\ JobsSent'
  <2>1. CASE LockStep(p)
    BY <2>1, LockTypes DEF LockStep, TypeOK, JobsSent
  <2>2. CASE TakeLock(p) \/ StartUp(p)
    BY <2>2 DEF TakeLock, StartUp, TypeOK, LockTypeOK, JobsSent, lockVars, Goes, FirstPhase, Phases
  <2>3. CASE ListOrphans(p)
    BY <2>3 DEF Fails, ListOrphans, TypeOK, LockTypeOK, JobsSent, lockVars, Goes, Phases, Orphans
  <2>4. CASE RemoveOrphan(p)
    BY <2>4 DEF Fails, RemoveOrphan, TypeOK, LockTypeOK, JobsSent, lockVars
  <2>5. CASE Reconciled(p)
    BY <2>5 DEF Fails, Reconciled, TypeOK, LockTypeOK, JobsSent, lockVars, Goes, Phases, SetPlaces
  <2>6. CASE AllSetsDone(p)
    BY <2>6 DEF AllSetsDone, TypeOK, LockTypeOK, JobsSent, lockVars, Goes, Phases
  <2>7. CASE Leave(p)
    BY <2>7, LockTypes DEF Leave, TypeOK, JobsSent, Goes, Phases, SetPlaces
  <2>8. CASE LookUpForDelete(p)
    BY <2>8 DEF LookUpForDelete, TypeOK, LockTypeOK, JobsSent, lockVars, Goes, Phases
  <2>9. CASE DeleteScaleSet(p)
    BY <2>9 DEF DeleteScaleSet, Fails, ChosenInv, TypeOK, LockTypeOK, JobsSent, lockVars, Goes, Phases
  <2> QED BY <1>2, <2>1, <2>2, <2>3, <2>4, <2>5, <2>6, <2>7, <2>8, <2>9 DEF ProcessStep
<1>3. ASSUME NEW p \in Runners, Signal(p) PROVE TypeOK' /\ JobsSent'
  BY <1>3 DEF Signal, TypeOK, LockTypeOK, JobsSent, lockVars
<1>4. ASSUME NEW p \in Runners, ForceExit(p) \/ Crash(p) PROVE TypeOK' /\ JobsSent'
  <2>1. Dies(p) /\ signals' \in [Runners -> 0 .. 3] /\ crashes' \in 0 .. Crashes
    BY <1>4 DEF ForceExit, Crash, TypeOK
  <2> QED BY <2>1, DiesTypes DEF Dies, TypeOK, JobsSent
<1>5. ASSUME NEW i \in Pairs, SetStep(i) PROVE TypeOK' /\ JobsSent'
  <2>1. i[1] \in Runners /\ i[2] \in Sets
    BY PairParts
  <2>2. CASE LookUpScaleSet(i)
    BY <2>1, <2>2 DEF Fails, LookUpScaleSet, setRest, Errs, SetGoes, TypeOK, LockTypeOK, JobsSent, lockVars, SetPlaces
  <2>3. CASE EnsureScaleSet(i)
    BY <2>1, <2>3 DEF Fails, EnsureScaleSet, setRest, Errs, SetGoes, TypeOK, LockTypeOK, JobsSent, lockVars, SetPlaces
  <2>4. CASE Connect(i)
    BY <2>1, <2>4 DEF Fails, Connect, setRest, SetGoes, TypeOK, LockTypeOK, JobsSent, lockVars, SetPlaces
  <2>5. CASE ListenerReturns(i)
    BY <2>1, <2>5 DEF Fails, ListenerReturns, setRest, SetGoes, TypeOK, LockTypeOK, JobsSent, lockVars, SetPlaces
  <2>6. CASE Reconnect(i)
    BY <2>1, <2>6 DEF Reconnect, setRest, SetGoes, TypeOK, LockTypeOK, JobsSent, lockVars, SetPlaces
  <2>7. CASE ShutdownSet(i)
    BY <2>1, <2>7 DEF Fails, ShutdownSet, Errs, SetGoes, TypeOK, LockTypeOK, JobsSent, lockVars, SetPlaces
  <2> QED BY <1>5, <2>2, <2>3, <2>4, <2>5, <2>6, <2>7 DEF SetStep
<1>6. ASSUME NEW i \in Pairs, WatcherStep(i) PROVE TypeOK' /\ JobsSent'
  BY <1>6 DEF WatcherStep, WatchDrain, DrainReturns, WatcherGoes, CancelListen, watcherRest,
              TypeOK, LockTypeOK, JobsSent, lockVars
<1>7. ASSUME NEW i \in Pairs, TakeJob(i) \/ JobEnds(i) PROVE TypeOK' /\ JobsSent'
  <2>1. i[2] \in Sets
    BY PairParts
  <2> QED BY <1>7, <2>1 DEF TakeJob, JobEnds, githubRest, TypeOK, LockTypeOK, JobsSent, lockVars
<1>8. ASSUME NEW s \in Sets, JobQueued(s) \/ SessionExpires(s) PROVE TypeOK' /\ JobsSent'
  BY <1>8 DEF JobQueued, SessionExpires, githubRest, TypeOK, LockTypeOK, JobsSent, lockVars
<1> QED BY <1>1, <1>2, <1>3, <1>4, <1>5, <1>6, <1>7, <1>8, StepKinds

LEMMA NextChosen ==
  ASSUME TypeOK, ChosenInv, [Next]_vars PROVE ChosenInv'
<1> USE DEF procVars
<1>1. ASSUME NEW p \in Contenders, LookUpForDelete(p) PROVE ChosenInv'
  BY <1>1 DEF LookUpForDelete, ChosenInv, Goes, TypeOK
<1>2. ASSUME NEW p \in Contenders, UNCHANGED found, phase' = phase \/ (Goes(p, phase'[p]) /\ phase'[p] # "deleting")
      PROVE  ChosenInv'
  BY <1>2 DEF ChosenInv, Goes, TypeOK
<1>3. ASSUME NEW p \in Contenders, found' = [found EXCEPT ![p] = found'[p]],
             \/ phase' = phase /\ phase[p] # "deleting"
             \/ Goes(p, phase'[p]) /\ phase'[p] # "deleting"
      PROVE  ChosenInv'
  BY <1>3 DEF ChosenInv, Goes, TypeOK
<1>4. ASSUME NEW p \in Contenders, ProcessStep(p) PROVE ChosenInv'
  <2>1. CASE LockStep(p) \/ TakeLock(p) \/ StartUp(p) \/ AllSetsDone(p) \/ Leave(p) \/ Reconciled(p) \/ DeleteScaleSet(p)
    BY <1>2, <2>1 DEF LockStep, TakeLock, StartUp, AllSetsDone, Leave, Reconciled, DeleteScaleSet, Goes, TypeOK, FirstPhase
  <2>2. CASE ListOrphans(p) \/ RemoveOrphan(p)
    BY <1>2, <1>3, <2>2 DEF ListOrphans, RemoveOrphan, Goes, TypeOK
  <2> QED BY <1>1, <1>4, <2>1, <2>2 DEF ProcessStep
<1>5. ASSUME NEW p \in Runners, ForceExit(p) \/ Crash(p) PROVE ChosenInv'
  BY <1>3, <1>5 DEF ForceExit, Crash, Dies, Goes, TypeOK
<1>6. UNCHANGED <<phase, found>> => ChosenInv'
  BY DEF ChosenInv
<1> QED BY <1>4, <1>5, <1>6, StepKinds, OthersFrame DEF vars

-----------------------------------------------------------------------------
(***************************************************************************)
(* The lock.                                                               *)
(***************************************************************************)

LEMMA InitLock == ASSUME LockInit PROVE LockInv
BY DEF LockInit, LockInv

LEMMA LockKept ==
  ASSUME LockTypeOK, LockInv, NEW p \in Contenders, BeginAcquire(p) \/ Acquire(p) \/ Release(p)
  PROVE  LockInv'
<1>1. CASE BeginAcquire(p)
  BY <1>1 DEF BeginAcquire, Moves, LockInv, LockTypeOK
<1>2. CASE OpenExisting(p)
  BY <1>2 DEF OpenExisting, Opens, Moves, LockInv, LockTypeOK, NoInode
<1>3. CASE CreateExclusive(p)
  BY <1>3 DEF CreateExclusive, Opens, Moves, LockInv, LockTypeOK, NoInode
<1>4. CASE Flock(p)
  <2>1. CASE LockFree(p) /\ UNCHANGED fd
    \* Whoever holds the file holds the one that p has open.
    <3>1. holding = {}
      BY <1>4, <2>1 DEF Flock, LockFree, LockInv, LockTypeOK
    <3> QED BY <1>4, <2>1, <3>1 DEF Flock, LockFree, Moves, LockInv, LockTypeOK
  <2>2. CASE ~LockFree(p) /\ Moves(p, "refused") /\ Closes(p)
    BY <1>4, <2>2 DEF Flock, Moves, Closes, LockInv, LockTypeOK, NoInode
  <2> QED BY <1>4, <2>1, <2>2 DEF Flock, LockFree
<1>5. CASE Inspect(p) \/ AcquireFails(p) \/ Release(p)
  BY <1>5 DEF Inspect, AcquireFails, Release, Closes, Moves, LockInv, LockTypeOK, NoInode
<1>6. CASE WriteInfo(p)
  BY <1>6 DEF WriteInfo, Moves, LockInv, LockTypeOK
<1> QED BY <1>1, <1>2, <1>3, <1>4, <1>5, <1>6 DEF Acquire

LEMMA LockMoves ==
  ASSUME [Next]_vars
  PROVE  UNCHANGED lockVars \/ \E p \in Contenders : BeginAcquire(p) \/ Acquire(p) \/ Release(p)
<1>1. \A p \in Contenders : ProcessStep(p) =>
         UNCHANGED lockVars \/ BeginAcquire(p) \/ Acquire(p) \/ Release(p)
  BY DEF ProcessStep, LockStep, TakeLock, StartUp, ListOrphans, RemoveOrphan, Reconciled, AllSetsDone, Leave,
         LookUpForDelete, DeleteScaleSet
<1>2. \A p \in Runners : ForceExit(p) \/ Crash(p) => Release(p)
  BY DEF ForceExit, Crash, Dies
<1> QED BY <1>1, <1>2, StepKinds, OthersFrame DEF vars

LEMMA NextLock ==
  ASSUME TypeOK, LockInv, [Next]_vars PROVE LockInv'
BY LockMoves, LockKept DEF LockInv, lockVars, TypeOK

\* One process has the lock, in whatever order processes open, create, lock,
\* release and die (Acquire and Release of internal/lock).
LEMMA LockExcludes ==
  ASSUME LockInv PROVE OneHolder
BY DEF LockInv, OneHolder, Holds

-----------------------------------------------------------------------------
(***************************************************************************)
(* Who has it when.                                                        *)
(***************************************************************************)

LEMMA InitStage ==
  ASSUME NEW absent, NEW broken, NEW killed, InitWith(absent, broken, killed)
  PROVE  StageInv
BY DEF InitWith, StageInv, Up

\* How a process moves from phase to phase.
LEMMA PhaseMoves ==
  ASSUME TypeOK, [Next]_vars, NEW p \in Contenders
  PROVE  \/ phase'[p] = phase[p]
         \/ phase[p] = "off" /\ Holds(p) /\ phase'[p] = FirstPhase(p) /\ UNCHANGED lockVars
         \/ phase[p] = "off" /\ phase'[p] = "exited" /\ UNCHANGED <<lockVars, set>>
         \/ Up(p) /\ phase'[p] \in {"listing", "removing", "leaving"} /\ UNCHANGED lockVars
         \/ p \in Runners /\ phase[p] = "removing" /\ Reconciled(p) /\ phase'[p] = "running"
         \/ phase[p] = "looking" /\ p \in Deleters /\ phase'[p] = "deleting" /\ UNCHANGED lockVars
         \/ phase[p] = "leaving" /\ phase'[p] = "exited" /\ Leave(p)
         \/ p \in Runners /\ Up(p) /\ phase'[p] = "killed" /\ Dies(p)
<1> DEFINE Moved ==
         \/ phase'[p] = phase[p]
         \/ phase[p] = "off" /\ Holds(p) /\ phase'[p] = FirstPhase(p) /\ UNCHANGED lockVars
         \/ phase[p] = "off" /\ phase'[p] = "exited" /\ UNCHANGED <<lockVars, set>>
         \/ Up(p) /\ phase'[p] \in {"listing", "removing", "leaving"} /\ UNCHANGED lockVars
         \/ p \in Runners /\ phase[p] = "removing" /\ Reconciled(p) /\ phase'[p] = "running"
         \/ phase[p] = "looking" /\ p \in Deleters /\ phase'[p] = "deleting" /\ UNCHANGED lockVars
         \/ phase[p] = "leaving" /\ phase'[p] = "exited" /\ Leave(p)
         \/ p \in Runners /\ Up(p) /\ phase'[p] = "killed" /\ Dies(p)
<1> USE DEF procVars
<1>1. ASSUME ProcessStep(p) PROVE Moved
  <2>1. CASE LockStep(p) \/ RemoveOrphan(p)
    BY <2>1 DEF LockStep, RemoveOrphan
  <2>2. CASE TakeLock(p)
    BY <2>2 DEF TakeLock, setVars, Goes, TypeOK, Holds
  <2>3. CASE StartUp(p) \/ ListOrphans(p) \/ AllSetsDone(p)
    BY <2>3 DEF StartUp, ListOrphans, AllSetsDone, Goes, TypeOK, Up
  <2>4. CASE Reconciled(p)
    BY <2>4 DEF Reconciled, Goes, TypeOK, Up
  <2>5. CASE Leave(p)
    BY <2>5 DEF Leave, Goes, TypeOK
  <2>6. CASE LookUpForDelete(p) \/ DeleteScaleSet(p)
    BY <2>6 DEF LookUpForDelete, DeleteScaleSet, Goes, TypeOK, Up
  <2> QED BY <1>1, <2>1, <2>2, <2>3, <2>4, <2>5, <2>6 DEF ProcessStep
<1>2. ASSUME NEW q \in Contenders, q # p, ProcessStep(q) PROVE phase'[p] = phase[p]
  BY <1>2 DEF ProcessStep, LockStep, TakeLock, StartUp, ListOrphans, RemoveOrphan, Reconciled, AllSetsDone, Leave,
              LookUpForDelete, DeleteScaleSet, Goes, TypeOK
<1>3. ASSUME NEW q \in Runners, ForceExit(q) \/ Crash(q) PROVE Moved
  BY <1>3 DEF ForceExit, Crash, Dies, Goes, TypeOK
<1> QED BY <1>1, <1>2, <1>3, StepKinds, OthersFrame DEF vars

\* The lock of a process that is up changes with its own end only.
LEMMA HeldMoves ==
  ASSUME TypeOK, LockInv, [Next]_vars, NEW p \in Contenders, Up(p), Holds(p)
  PROVE  Holds(p)' \/ ~Up(p)'
<1>1. \A q \in Contenders : Holds(q) => ~BeginAcquire(q) /\ ~Acquire(q)
  BY DEF Holds, BeginAcquire, Acquire, OpenExisting, CreateExclusive, Inspect, Flock, WriteInfo, AcquireFails
<1>2. ASSUME NEW q \in Contenders, q # p, BeginAcquire(q) \/ Acquire(q) \/ Release(q) PROVE Holds(p)'
  BY <1>2 DEF Holds, BeginAcquire, Acquire, OpenExisting, CreateExclusive, Inspect, Flock, WriteInfo, AcquireFails,
              Release, Opens, Moves, TypeOK, LockTypeOK
<1>3. ASSUME NEW q \in Contenders, ProcessStep(q) PROVE Holds(p)' \/ ~Up(p)'
  <2>1. CASE LockStep(q)
    BY <1>1, <1>2, <2>1 DEF LockStep, Up
  <2>2. CASE Leave(q)
    BY <1>2, <2>2 DEF Leave, Goes, TypeOK, Up
  <2>3. CASE UNCHANGED lockVars
    BY <2>3 DEF lockVars, Holds
  <2> QED BY <1>3, <2>1, <2>2, <2>3 DEF ProcessStep, TakeLock, StartUp, ListOrphans, RemoveOrphan, Reconciled,
                                       AllSetsDone, LookUpForDelete, DeleteScaleSet
<1>4. ASSUME NEW q \in Runners, ForceExit(q) \/ Crash(q) PROVE Holds(p)' \/ ~Up(p)'
  BY <1>2, <1>4 DEF ForceExit, Crash, Dies, Goes, TypeOK, Up
<1>5. UNCHANGED lockVars => Holds(p)'
  BY DEF lockVars, Holds
<1> QED BY <1>3, <1>4, <1>5, StepKinds, OthersFrame DEF vars

LEMMA NextStage ==
  ASSUME TypeOK, LockInv, StageInv, [Next]_vars PROVE StageInv'
<1> SUFFICES ASSUME NEW p \in Contenders
             PROVE  /\ Up(p)' => Holds(p)'
                    /\ phase'[p] \in {"starting", "running"} => p \in Runners
                    /\ phase'[p] \in {"looking", "deleting"} => p \in Deleters
  BY DEF StageInv
<1>1. Up(p)' => Up(p) \/ (Holds(p) /\ UNCHANGED lockVars)
  BY PhaseMoves DEF Up
<1>2. Up(p)' => Holds(p)'
  BY <1>1, HeldMoves DEF StageInv, Holds, lockVars
<1>3. phase'[p] = phase[p] \/ phase'[p] \notin {"starting", "running", "looking", "deleting"}
      \/ phase'[p] = FirstPhase(p) \/ (p \in Runners /\ phase'[p] = "running")
      \/ (p \in Deleters /\ phase'[p] = "deleting")
  BY PhaseMoves
<1> QED BY <1>2, <1>3 DEF StageInv, FirstPhase

\* Two processes that are up are one.
LEMMA Alone ==
  ASSUME LockInv, StageInv, NEW p \in Contenders, NEW q \in Contenders, Up(p), Up(q)
  PROVE  p = q
BY LockExcludes DEF StageInv, OneHolder

-----------------------------------------------------------------------------
(***************************************************************************)
(* The scale sets of a process.                                            *)
(***************************************************************************)

\* How a scale set moves.
LEMMA SetMoves ==
  ASSUME TypeOK, [Next]_vars, NEW i \in Pairs
  PROVE  \/ set'[i] = set[i] /\ (phase'[i[1]] \in {"exited", "killed"} => phase[i[1]] = phase'[i[1]] \/ phase[i[1]] = "off")
         \/ Reconciled(i[1]) /\ phase[i[1]] = "removing" /\ phase'[i[1]] = "running" /\ set'[i] = "looking"
         \/ SetStep(i)
         \/ set'[i] = "off" /\ phase[i[1]] = "leaving" /\ phase'[i[1]] = "exited" /\ Leave(i[1])
         \/ set'[i] = "off" /\ Up(i[1]) /\ phase'[i[1]] = "killed" /\ Dies(i[1])
<1> DEFINE Moved ==
         \/ set'[i] = set[i] /\ (phase'[i[1]] \in {"exited", "killed"} => phase[i[1]] = phase'[i[1]] \/ phase[i[1]] = "off")
         \/ Reconciled(i[1]) /\ phase[i[1]] = "removing" /\ phase'[i[1]] = "running" /\ set'[i] = "looking"
         \/ SetStep(i)
         \/ set'[i] = "off" /\ phase[i[1]] = "leaving" /\ phase'[i[1]] = "exited" /\ Leave(i[1])
         \/ set'[i] = "off" /\ Up(i[1]) /\ phase'[i[1]] = "killed" /\ Dies(i[1])
<1> USE DEF procVars, setVars
<1>0. i[1] \in Runners /\ i[1] \in Contenders /\ \A p : i \in Of(p) <=> i[1] = p
  BY PairParts
<1>1. ASSUME NEW p \in Contenders, ProcessStep(p) PROVE Moved
  <2>1. CASE LockStep(p) \/ RemoveOrphan(p)
    BY <2>1 DEF LockStep, RemoveOrphan
  <2>2. CASE TakeLock(p)
    BY <1>0, <2>2 DEF TakeLock, Goes, TypeOK
  <2>3. CASE StartUp(p) \/ ListOrphans(p) \/ AllSetsDone(p) \/ LookUpForDelete(p) \/ DeleteScaleSet(p)
    BY <1>0, <2>3 DEF StartUp, ListOrphans, AllSetsDone, LookUpForDelete, DeleteScaleSet, Goes, TypeOK
  <2>4. CASE Reconciled(p)
    BY <1>0, <2>4 DEF Reconciled, Goes, TypeOK
  <2>5. CASE Leave(p)
    BY <1>0, <2>5 DEF Leave, Goes, TypeOK
  <2> QED BY <1>1, <2>1, <2>2, <2>3, <2>4, <2>5 DEF ProcessStep
<1>2. ASSUME NEW p \in Runners, ForceExit(p) \/ Crash(p) PROVE Moved
  BY <1>0, <1>2 DEF ForceExit, Crash, Dies, Goes, TypeOK, Up
<1>3. ASSUME NEW j \in Pairs, SetStep(j) PROVE Moved
  <2>1. UNCHANGED phase
    BY <1>3, OthersFrame
  <2>2. ASSUME j # i PROVE set'[i] = set[i]
    BY <1>3, <2>2 DEF SetStep, LookUpScaleSet, EnsureScaleSet, Connect, ListenerReturns, Reconnect, ShutdownSet,
                      SetGoes, Errs, TypeOK
  <2> QED BY <1>3, <2>1, <2>2
<1>4. ASSUME NEW p \in Runners, Signal(p) PROVE Moved
  BY <1>4 DEF Signal
<1>5. ASSUME NEW j \in Pairs, WatcherStep(j) \/ TakeJob(j) \/ JobEnds(j) PROVE Moved
  BY <1>5 DEF WatcherStep, WatchDrain, DrainReturns, watcherRest, TakeJob, JobEnds, githubRest
<1>6. ASSUME NEW s \in Sets, JobQueued(s) \/ SessionExpires(s) PROVE Moved
  BY <1>6 DEF JobQueued, SessionExpires, githubRest
<1>7. UNCHANGED vars => Moved
  BY DEF vars
<1> QED BY <1>1, <1>2, <1>3, <1>4, <1>5, <1>6, <1>7, StepKinds

\* One step of a set.
LEMMA SetStepMoves ==
  ASSUME TypeOK, NEW i \in Pairs, SetStep(i)
  PROVE  /\ set[i] \notin {"off", "done"} /\ set'[i] \notin {"off", "looking"} /\ UNCHANGED <<phase, found>>
         /\ set'[i] = "updating" => i[2] \in registered
         /\ set'[i] \in {"connecting", "listening", "waiting"} =>
               i[2] \in registered' \/ set[i] \in {"connecting", "listening", "waiting"}
         /\ registered \subseteq registered'
         /\ set[i] \in {"stopping", "failing"} <=> set'[i] = "done" /\ ShutdownSet(i)
         /\ set'[i] = "done" => ShutdownSet(i) \/ (set[i] \in {"looking", "creating", "updating"} /\ UNCHANGED instances)
         /\ set[i] \in {"looking", "creating", "updating"} => UNCHANGED instances
         /\ set'[i] \in {"creating", "updating"} => set[i] = "looking"
         /\ set'[i] = "connecting" => set[i] \in {"creating", "updating", "waiting"}
<1> USE DEF procVars, setRest, SetGoes
<1>1. CASE LookUpScaleSet(i)
  BY <1>1 DEF LookUpScaleSet, Errs, TypeOK, ShutdownSet
<1>2. CASE EnsureScaleSet(i)
  BY <1>2 DEF EnsureScaleSet, Errs, TypeOK, ShutdownSet
<1>3. CASE Connect(i)
  BY <1>3 DEF Connect, TypeOK, ShutdownSet
<1>4. CASE ListenerReturns(i) \/ Reconnect(i)
  BY <1>4 DEF ListenerReturns, Reconnect, TypeOK, ShutdownSet
<1>5. CASE ShutdownSet(i)
  BY <1>5 DEF ShutdownSet, Errs, TypeOK, githubVars
<1> QED BY <1>1, <1>2, <1>3, <1>4, <1>5 DEF SetStep

\* Only `scaleset delete` takes a registration away.
LEMMA RegistrationMoves ==
  ASSUME [Next]_vars
  PROVE  registered \subseteq registered' \/ \E d \in Contenders : DeleteScaleSet(d)
<1>1. \A p \in Contenders : ProcessStep(p) => UNCHANGED registered \/ DeleteScaleSet(p)
  BY DEF ProcessStep, LockStep, TakeLock, StartUp, ListOrphans, RemoveOrphan, Reconciled, AllSetsDone, Leave,
         LookUpForDelete, githubVars
<1>2. \A p \in Runners : Signal(p) \/ ForceExit(p) \/ Crash(p) => UNCHANGED registered
  BY DEF Signal, ForceExit, Crash, Dies, githubVars
<1>3. \A i \in Pairs : SetStep(i) \/ WatcherStep(i) => registered \subseteq registered'
  BY DEF SetStep, LookUpScaleSet, EnsureScaleSet, Connect, ListenerReturns, Reconnect, ShutdownSet, WatcherStep,
         WatchDrain, DrainReturns, watcherRest, githubVars
<1>4. \A i \in Pairs : TakeJob(i) \/ JobEnds(i) => UNCHANGED registered
  BY DEF TakeJob, JobEnds, githubRest
<1>5. \A s \in Sets : JobQueued(s) \/ SessionExpires(s) => UNCHANGED registered
  BY DEF JobQueued, SessionExpires, githubRest
<1> QED BY <1>1, <1>2, <1>3, <1>4, <1>5, StepKinds DEF vars, githubVars

\* A process that is running leaves when its sets are done, and then stays.
LEMMA RunningMoves ==
  ASSUME TypeOK, [Next]_vars, NEW p \in Runners
  PROVE  /\ phase[p] = "running" =>
               \/ phase'[p] \in {"running", "exited", "killed"}
               \/ phase'[p] = "leaving" /\ AllSetsDone(p)
         /\ phase[p] = "leaving" => phase'[p] \in {"leaving", "exited", "killed"}
         /\ phase'[p] = "leaving" =>
               phase[p] \in {"starting", "listing", "removing", "looking", "deleting", "leaving"} \/ AllSetsDone(p)
<1> DEFINE Moved ==
         /\ phase[p] = "running" =>
               \/ phase'[p] \in {"running", "exited", "killed"}
               \/ phase'[p] = "leaving" /\ AllSetsDone(p)
         /\ phase[p] = "leaving" => phase'[p] \in {"leaving", "exited", "killed"}
         /\ phase'[p] = "leaving" =>
               phase[p] \in {"starting", "listing", "removing", "looking", "deleting", "leaving"} \/ AllSetsDone(p)
<1>1. ASSUME NEW q \in Contenders, ProcessStep(q) PROVE Moved
  <2>1. CASE LockStep(q) \/ TakeLock(q) \/ RemoveOrphan(q) \/ Leave(q)
    BY <2>1 DEF LockStep, TakeLock, RemoveOrphan, Leave, Goes, TypeOK, procVars, FirstPhase
  <2>2. CASE StartUp(q) \/ ListOrphans(q) \/ LookUpForDelete(q) \/ DeleteScaleSet(q)
    BY <2>2 DEF StartUp, ListOrphans, LookUpForDelete, DeleteScaleSet, Goes, TypeOK
  <2>3. CASE Reconciled(q) \/ AllSetsDone(q)
    BY <2>3 DEF Reconciled, AllSetsDone, Goes, TypeOK
  <2> QED BY <1>1, <2>1, <2>2, <2>3 DEF ProcessStep
<1>2. ASSUME NEW q \in Runners, ForceExit(q) \/ Crash(q) PROVE Moved
  BY <1>2 DEF ForceExit, Crash, Dies, Goes, TypeOK
<1>3. UNCHANGED phase => Moved
  OBVIOUS
<1> QED BY <1>1, <1>2, <1>3, StepKinds, OthersFrame DEF vars, procVars

LEMMA InitSets ==
  ASSUME NEW absent, NEW broken, NEW killed, InitWith(absent, broken, killed)
  PROVE  SetInv
BY PairParts DEF InitWith, SetInv

LEMMA NextSets ==
  ASSUME TypeOK, LockInv, StageInv, SetInv, [Next]_vars PROVE SetInv'
<1> SUFFICES ASSUME NEW i \in Pairs
             PROVE  /\ set'[i] # "off" => phase'[i[1]] \in {"running", "leaving"}
                    /\ phase'[i[1]] = "leaving" => set'[i] \in {"off", "done"}
                    /\ set'[i] \in {"updating", "connecting", "listening", "waiting"} => i[2] \in registered'
  BY DEF SetInv
<1>0. i[1] \in Runners /\ i[1] \in Contenders /\ i[1] \notin Deleters
  BY PairParts
<1>1. CASE SetStep(i)
  <2>1. phase[i[1]] = "running" /\ UNCHANGED phase
    BY <1>1, SetStepMoves DEF SetInv
  <2> QED BY <1>1, <2>1, SetStepMoves DEF SetInv
<1>2. CASE Reconciled(i[1]) /\ phase[i[1]] = "removing" /\ phase'[i[1]] = "running" /\ set'[i] = "looking"
  BY <1>2
<1>3. CASE set'[i] = "off"
  BY <1>3
<1>4. CASE set'[i] = set[i]
                /\ (phase'[i[1]] \in {"exited", "killed"} => phase[i[1]] = phase'[i[1]] \/ phase[i[1]] = "off")
  <2>1. set'[i] # "off" => phase'[i[1]] \in {"running", "leaving"}
    <3>1. phase[i[1]] = "running" => phase'[i[1]] \in {"running", "leaving"}
      BY <1>0, <1>4, PhaseMoves, RunningMoves DEF FirstPhase
    <3>2. phase[i[1]] = "leaving" => phase'[i[1]] = "leaving"
      BY <1>0, <1>4, PhaseMoves, RunningMoves
    <3> QED BY <1>4, <3>1, <3>2 DEF SetInv
  <2>2. phase'[i[1]] = "leaving" => set'[i] \in {"off", "done"}
    BY <1>0, <1>4, RunningMoves, PairParts DEF SetInv, AllSetsDone
  <2>3. set'[i] \in {"updating", "connecting", "listening", "waiting"} => i[2] \in registered'
    \* While the set is up, so is its process, and no deletion.
    <3>1. ASSUME NEW d \in Contenders, DeleteScaleSet(d), set[i] \in {"updating", "connecting", "listening", "waiting"}
          PROVE FALSE
      <4>1. Up(d) /\ d \in Deleters /\ Up(i[1])
        BY <3>1 DEF DeleteScaleSet, StageInv, SetInv, Up
      <4> QED BY <1>0, <4>1, Alone
    <3> QED BY <1>4, <3>1, RegistrationMoves DEF SetInv
  <2> QED BY <2>1, <2>2, <2>3
<1> QED BY <1>1, <1>2, <1>3, <1>4, SetMoves

-----------------------------------------------------------------------------
(***************************************************************************)
(* Instances and orphans.                                                  *)
(***************************************************************************)

\* What a step can only add to, and who starts instances.
LEMMA Growth ==
  ASSUME TypeOK, [Next]_vars
  PROVE  /\ faults' <= faults /\ cancelled \subseteq cancelled' /\ timedOut \subseteq timedOut'
         /\ instances' \subseteq instances \/ \E i \in Pairs : TakeJob(i)
<1> DEFINE Grows ==
         /\ faults' <= faults /\ cancelled \subseteq cancelled' /\ timedOut \subseteq timedOut'
         /\ instances' \subseteq instances
<1> USE DEF stopVars, setVars, budgets
<1>0. faults \in Nat
  BY DEF TypeOK
<1>1. ASSUME NEW p \in Contenders, ProcessStep(p) PROVE Grows
  BY <1>0, <1>1 DEF ProcessStep, LockStep, TakeLock, StartUp, ListOrphans, RemoveOrphan, Reconciled, AllSetsDone, Leave,
                    LookUpForDelete, DeleteScaleSet, Fails
<1>2. ASSUME NEW p \in Runners, Signal(p) \/ ForceExit(p) \/ Crash(p) PROVE Grows
  BY <1>0, <1>2 DEF Signal, ForceExit, Crash, Dies
<1>3. ASSUME NEW i \in Pairs, SetStep(i) PROVE Grows
  BY <1>0, <1>3 DEF SetStep, LookUpScaleSet, EnsureScaleSet, Connect, ListenerReturns, Reconnect, ShutdownSet, Errs,
                    setRest, Fails
<1>4. ASSUME NEW i \in Pairs, WatcherStep(i) PROVE Grows
  BY <1>0, <1>4 DEF WatcherStep, WatchDrain, DrainReturns, watcherRest
<1>5. ASSUME NEW i \in Pairs, TakeJob(i) \/ JobEnds(i)
      PROVE  UNCHANGED <<faults, cancelled, timedOut>> /\ (JobEnds(i) => instances' \subseteq instances)
  BY <1>5 DEF TakeJob, JobEnds, githubRest
<1>6. ASSUME NEW s \in Sets, JobQueued(s) \/ SessionExpires(s) PROVE Grows
  BY <1>0, <1>6 DEF JobQueued, SessionExpires, githubRest
<1>7. UNCHANGED vars => Grows
  BY <1>0 DEF vars
<1> QED BY <1>0, <1>1, <1>2, <1>3, <1>4, <1>5, <1>6, <1>7, StepKinds

\* A job is taken by a process that is alone.
LEMMA TakeJobAlone ==
  ASSUME TypeOK, LockInv, StageInv, SetInv, NEW i \in Pairs, TakeJob(i)
  PROVE  /\ phase[i[1]] = "running" /\ set'[i] = "listening" /\ instances' = instances \cup {i}
         /\ UNCHANGED <<phase, set, found, listenDone>> /\ i \notin listenDone
         /\ \A p \in Contenders : Up(p) => p = i[1]
<1>1. set[i] = "listening" /\ instances' = instances \cup {i} /\ i \notin listenDone
      /\ UNCHANGED <<phase, set, found, listenDone>>
  BY DEF TakeJob, ListenEnded, githubRest, procVars, setVars
<1>2. phase[i[1]] = "running"
  BY <1>1 DEF SetInv
<1> QED BY <1>1, <1>2, Alone, PairParts DEF Up

\* A shutdown that leaves the instance has had a fault.
LEMMA ShutdownFails ==
  ASSUME TypeOK, NEW i \in Pairs, ShutdownSet(i) PROVE i \notin instances' \/ faults' < faults
BY DEF ShutdownSet, Fails, TypeOK

LEMMA InitInstances ==
  ASSUME NEW absent, NEW broken, NEW killed, InitWith(absent, broken, killed)
  PROVE  InstanceInv /\ FoundInv /\ ListenInv /\ StopInv
BY PairParts DEF InitWith, InstanceInv, FoundInv, ListenInv, StopInv

\* While a process starts it has no instances.
LEMMA FreshRunner ==
  ASSUME TypeOK, SetInv, InstanceInv, NEW i \in instances
  PROVE  /\ phase[i[1]] \notin {"off", "starting", "listing", "removing"}
         /\ phase[i[1]] = "running" => set[i] \in {"connecting", "listening", "waiting", "stopping", "failing", "done"}
         /\ phase[i[1]] = "leaving" => set[i] = "done"
BY DEF TypeOK, SetInv, InstanceInv

LEMMA NextSetTypes ==
  ASSUME TypeOK, NEW i \in Pairs, SetStep(i) PROVE set'[i] \in SetPlaces
<1> USE DEF SetGoes, SetPlaces, TypeOK
<1>1. CASE LookUpScaleSet(i) \/ EnsureScaleSet(i)
  BY <1>1 DEF LookUpScaleSet, EnsureScaleSet, Errs
<1>2. CASE Connect(i) \/ ListenerReturns(i) \/ Reconnect(i) \/ ShutdownSet(i)
  BY <1>2 DEF Connect, ListenerReturns, Reconnect, ShutdownSet, Errs
<1> QED BY <1>1, <1>2 DEF SetStep

LEMMA NextInstances ==
  ASSUME TypeOK, LockInv, StageInv, SetInv, InstanceInv, [Next]_vars PROVE InstanceInv'
<1> SUFFICES ASSUME NEW i \in instances'
             PROVE  /\ \/ set'[i] \in {"connecting", "listening", "waiting", "stopping", "failing", "done"}
                       \/ phase'[i[1]] \in {"killed", "exited"}
                    /\ faults' = Faults => set'[i] # "done" /\ phase'[i[1]] # "exited"
  BY DEF InstanceInv
<1>1. faults' = Faults => faults = Faults
  BY Growth DEF TypeOK
<1>2. CASE i \notin instances
  BY <1>2, Growth, TakeJobAlone
<1>3. CASE i \in instances
  <2>0. i \in Pairs /\ i[1] \in Contenders
    BY <1>3, PairParts DEF TypeOK
  <2>1. CASE /\ set'[i] = set[i]
             /\ phase'[i[1]] \in {"exited", "killed"} => phase[i[1]] = phase'[i[1]] \/ phase[i[1]] = "off"
    <3>1. phase[i[1]] \in {"killed", "exited"} => phase'[i[1]] = phase[i[1]]
      BY <2>0, PhaseMoves DEF Up
    <3>2. phase[i[1]] # "off"
      BY <1>3, FreshRunner
    <3> QED BY <1>1, <1>3, <2>1, <3>1, <3>2 DEF InstanceInv
  <2>2. CASE phase[i[1]] = "removing"
    BY <1>3, <2>2, FreshRunner
  <2>3. CASE SetStep(i)
    <3>1. phase[i[1]] = "running" /\ phase' = phase
      BY <2>0, <2>3, SetStepMoves DEF SetInv
    <3>2. set'[i] \in SetPlaces \ {"off", "looking", "creating", "updating"}
      BY <1>3, <2>0, <2>3, <3>1, SetStepMoves, FreshRunner, NextSetTypes
    <3>3. set'[i] = "done" => faults' < faults
      BY <1>3, <2>0, <2>3, <3>1, SetStepMoves, ShutdownFails, FreshRunner
    <3> QED BY <1>1, <3>1, <3>2, <3>3 DEF SetPlaces, TypeOK
  <2>4. CASE phase[i[1]] = "leaving" /\ phase'[i[1]] = "exited" /\ set'[i] = "off"
    BY <1>1, <1>3, <2>4, FreshRunner DEF InstanceInv
  <2>5. CASE phase'[i[1]] = "killed" /\ set'[i] = "off"
    BY <2>5
  <2> QED BY <2>0, <2>1, <2>2, <2>3, <2>4, <2>5, SetMoves
<1> QED BY <1>2, <1>3

\* How the list of orphans comes about.
LEMMA FoundMoves ==
  ASSUME TypeOK, [Next]_vars, NEW p \in Contenders
  PROVE  \/ found'[p] = found[p]
         \/ phase[p] = "listing" /\ found'[p] \subseteq instances /\ UNCHANGED instances
         \/ phase[p] = "looking" /\ phase'[p] # "removing" /\ p \in Deleters
         \/ /\ phase[p] = "removing" /\ UNCHANGED <<phase, cancelled>>
            /\ \E o \in found[p] : /\ found'[p] = found[p] \ {o}
                                   /\ \/ instances' = instances \ {o}
                                      \/ p \in cancelled \/ faults' < faults
         \/ found'[p] = {} /\ phase'[p] = "killed"
<1> DEFINE Moved ==
         \/ found'[p] = found[p]
         \/ phase[p] = "listing" /\ found'[p] \subseteq instances /\ UNCHANGED instances
         \/ phase[p] = "looking" /\ phase'[p] # "removing" /\ p \in Deleters
         \/ /\ phase[p] = "removing" /\ UNCHANGED <<phase, cancelled>>
            /\ \E o \in found[p] : /\ found'[p] = found[p] \ {o}
                                   /\ \/ instances' = instances \ {o}
                                      \/ p \in cancelled \/ faults' < faults
         \/ found'[p] = {} /\ phase'[p] = "killed"
<1> USE DEF procVars
<1>1. ASSUME NEW q \in Contenders, ProcessStep(q) PROVE Moved
  <2>1. CASE ListOrphans(q)
    BY <2>1 DEF ListOrphans, Orphans, TypeOK
  <2>2. CASE RemoveOrphan(q)
    BY <2>2 DEF RemoveOrphan, Fails, stopVars, TypeOK
  <2>3. CASE LookUpForDelete(q)
    BY <2>3 DEF LookUpForDelete, Goes, TypeOK
  <2> QED BY <1>1, <2>1, <2>2, <2>3
          DEF ProcessStep, LockStep, TakeLock, StartUp, Reconciled, AllSetsDone, Leave, DeleteScaleSet
<1>2. ASSUME NEW q \in Runners, ForceExit(q) \/ Crash(q) PROVE Moved
  BY <1>2 DEF ForceExit, Crash, Dies, Goes, TypeOK
<1> QED BY <1>1, <1>2, StepKinds, OthersFrame DEF vars

\* How a process comes to remove what it has found, and to run.
LEMMA ReconcileMoves ==
  ASSUME TypeOK, [Next]_vars, NEW p \in Contenders
  PROVE  /\ phase'[p] = "removing" =>
               \/ phase[p] = "removing"
               \/ phase[p] = "listing" /\ found'[p] = InReach(p) /\ UNCHANGED instances
               \/ p \in cancelled \/ faults' < faults
         /\ phase'[p] = "running" =>
               phase[p] = "running" \/ (phase[p] = "removing" /\ found[p] = {} /\ UNCHANGED instances)
<1> DEFINE Moved ==
         /\ phase'[p] = "removing" =>
               \/ phase[p] = "removing"
               \/ phase[p] = "listing" /\ found'[p] = InReach(p) /\ UNCHANGED instances
               \/ p \in cancelled \/ faults' < faults
         /\ phase'[p] = "running" =>
               phase[p] = "running" \/ (phase[p] = "removing" /\ found[p] = {} /\ UNCHANGED instances)
<1>1. ASSUME NEW q \in Contenders, ProcessStep(q) PROVE Moved
  <2>1. CASE ListOrphans(q)
    BY <2>1 DEF ListOrphans, InReach, Fails, Goes, TypeOK
  <2>2. CASE Reconciled(q)
    BY <2>2 DEF Reconciled, Goes, TypeOK
  <2>3. CASE LockStep(q) \/ TakeLock(q) \/ StartUp(q) \/ RemoveOrphan(q)
    BY <2>3 DEF LockStep, TakeLock, StartUp, RemoveOrphan, Goes, TypeOK, procVars, FirstPhase
  <2>4. CASE AllSetsDone(q) \/ Leave(q) \/ LookUpForDelete(q) \/ DeleteScaleSet(q)
    BY <2>4 DEF AllSetsDone, Leave, LookUpForDelete, DeleteScaleSet, Goes, TypeOK
  <2> QED BY <1>1, <2>1, <2>2, <2>3, <2>4 DEF ProcessStep
<1>2. ASSUME NEW q \in Runners, ForceExit(q) \/ Crash(q) PROVE Moved
  BY <1>2 DEF ForceExit, Crash, Dies, Goes, TypeOK
<1>3. UNCHANGED phase => Moved
  OBVIOUS
<1> QED BY <1>1, <1>2, <1>3, StepKinds, OthersFrame DEF vars, procVars

LEMMA NextFound ==
  ASSUME TypeOK, LockInv, StageInv, SetInv, InstanceInv, FoundInv, [Next]_vars PROVE FoundInv'
<1> SUFFICES ASSUME NEW p \in Contenders
             PROVE  /\ \A i \in found'[p] : i \in Pairs => i[1] # p
                    /\ faults' = Faults /\ p \in Runners \ cancelled' =>
                          /\ phase'[p] = "removing" => InReach(p)' \subseteq found'[p]
                          /\ phase'[p] = "running" => InReach(p)' \subseteq Of(p)
  BY DEF FoundInv
<1>1. ASSUME NEW i \in found'[p], i \in Pairs PROVE i[1] # p
  <2>1. i[1] \notin Deleters
    BY <1>1, PairParts
  <2>2. phase[p] = "listing" => i \notin instances \/ i[1] # p
    BY FreshRunner
  <2> QED BY <1>1, <2>1, <2>2, FoundMoves DEF FoundInv
<1>2. ASSUME faults' = Faults, p \in Runners \ cancelled'
      PROVE  /\ phase'[p] = "removing" => InReach(p)' \subseteq found'[p]
             /\ phase'[p] = "running" => InReach(p)' \subseteq Of(p)
  <2>1. faults = Faults /\ ~(faults' < faults) /\ p \in Runners \ cancelled
    BY <1>2, Growth DEF TypeOK
  <2>2. ASSUME NEW i \in Pairs, TakeJob(i), phase'[p] \in {"removing", "running"}
        PROVE  phase[p] = "running" /\ phase' = phase /\ i \in Of(p) /\ instances' = instances \cup {i}
    <3>1. phase' = phase /\ instances' = instances \cup {i} /\ phase[i[1]] = "running" /\ (Up(p) => p = i[1])
      BY <2>2, TakeJobAlone
    <3>2. p = i[1]
      BY <2>2, <3>1 DEF Up
    <3> QED BY <3>1, <3>2, PairParts
  <2>5. /\ instances' \subseteq instances => InReach(p)' \subseteq InReach(p)
        /\ \A i : instances' \subseteq instances \cup {i} => InReach(p)' \subseteq InReach(p) \cup {i}
        /\ InReach(p)' \subseteq instances'
    BY DEF InReach, Orphans, Searched
  <2>3. ASSUME phase'[p] = "removing" PROVE InReach(p)' \subseteq found'[p]
    <3>1. instances' \subseteq instances /\ InReach(p)' \subseteq InReach(p)
      BY <2>2, <2>3, <2>5, Growth
    <3>2. CASE phase[p] = "removing"
      BY <2>1, <2>3, <2>5, <3>1, <3>2, FoundMoves DEF FoundInv
    <3> QED BY <2>1, <2>3, <3>1, <3>2, ReconcileMoves
  <2>4. ASSUME phase'[p] = "running" PROVE InReach(p)' \subseteq Of(p)
    <3>1. CASE phase[p] = "running"
      BY <2>1, <2>2, <2>4, <2>5, <3>1, Growth DEF FoundInv
    <3>2. CASE phase[p] = "removing" /\ found[p] = {} /\ UNCHANGED instances
      BY <2>1, <2>5, <3>2 DEF FoundInv
    <3> QED BY <2>4, <3>1, <3>2, ReconcileMoves
  <2> QED BY <2>3, <2>4
<1> QED BY <1>1, <1>2

-----------------------------------------------------------------------------
(***************************************************************************)
(* How a set comes to stop.                                                *)
(***************************************************************************)

\* How a listener's context ends on its own.
LEMMA ListenMoves ==
  ASSUME TypeOK, [Next]_vars, NEW i \in Pairs
  PROVE  \/ i \in listenDone' => i \in listenDone
         \/ i \in timedOut' \/ i \notin instances' \/ RunDone(i)' \/ ShutdownSet(i)
<1> DEFINE Moved ==
         \/ i \in listenDone' => i \in listenDone
         \/ i \in timedOut' \/ i \notin instances' \/ RunDone(i)' \/ ShutdownSet(i)
<1> USE DEF setVars
<1>1. ASSUME NEW j \in Pairs, WatcherStep(j) PROVE Moved
  BY <1>1 DEF WatcherStep, WatchDrain, DrainReturns, WatcherGoes, CancelListen, ListenEnded, RunDone, watcherRest, stopVars
<1>2. ASSUME NEW j \in Pairs, SetStep(j) PROVE Moved
  <2>1. CASE ShutdownSet(j)
    <3>1. CASE j = i
      BY <2>1, <3>1
    <3>2. CASE j # i
      BY <2>1, <3>2 DEF ShutdownSet
    <3> QED BY <3>1, <3>2
  <2>2. CASE UNCHANGED listenDone
    BY <2>2
  <2> QED BY <1>2, <2>1, <2>2
          DEF SetStep, LookUpScaleSet, EnsureScaleSet, Connect, ListenerReturns, Reconnect, setRest
<1>3. \A p \in Contenders : ProcessStep(p) => UNCHANGED listenDone
  BY DEF ProcessStep, LockStep, TakeLock, StartUp, ListOrphans, RemoveOrphan, Reconciled, AllSetsDone, Leave,
         LookUpForDelete, DeleteScaleSet
<1>4. \A p \in Runners : Signal(p) \/ ForceExit(p) \/ Crash(p) => UNCHANGED listenDone
  BY DEF Signal, ForceExit, Crash, Dies
<1>5. \A j \in Pairs : TakeJob(j) \/ JobEnds(j) => UNCHANGED listenDone
  BY DEF TakeJob, JobEnds, githubRest
<1>6. \A s \in Sets : JobQueued(s) \/ SessionExpires(s) => UNCHANGED listenDone
  BY DEF JobQueued, SessionExpires, githubRest
<1> QED BY <1>1, <1>2, <1>3, <1>4, <1>5, <1>6, StepKinds DEF vars

\* How a set that is being served goes on.
LEMMA ServingMoves ==
  ASSUME TypeOK, NEW i \in Pairs, SetStep(i), set'[i] \in {"connecting", "listening", "waiting", "stopping"}
  PROVE  /\ set[i] \in {"creating", "updating", "connecting", "listening", "waiting"}
         /\ UNCHANGED <<listenDone, timedOut, instances>>
         /\ set'[i] = "stopping" => set[i] \in {"connecting", "listening", "waiting"} /\ ListenEnded(i)
<1> USE DEF SetGoes, TypeOK, setRest
<1>1. CASE LookUpScaleSet(i) \/ EnsureScaleSet(i)
  BY <1>1 DEF LookUpScaleSet, EnsureScaleSet, Errs
<1>2. CASE Connect(i)
  BY <1>2 DEF Connect
<1>3. CASE ListenerReturns(i) \/ Reconnect(i)
  BY <1>3 DEF ListenerReturns, Reconnect
<1>4. CASE ShutdownSet(i)
  BY <1>4 DEF ShutdownSet, Errs
<1> QED BY <1>1, <1>2, <1>3, <1>4 DEF SetStep

LEMMA NextListen ==
  ASSUME TypeOK, LockInv, StageInv, SetInv, InstanceInv, ListenInv, StopInv, [Next]_vars
  PROVE  ListenInv' /\ StopInv'
<1> SUFFICES ASSUME NEW i \in instances'
             PROVE  /\ i \in listenDone' /\ set'[i] \in {"connecting", "listening", "waiting", "stopping"} =>
                          i \in timedOut' \/ RunDone(i)'
                    /\ set'[i] = "stopping" => i \in timedOut' \/ RunDone(i)'
  BY DEF ListenInv, StopInv
<1>1. i \in timedOut \/ RunDone(i) => i \in timedOut' \/ RunDone(i)'
  BY Growth DEF RunDone
<1>2. CASE i \notin instances
  BY <1>2, Growth, TakeJobAlone
<1>3. CASE i \in instances
  <2>0. i \in Pairs
    BY <1>3 DEF TypeOK
  <2>1. CASE SetStep(i) /\ set'[i] \in {"connecting", "listening", "waiting", "stopping"}
    <3>1. phase[i[1]] = "running"
      BY <2>0, <2>1, SetStepMoves DEF SetInv
    <3>2. set[i] \in {"connecting", "listening", "waiting"} /\ UNCHANGED listenDone
          /\ (set'[i] = "stopping" => ListenEnded(i))
      BY <1>3, <2>0, <2>1, <3>1, ServingMoves, FreshRunner
    <3> QED BY <1>1, <1>3, <3>2 DEF ListenInv, ListenEnded
  <2>2. CASE set'[i] = set[i]
    <3>1. ASSUME ShutdownSet(i) PROVE set[i] # set'[i]
      BY <2>0, <3>1, SetStepMoves DEF SetStep, ShutdownSet
    <3> QED BY <1>1, <1>3, <2>0, <2>2, <3>1, ListenMoves DEF ListenInv, StopInv
  <2>3. CASE set'[i] \notin {"connecting", "listening", "waiting", "stopping"}
    BY <2>3
  <2> QED BY <2>0, <2>1, <2>2, <2>3, SetMoves
<1> QED BY <1>2, <1>3

-----------------------------------------------------------------------------
(***************************************************************************)
(* The theorems.                                                           *)
(***************************************************************************)

\* Types, lock, stages, sets, instances and orphans fit together in every state
\* of the host, whichever processes take part and whatever fails.
THEOREM Inductive == Spec => []IInv
<1>1. Init => IInv
  <2> SUFFICES ASSUME InitWith({}, Faults, Crashes) PROVE IInv
    BY DEF Init
  <2>1. LockInv
    BY InitLock DEF InitWith
  <2>2. Faults \in 0 .. Faults /\ Crashes \in 0 .. Crashes
    OBVIOUS
  <2> QED BY <2>1, <2>2, InitTypes, InitStage, InitSets, InitInstances DEF IInv
<1>2. IInv /\ [Next]_vars => IInv'
  BY NextTypes, NextChosen, NextLock, NextStage, NextSets, NextInstances, NextFound, NextListen DEF IInv
<1> QED BY <1>1, <1>2, PTL DEF Spec

\* One process has the host lock at a time, in whatever order processes open,
\* create, lock, inspect, release and die (Acquire of internal/lock).
THEOREM OneHolderHolds == Spec => []OneHolder
<1>1. IInv => OneHolder
  BY LockExcludes DEF IInv
<1> QED BY <1>1, Inductive, PTL

\* Whoever removes orphans never removes what a live process has started, nor is
\* a scale set deleted under a listener, for any number of runners, doctors and
\* deletions: reconcileOrphans, runDoctor and runScalesetDelete all wait for the lock.
THEOREM LiveRunnerSparedHolds == Spec => LiveRunnerSpared
<1>1. IInv => TypeOK /\ ListenedSetStays
  BY DEF IInv, SetInv, ListenedSetStays
<1>2. ASSUME IInv, [Next]_vars, NEW p \in Contenders, NEW i \in (found[p] \ found'[p]) \cap Pairs, phase[p] = "removing"
      PROVE  ~Up(i[1])
  <2>1. i[1] # p /\ i[1] \in Contenders
    BY <1>2, PairParts DEF IInv, FoundInv
  <2>2. Up(p)
    BY <1>2 DEF Up
  <2> QED BY <1>2, <2>1, <2>2, Alone DEF IInv
<1>3. IInv /\ [Next]_vars =>
         [\A p \in Contenders : \A i \in (found[p] \ found'[p]) \cap Pairs : phase[p] = "removing" => ~Up(i[1])]_vars
  BY <1>2
<1> QED BY <1>1, <1>3, Inductive, PTL DEF Spec, LiveRunnerSpared, ReconcileSparesLive

\* While nothing has failed, the controllers of a runner work beside no instance
\* of an earlier process at the sockets and TART_HOMEs of their configuration, which
\* reconcileOrphans lists, and a process that ends in order leaves none; for any
\* processes and any configurations.
THEOREM NoOrphanBesideRunnerHolds == Spec => []NoOrphanBesideRunner
<1>1. IInv => NoOrphanBesideRunner
  <2> SUFFICES ASSUME IInv, faults = Faults
               PROVE  /\ \A p \in Runners : phase[p] = "running" /\ p \notin cancelled => InReach(p) \subseteq Of(p)
                      /\ \A i \in instances : phase[i[1]] # "exited"
    BY DEF NoOrphanBesideRunner, InReach
  <2> QED BY DEF IInv, FoundInv, InstanceInv
<1> QED BY <1>1, Inductive, PTL

\* A drain spares jobs: the end of a scale set removes an instance only when the
\* drain ran out of time, the process was told to stop at once, or the scale set
\* failed (watchScaleSetDrain and the deferred Shutdown of runScaleSetController).
THEOREM DrainSparesJobsHolds == Spec => DrainSparesJobs
<1>1. ASSUME IInv, [Next]_vars, NEW i \in Pairs, set[i] # "done", set'[i] = "done", i \in instances, i \notin instances'
      PROVE  i \in timedOut \/ i[1] \in cancelled \/ set[i] = "failing"
  <2>1. SetStep(i)
    BY <1>1, SetMoves DEF IInv
  <2>2. ShutdownSet(i)
    BY <1>1, <2>1, SetStepMoves DEF IInv
  <2> QED BY <1>1, <2>2 DEF ShutdownSet, IInv, StopInv, RunDone
<1>2. IInv /\ [Next]_vars =>
         [\A i \in Pairs :
            (set[i] # "done" /\ set'[i] = "done" /\ i \in instances /\ i \notin instances')
              => \/ i \in timedOut \/ i[1] \in cancelled \/ set[i] = "failing"]_vars
  BY <1>1
<1> QED BY <1>2, Inductive, PTL DEF Spec, DrainSparesJobs

============================================================================
