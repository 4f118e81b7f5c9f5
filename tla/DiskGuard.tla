------------------------------ MODULE DiskGuard ------------------------------
(***************************************************************************)
(* The disk guard (internal/diskguard), the cache stores it reclaims from  *)
(* (internal/cachestore), and everybody who calls them in the process      *)
(* that serves the scale sets: the guard's own ticker, the check before    *)
(* each runner start, and the routine sweepers of the stores.              *)
(*                                                                         *)
(* A store holds whole units of data, fresh or older than its retention.   *)
(* A filesystem's free space is its capacity less the units on it, so a    *)
(* tier frees exactly what it deletes.  An operation of a store takes its  *)
(* semaphore, measures, deletes, measures again and gives the semaphore    *)
(* back, with everybody else in between.  An operation that fails may have  *)
(* deleted a part, and what it began may go on after it returned.           *)
(***************************************************************************)
EXTENDS Integers, Sequences, FiniteSets, SequencesExt, FiniteSetsExt

CONSTANTS
    AllStores,
    TypeOf,       \* store -> "garbage", "buildx", "buildcache", "tart", "shared", "cache"
    FsOf,         \* store -> the filesystem its Path() is on
    Guard,        \* the ticker of startDiskGuard
    Starts,       \* runner starts
    Sweepers,     \* the routine sweepers there are
    Configs       \* the configurations a process can have, as records of
                  \*   stores     the configured stores, in the order of g.stores
                  \*   total      filesystem -> capacity
                  \*   minFree, targetFree   as [percent, bytes]
                  \*   maxTier
                  \*   retains    stores whose settings have a positive max age
                  \*   trim       store -> its own size budget at tier 2 (0: none)
                  \*   budget     store -> the budget the guard enforces (0: none)
                  \*   onExceed   store -> "wipe" or "warn"
                  \*   starts     the runner starts that check the disk first
                  \*   rounds     enabled sweeper -> its calls, as [store, tier]
                  \*   hung       whose volume helpers a daemon may never remove
                  \*   maxWrites  bound: units jobs write
                  \*   maxFaults  bound: failures of a daemon, a helper or statfs

VARIABLE config   \* the configuration of this process

NoOne == "no one"
Store == config.stores
Stores == Range(Store)
Checker == config.starts
Sweeper == DOMAIN config.rounds
Rounds == config.rounds
Proc == {Guard} \cup Checker \cup Sweeper
MaxTier == config.maxTier
Budget == config.budget
OnExceed == config.onExceed
Trim == config.trim
Tiers == 1..4
Measuring == 0     \* the tier of a call that only measures

ASSUME GuardAssumption ==
    /\ {NoOne, Guard} \cap (Starts \cup Sweepers) = {} /\ NoOne # Guard /\ Starts \cap Sweepers = {}
    /\ \A c \in Configs :
          /\ c.stores \in Seq(AllStores) /\ IsInjective(c.stores)
          /\ c.starts \subseteq Starts /\ DOMAIN c.rounds \subseteq Sweepers
          /\ c.total \in [DOMAIN c.total -> Nat]
          /\ \A s \in Range(c.stores) : FsOf[s] \in DOMAIN c.total /\ c.trim[s] \in Nat
          \* No routine sweeper calls a store at tier 4.
          /\ \A w \in DOMAIN c.rounds : c.rounds[w] \in Seq([store : Range(c.stores), tier : 1..3])
          /\ c.maxTier \in Tiers /\ c.maxWrites \in Nat /\ c.maxFaults \in Nat

VARIABLES
    old,       \* store -> units past its retention
    fresh,     \* store -> units within it
    strays,    \* reclaims that go on in the daemon after their caller gave up on them
    holder,    \* store -> who holds its semaphore (serialized.sem)
    sweeping,  \* who holds sweepMu
    pc,        \* where each process is in its calls
    todo,      \* process -> the calls left in the pass it is walking
    pass,      \* process -> "routine", "budget" or "ladder"
    groups,    \* process -> the filesystems of this sweep still to look at: their
               \* stores, and the free space statByFilesystem saw
    at,        \* process -> the group and the tier of the ladder it is on (0: none)
    ended,     \* processes whose context has ended
    before,    \* process -> what the first measurement of an operation saw
    removed,   \* process -> what it has deleted since, strays of the store included
    gaveUp,    \* processes whose sweep gave up waiting for a store
    overBudget, \* process -> the store it last measured over its budget
    writes, faults

vars == <<old, fresh, strays, holder, sweeping, pc, todo, pass, groups, at, ended, before,
          removed, gaveUp, overBudget, writes, faults>>

-----------------------------------------------------------------------------
(* What the stores are. *)

\* StoreKind of each store.
KindOf(s) ==
    CASE TypeOf[s] \in {"garbage", "buildx"} -> "garbage"
      [] TypeOf[s] \in {"buildcache", "tart", "cache"} -> "cache"
      [] TypeOf[s] = "shared" -> "scratch"

TiersFor(kind) ==
    CASE kind = "garbage" -> {1} [] kind = "cache" -> {2, 4} [] kind = "scratch" -> {3}

\* A mutant: the routine schedule decides what the guard may touch.
InScope_EnabledOnly(s, tier) ==
    /\ tier \in TiersFor(KindOf(s))
    /\ \E w \in Sweeper : [store |-> s, tier |-> tier] \in Range(Rounds[w])

\* The stores one tier of the ladder reclaims from, whatever their own Enabled says.
InScope(s, tier) == tier \in TiersFor(KindOf(s))

Size(s) == old[s] + fresh[s]

\* Threshold.BytesOf: an absolute size, or a percentage of the capacity.
BytesOf(threshold, total) ==
    IF threshold.bytes # 0 THEN threshold.bytes ELSE (threshold.percent * total) \div 100

\* The units on a filesystem, each as its store and its number there.
UnitsOn(f) == UNION {{s} \X (1..Size(s)) : s \in {x \in Stores : FsOf[x] = f}}

Free(f) == config.total[f] - Cardinality(UnitsOn(f))

Low(f) == Free(f) < BytesOf(config.minFree, config.total[f])

AtTarget(f) == Free(f) >= BytesOf(config.targetFree, config.total[f])

Kept(o, n) == [old |-> o, fresh |-> n]

\* A mutant: the shared volume joins the wholesale wipe.
Shared_AnyTier(s, tier) ==
    IF tier >= 3 THEN Kept(0, 0) ELSE Kept(old[s], fresh[s])

\* sharedVolumeStore.Reclaim: only tier 3, only with a max age, only what is older.
Shared(s, tier) ==
    IF tier = 3 /\ s \in config.retains THEN Kept(0, fresh[s]) ELSE Kept(old[s], fresh[s])

\* dockerGarbageStore.Reclaim and buildxStore.Reclaim.
Garbage(s, tier) ==
    IF tier = 1 /\ s \in config.retains THEN Kept(0, fresh[s]) ELSE Kept(old[s], fresh[s])

\* By age and to the budget of the tool: reclaimByAgeAndBudget, and PruneTartCache.
Trimmed(s) ==
    LET aged == IF s \in config.retains THEN 0 ELSE old[s]
    IN  IF Trim[s] = 0 THEN Kept(aged, fresh[s])
        ELSE Kept(Max({0, Min({aged, Trim[s] - fresh[s]})}), Min({fresh[s], Trim[s]}))

BuildCache(s, tier) ==
    CASE tier = 2 -> Trimmed(s) [] tier = 4 -> Kept(0, 0) [] OTHER -> Kept(old[s], fresh[s])

\* tartStore.Reclaim: tier 4 is never a wholesale wipe.
Tart(s, tier) == IF tier = 2 THEN Trimmed(s) ELSE Kept(old[s], fresh[s])

CacheVolume(s, tier) == IF tier = 4 THEN Kept(0, 0) ELSE Kept(old[s], fresh[s])

\* What a successful Reclaim of s at tier leaves in the store.
Left(s, tier) ==
    CASE tier = Measuring -> Kept(old[s], fresh[s])
      [] TypeOf[s] = "shared" -> Shared(s, tier)
      [] TypeOf[s] = "buildcache" -> BuildCache(s, tier)
      [] TypeOf[s] = "tart" -> Tart(s, tier)
      [] TypeOf[s] = "cache" -> CacheVolume(s, tier)
      [] OTHER -> Garbage(s, tier)

\* Any part of a Reclaim that was not carried through.
PartLeft(s, tier) ==
    [old : Left(s, tier).old..old[s], fresh : Left(s, tier).fresh..fresh[s]]

\* What outlives the call that began it: a helper container whose removal fails, a prune
\* in the daemon.  A tart command is killed with its context, and du deletes nothing.
GoesOn(call) == call.tier # Measuring /\ TypeOf[call.store] # "tart"

-----------------------------------------------------------------------------
Nowhere == [fs |-> NoOne, stores |-> {}, tier |-> 0]

Init ==
    /\ config \in Configs
    /\ old = [s \in Stores |-> 0]
    /\ fresh = [s \in Stores |-> 0]
    /\ strays = {}
    /\ holder = [s \in Stores |-> NoOne]
    /\ sweeping = NoOne
    /\ pc = [p \in Proc |-> "idle"]
    /\ todo = [p \in Proc |-> <<>>]
    /\ pass = [p \in Proc |-> "routine"]
    /\ groups = [p \in Proc |-> {}]
    /\ at = [p \in Proc |-> Nowhere]
    /\ ended = {}
    /\ before = [p \in Proc |-> 0]
    /\ removed = [p \in Proc |-> 0]
    /\ gaveUp = {}
    /\ overBudget = [p \in Proc |-> NoOne]
    /\ writes = 0
    /\ faults = 0

data == <<old, fresh, strays, writes>>
walk == <<todo, pass, groups, at>>
ghosts == <<before, removed, gaveUp, overBudget>>

-----------------------------------------------------------------------------
(* One operation of a store, by whoever calls it (serialized.Measure and   *)
(* serialized.Reclaim).                                                    *)

Call(p) == Head(todo[p])

\* A mutant: no semaphore.
Acquire_Unserialized(p) ==
    /\ pc[p] = "call" /\ todo[p] # <<>>
    /\ LET s == Call(p).store
       IN  /\ holder' = [holder EXCEPT ![s] = p]
           /\ before' = [before EXCEPT ![p] = Size(s)]
    /\ removed' = [removed EXCEPT ![p] = 0]
    /\ pc' = [pc EXCEPT ![p] = IF p \in ended THEN "refused" ELSE "working"]
    /\ UNCHANGED <<data, sweeping, walk, ended, gaveUp, overBudget, faults>>

\* The semaphore is free.  The select may pick it although the context has ended too;
\* the first request of the operation then fails before it does anything.
Acquire(p) ==
    /\ pc[p] = "call" /\ todo[p] # <<>>
    /\ LET s == Call(p).store
       IN  /\ holder[s] = NoOne
           /\ holder' = [holder EXCEPT ![s] = p]
           /\ before' = [before EXCEPT ![p] = Size(s)]
    /\ removed' = [removed EXCEPT ![p] = 0]
    /\ pc' = [pc EXCEPT ![p] = IF p \in ended THEN "refused" ELSE "working"]
    /\ UNCHANGED <<data, sweeping, walk, ended, gaveUp, overBudget, faults>>

\* A mutant: a busy store counts as done, with nothing freed.
GiveUp_Busy(p) ==
    /\ pc[p] = "call" /\ todo[p] # <<>>
    /\ holder[Call(p).store] # NoOne
    /\ todo' = [todo EXCEPT ![p] = Tail(@)]
    /\ gaveUp' = gaveUp \cup {p}
    /\ UNCHANGED <<data, holder, sweeping, pc, pass, groups, at, ended, before, removed,
                   overBudget, faults>>

\* A mutant: the wait for the semaphore does not watch the context.
GiveUp_Never(p) == FALSE /\ UNCHANGED vars

\* The context ends first: the call returns its error and the caller goes on.
GiveUp(p) ==
    /\ pc[p] = "call" /\ todo[p] # <<>>
    /\ p \in ended
    /\ todo' = [todo EXCEPT ![p] = Tail(@)]
    /\ gaveUp' = gaveUp \cup {p}
    /\ UNCHANGED <<data, holder, sweeping, pc, pass, groups, at, ended, before, removed,
                   overBudget, faults>>

Keep(s, kept) ==
    old' = [old EXCEPT ![s] = kept.old] /\ fresh' = [fresh EXCEPT ![s] = kept.fresh]

\* The daemon, the helper container or tart does the work.
Work(p) ==
    /\ pc[p] = "working"
    /\ LET s == Call(p).store
           left == Left(s, Call(p).tier)
       IN  /\ Keep(s, left)
           /\ removed' = [removed EXCEPT ![p] = @ + Size(s) - left.old - left.fresh]
    /\ pc' = [pc EXCEPT ![p] = "done"]
    /\ UNCHANGED <<strays, holder, sweeping, walk, ended, before, gaveUp, overBudget, writes, faults>>

\* The work fails, with a part of it done: one of two prunes, a helper that is cut short
\* by its ten minutes or its context.  The removal of the helper may fail too, and nobody
\* looks at that.
Fail(p) ==
    /\ \/ pc[p] = "refused" /\ UNCHANGED <<old, fresh, strays, faults>>
       \/ /\ pc[p] = "working"
          /\ \E kept \in PartLeft(Call(p).store, Call(p).tier) : Keep(Call(p).store, kept)
          /\ \/ p \in ended /\ UNCHANGED <<strays, faults>>
             \/ /\ faults < config.maxFaults /\ faults' = faults + 1
                /\ strays' = strays \/ (GoesOn(Call(p)) /\ strays' = strays \cup {Call(p)})
    /\ holder' = [holder EXCEPT ![Call(p).store] = NoOne]
    /\ todo' = [todo EXCEPT ![p] = Tail(@)]
    /\ pc' = [pc EXCEPT ![p] = "call"]
    /\ before' = [before EXCEPT ![p] = 0] /\ removed' = [removed EXCEPT ![p] = 0]
    /\ overBudget' = [overBudget EXCEPT ![p] = NoOne]
    /\ UNCHANGED <<writes, sweeping, pass, groups, at, ended, gaveUp>>

\* What was left behind deletes on, without the semaphore, and comes to an end some time.
StrayWorks(call) ==
    /\ call \in strays
    /\ \E kept \in PartLeft(call.store, call.tier) :
          /\ Keep(call.store, kept)
          /\ removed' = [p \in Proc |-> removed[p] +
                 IF p = holder[call.store] THEN Size(call.store) - kept.old - kept.fresh ELSE 0]
    /\ strays' \in {strays, strays \ {call}}
    /\ UNCHANGED <<writes, holder, sweeping, pc, walk, ended, before, gaveUp, overBudget, faults>>

\* What reclaimAndMeasureFreed reports: the two measurements, never below zero.
Freed(p) == Max({0, before[p] - Size(Call(p).store)})

\* A mutant: any budget that is exceeded wipes the store.
NextCalls_WarnWipes(p) ==
    LET s == Call(p).store
    IN  IF Call(p).tier = Measuring /\ Size(s) > Budget[s] /\ 4 \in TiersFor(KindOf(s))
        THEN <<[store |-> s, tier |-> 4]>> \o Tail(todo[p]) ELSE Tail(todo[p])

\* What follows the call: enforceBudgets wipes a store it measured over its budget, when
\* its policy says so and its kind may be wiped at all.
NextCalls(p) ==
    LET s == Call(p).store
    IN  IF /\ Call(p).tier = Measuring
           /\ Size(s) > Budget[s] /\ OnExceed[s] = "wipe" /\ 4 \in TiersFor(KindOf(s))
        THEN <<[store |-> s, tier |-> 4]>> \o Tail(todo[p]) ELSE Tail(todo[p])

\* The operation measures again, gives the semaphore back and returns.
Finish(p) ==
    /\ pc[p] = "done"
    /\ LET s == Call(p).store
       IN  /\ holder' = [holder EXCEPT ![s] = IF @ = p THEN NoOne ELSE @]
           /\ overBudget' = [overBudget EXCEPT ![p] =
                   IF Call(p).tier = Measuring /\ Size(s) > Budget[s] THEN s ELSE NoOne]
    /\ todo' = [todo EXCEPT ![p] = NextCalls(p)]
    /\ pc' = [pc EXCEPT ![p] = "call"]
    /\ before' = [before EXCEPT ![p] = 0] /\ removed' = [removed EXCEPT ![p] = 0]
    /\ UNCHANGED <<data, sweeping, pass, groups, at, ended, gaveUp, faults>>

-----------------------------------------------------------------------------
(* Guard.Sweep.                                                            *)

\* One call at a tier of each of some stores, in the order of g.stores.
Calls(stores, tier) ==
    LET first[i \in 0..Len(Store)] ==
            IF i = 0 THEN <<>>
            ELSE IF Store[i] \in stores THEN Append(first[i - 1], [store |-> Store[i], tier |-> tier])
            ELSE first[i - 1]
    IN  first[Len(Store)]

\* enforceBudgets: the stores with a budget, in order.
BudgetCalls == Calls({s \in Stores : Budget[s] > 0}, Measuring)

\* The calls of one tier on one filesystem.
TierCalls(stores, tier) == Calls({s \in stores : InScope(s, tier)}, tier)

\* TryLock succeeds: the sweep begins with the budgets.
BeginSweep(p) ==
    /\ sweeping = NoOne
    /\ sweeping' = p
    /\ pc' = [pc EXCEPT ![p] = "call"]
    /\ pass' = [pass EXCEPT ![p] = "budget"]
    /\ todo' = [todo EXCEPT ![p] = BudgetCalls]
    /\ UNCHANGED <<data, holder, groups, at, ended, ghosts, faults>>

\* statByFilesystem: one look at every filesystem, before any of them is swept.  A store
\* whose path cannot be read is left out.
StatByFilesystem(p) ==
    /\ pc[p] = "call" /\ pass[p] = "budget" /\ todo[p] = <<>>
    /\ \E unread \in {u \in SUBSET Stores : Cardinality(u) <= config.maxFaults - faults} :
        /\ faults' = faults + Cardinality(unread)
        /\ groups' = [groups EXCEPT ![p] =
               {[fs |-> f, free |-> Free(f), stores |-> {s \in Stores \ unread : FsOf[s] = f}] :
                    f \in {FsOf[s] : s \in Stores \ unread}}]
    /\ pass' = [pass EXCEPT ![p] = "ladder"]
    /\ UNCHANGED <<data, holder, sweeping, pc, todo, at, ended, ghosts>>

\* sweepFilesystem takes the next filesystem: it is healthy by the look taken at the
\* beginning, or its ladder starts at tier 1.
TakeFilesystem(p) ==
    /\ pc[p] = "call" /\ pass[p] = "ladder" /\ at[p].tier = 0
    /\ \E g \in groups[p] :
        /\ groups' = [groups EXCEPT ![p] = @ \ {g}]
        /\ IF g.free >= BytesOf(config.minFree, config.total[g.fs])
           THEN UNCHANGED <<at, todo>>
           ELSE /\ at' = [at EXCEPT ![p] = [fs |-> g.fs, stores |-> g.stores, tier |-> 1]]
                /\ todo' = [todo EXCEPT ![p] = TierCalls(g.stores, 1)]
    /\ UNCHANGED <<data, holder, sweeping, pc, pass, ended, ghosts, faults>>

\* A mutant: the ladder never stops at max-tier.
TierDone_PastMaxTier(p) ==
    /\ pc[p] = "call" /\ pass[p] = "ladder" /\ at[p].tier > 0 /\ todo[p] = <<>>
    /\ IF AtTarget(at[p].fs) \/ at[p].tier = 4
       THEN at' = [at EXCEPT ![p] = Nowhere] /\ UNCHANGED todo
       ELSE /\ at' = [at EXCEPT ![p].tier = @ + 1]
            /\ todo' = [todo EXCEPT ![p] = TierCalls(at[p].stores, at[p].tier + 1)]
    /\ UNCHANGED <<data, holder, sweeping, pc, pass, groups, ended, ghosts, faults>>

\* All stores of the tier have been called: the filesystem is looked at again, and the
\* ladder ends at the target, at max-tier (warnShortfall), or goes one tier up.
TierDone(p) ==
    /\ pc[p] = "call" /\ pass[p] = "ladder" /\ at[p].tier > 0 /\ todo[p] = <<>>
    /\ IF AtTarget(at[p].fs) \/ at[p].tier = MaxTier
       THEN at' = [at EXCEPT ![p] = Nowhere] /\ UNCHANGED todo
       ELSE /\ at' = [at EXCEPT ![p].tier = @ + 1]
            /\ todo' = [todo EXCEPT ![p] = TierCalls(at[p].stores, at[p].tier + 1)]
    /\ UNCHANGED <<data, holder, sweeping, pc, pass, groups, ended, ghosts, faults>>

\* The second look fails: nothing more is reclaimed on this filesystem.
RestatFails(p) ==
    /\ pc[p] = "call" /\ pass[p] = "ladder" /\ at[p].tier > 0 /\ todo[p] = <<>>
    /\ faults < config.maxFaults /\ faults' = faults + 1
    /\ at' = [at EXCEPT ![p] = Nowhere]
    /\ UNCHANGED <<data, holder, sweeping, pc, todo, pass, groups, ended, ghosts>>

SweepOver(p) ==
    pc[p] = "call" /\ pass[p] = "ladder" /\ at[p].tier = 0 /\ groups[p] = {} /\ todo[p] = <<>>


\* Every filesystem has been looked at: Sweep unlocks and returns nil.
EndSweep(p) ==
    /\ SweepOver(p)
    /\ sweeping' = NoOne
    /\ pc' = [pc EXCEPT ![p] = IF p = Guard THEN "idle" ELSE "started"]
    /\ pass' = [pass EXCEPT ![p] = "routine"]
    /\ gaveUp' = gaveUp \ {p}
    /\ UNCHANGED <<data, holder, todo, groups, at, ended, before, removed, overBudget, faults>>

-----------------------------------------------------------------------------
(* The callers.                                                            *)

\* The ticker of startDiskGuard, its first sweep at startup included.  A tick that finds
\* a sweep in progress does nothing.
Tick == pc[Guard] = "idle" /\ BeginSweep(Guard)

\* startInstance asks NeedsReclaim: one statfs per filesystem.
CheckDisk(p) ==
    /\ p \in Checker /\ pc[p] = "idle"
    /\ pc' = [pc EXCEPT ![p] = IF \E s \in Stores : Low(FsOf[s]) THEN "check" ELSE "started"]
    /\ UNCHANGED <<data, holder, sweeping, walk, ended, ghosts, faults>>

\* NeedsReclaim cannot tell because no filesystem can be read: the runner starts anyway.
CheckFails(p) ==
    /\ p \in Checker /\ pc[p] = "idle"
    /\ faults < config.maxFaults /\ faults' = faults + 1
    /\ pc' = [pc EXCEPT ![p] = "started"]
    /\ UNCHANGED <<data, holder, sweeping, walk, ended, ghosts>>

\* reclaimBeforeStart: the sweep of a runner start, or the one in progress is enough.
ReclaimBeforeStart(p) == p \in Checker /\ pc[p] = "check" /\ BeginSweep(p)

SweepInProgress(p) ==
    /\ p \in Checker /\ pc[p] = "check"
    /\ sweeping # NoOne
    /\ pc' = [pc EXCEPT ![p] = "started"]
    /\ UNCHANGED <<data, holder, sweeping, walk, ended, ghosts, faults>>

\* preJobReclaimTimeout is over.
Expire(p) ==
    /\ p \in Checker /\ sweeping = p /\ p \notin ended
    /\ ended' = ended \cup {p}
    /\ UNCHANGED <<data, holder, sweeping, pc, walk, ghosts, faults>>

\* The ticker of startSharedVolumeCleanup, startBuildxCleanup, startDockerPrune or
\* startTartCacheCleanup, the first round at startup included.
BeginRound(w) ==
    /\ w \in Sweeper /\ pc[w] = "idle"
    /\ pc' = [pc EXCEPT ![w] = "call"]
    /\ todo' = [todo EXCEPT ![w] = Rounds[w]]
    /\ UNCHANGED <<data, holder, sweeping, pass, groups, at, ended, ghosts, faults>>

EndRound(w) ==
    /\ w \in Sweeper /\ pc[w] = "call" /\ todo[w] = <<>>
    /\ pc' = [pc EXCEPT ![w] = "idle"]
    /\ gaveUp' = gaveUp \ {w}
    /\ UNCHANGED <<data, holder, sweeping, walk, ended, before, removed, overBudget, faults>>

\* The process shuts down: every context ends, and the tickers stop between rounds.
Shutdown ==
    /\ ended # Proc
    /\ ended' = Proc
    /\ UNCHANGED <<data, holder, sweeping, pc, walk, ghosts, faults>>

Stop(p) ==
    /\ p \in {Guard} \cup Sweeper /\ p \in ended /\ pc[p] = "idle"
    /\ pc' = [pc EXCEPT ![p] = "stopped"]
    /\ UNCHANGED <<data, holder, sweeping, walk, ended, ghosts, faults>>

-----------------------------------------------------------------------------
(* Jobs and time.                                                          *)

\* A job writes a unit into a store.
Write(s) ==
    /\ writes < config.maxWrites /\ Free(FsOf[s]) > 0
    /\ fresh' = [fresh EXCEPT ![s] = @ + 1]
    /\ writes' = writes + 1
    /\ UNCHANGED <<old, strays, holder, sweeping, pc, walk, ended, ghosts, faults>>

\* A unit gets older than the store's retention.
Age(s) ==
    /\ fresh[s] > 0
    /\ fresh' = [fresh EXCEPT ![s] = @ - 1]
    /\ old' = [old EXCEPT ![s] = @ + 1]
    /\ UNCHANGED <<strays, writes, holder, sweeping, pc, walk, ended, ghosts, faults>>

-----------------------------------------------------------------------------
\* Steps of a sweep or a round that is under way.
Walk(p) ==
    \/ Acquire(p) \/ GiveUp(p) \/ Work(p) \/ Fail(p) \/ Finish(p)
    \/ StatByFilesystem(p) \/ TakeFilesystem(p) \/ TierDone(p) \/ RestatFails(p)
    \/ EndSweep(p) \/ EndRound(p)

Start(p) == CheckDisk(p) \/ CheckFails(p) \/ ReclaimBeforeStart(p) \/ SweepInProgress(p)

Jobs == \E s \in Stores : Write(s) \/ Age(s)

Next ==
    \/ \E p \in Proc : Walk(p) \/ Start(p) \/ Expire(p) \/ BeginRound(p) \/ Stop(p)
    \/ Tick \/ Shutdown \/ Jobs
    \/ \E call \in strays : StrayWorks(call)

Spec == Init /\ [][Next /\ UNCHANGED config]_<<vars, config>>

\* The forced removal that runVolumeHelper defers has no deadline: a daemon that does not
\* answer keeps the caller, with the semaphore of the store.
Stuck(p) ==
    /\ p \in config.hung /\ pc[p] \in {"working", "done"}
    /\ TypeOf[Call(p).store] \in {"shared", "cache"}

\* The tickers tick, code runs, a deadline passes, and operations come back (each has a
\* ten minute bound), but for the removal of a volume's helper.
Fairness ==
    /\ WF_vars(Tick)
    /\ \A p \in {Guard} \cup Starts \cup Sweepers :
          WF_vars(p \in Proc /\ ~Stuck(p) /\ Walk(p)) /\ WF_vars(p \in Proc /\ Start(p))
    /\ \A p \in Starts : WF_vars(Expire(p))

FairSpec == Spec /\ Fairness

-----------------------------------------------------------------------------
(* Properties.                                                             *)

TypeOK ==
    /\ old \in [Stores -> Nat] /\ fresh \in [Stores -> Nat]
    /\ holder \in [Stores -> Proc \cup {NoOne}]
    /\ sweeping \in {Guard, NoOne} \cup Checker
    /\ pc \in [Proc -> {"idle", "check", "call", "working", "refused", "done", "started", "stopped"}]
    /\ pass \in [Proc -> {"routine", "budget", "ladder"}]
    /\ \A p \in Proc : /\ \A i \in DOMAIN todo[p] : todo[p][i].store \in Stores
                        /\ at[p].tier \in 0..MaxTier
    /\ \A f \in DOMAIN config.total : Free(f) >= 0
    /\ ended \subseteq Proc /\ gaveUp \subseteq Proc
    /\ strays \subseteq [store : Stores, tier : Tiers]

\* No operation of a store ever reports as freed what another caller deleted: two passes
\* over one store do not measure each other's deletions (serialized, store.go).  Only what a
\* failed operation left at work in the store is reported as if it were its own.
FreedIsOwn == \A p \in Proc : pc[p] = "done" => Freed(p) <= removed[p]

Deletes(p, s) == (Work(p) \/ Fail(p)) /\ s = Call(p).store /\ old'[s] + fresh'[s] < old[s] + fresh[s]

\* The guard deletes at a costlier tier only in a sweep that has called every milder store
\* and let it run or fail: one another caller was busy with is waited for, and never counts
\* as one that had nothing to give (serialized.acquire, sweepFilesystem).
EscalatesOnWork ==
    [][\A p \in Proc, s \in Stores :
          (Deletes(p, s) /\ pass[p] = "ladder" /\ Call(p).tier > 1) => p \notin gaveUp]_vars

\* Files of a shared volume within its max age are never deleted, by any caller at any tier,
\* nor by what a failed call left behind: there are fewer of them only as they age.
UnexpiredScratchKept ==
    [][\A s \in Stores : (TypeOf[s] = "shared" /\ fresh'[s] < fresh[s]) => Age(s)]_vars

\* Max-tier, or a budget the store was just measured to exceed, allows the wipe of a cache.
WipeDue(s) == MaxTier = 4 \/ (OnExceed[s] = "wipe" /\ \E p \in Proc : overBudget[p] = s)

\* A cache volume is wiped only if max-tier allows tier 4, or if the process that does it
\* has measured it over a budget whose policy is to wipe; all else that takes from it is the
\* rest of a wipe that was due when it began.
CacheVolumeKept ==
    [][\A s \in Stores : TypeOf[s] = "cache" =>
          /\ Size(s)' < Size(s) => WipeDue(s) \/ \E call \in strays : call.store = s /\ StrayWorks(call)
          /\ [store |-> s, tier |-> 4] \in strays' \ strays => WipeDue(s)]_vars

\* A runner start that finds the disk low has not begun yet.
Held(p) == p \in Checker /\ pc[p] \notin {"idle", "started"}

\* A runner start that reclaims first goes on, whoever holds the stores and for how long,
\* unless it is the removal of its own helper that the daemon does not answer.
StartReleased == \A p \in Starts : Held(p) ~> (~Held(p) \/ Stuck(p))

\* Some tier the guard may use would still free something of s.
Reclaimable(s) ==
    \E tier \in TiersFor(KindOf(s)) : tier <= MaxTier /\ Left(s, tier) # Kept(old[s], fresh[s])

InNeed(s) == Low(FsOf[s]) /\ Reclaimable(s)


\* A sweep judges by what it has done itself: what it reports as freed is not the work of
\* another caller, and no busy store makes it escalate.
SweepsOnOwnWork == [](TypeOK /\ FreedIsOwn) /\ EscalatesOnWork

\* Whatever the pressure, data with a promise on it is kept: fresh files of a shared
\* volume, and cache volumes that nothing configured to be wiped.
RetainedDataKept == UnexpiredScratchKept /\ CacheVolumeKept

=============================================================================
