--------------------------- MODULE CapacityBroker ---------------------------
(***************************************************************************)
(* internal/capacity/broker.go: the process-wide Broker that hands out     *)
(* instance slots to the scale sets ("groups") of one runner process.      *)
(*                                                                         *)
(* A caller is one Acquire call together with the lease it may get: the    *)
(* goroutine that is waiting for a slot, and afterwards the instance that  *)
(* owns it until Release.  All the code between b.mu.Lock and b.mu.Unlock  *)
(* is one critical section; it takes several steps here because            *)
(* dispatchLocked is a loop, and nobody else may enter meanwhile.          *)
(*                                                                         *)
(* The slice b.waiters is the set `waiters` plus, for each waiter, the set *)
(* of those in front of it: the code only ever appends, removes, and walks *)
(* from the front.                                                         *)
(***************************************************************************)
EXTENDS Integers, FiniteSets

CONSTANTS
    Groups,     \* the registered scale sets
    Minimum,    \* their min-runners
    Limit,      \* the process-wide limit; unlimited when not positive
    Callers,    \* Acquire calls, each reusable after its lease is released
    GroupOf     \* the group whose Allocator a caller uses

ASSUME GroupsAssumption == IsFiniteSet(Groups)

ASSUME MinimumAssumption == Minimum \in [Groups -> Nat]

ASSUME LimitAssumption == Limit \in Int

ASSUME CallersAssumption ==
    IsFiniteSet(Callers) /\ GroupOf \in [Callers -> Groups]

\* The slots the minimums add up to.
Floor == UNION {{g} \X (1 .. Minimum[g]) : g \in Groups}

\* ValidateConcurrent: the limit can satisfy every promised minimum at once.
ASSUME FloorAssumption == Limit > 0 => Cardinality(Floor) <= Limit

VARIABLES
    phase,        \* where each caller is in Acquire or Release
    waiters,      \* the callers whose waiter is in b.waiters
    ahead,        \* for each of them, the waiters in front of it
    cancelled,    \* waiters with w.cancelled set
    leased,       \* callers granted a lease that has not been released
    inUse,        \* b.inUse
    groupInUse    \* group.inUse

vars == <<phase, waiters, ahead, cancelled, leased, inUse, groupInUse>>

\* A caller inside the critical section holds b.mu.
Critical == {"acquiring", "cancelling", "releasing"}

Phases == {"idle", "waiting", "unwinding", "holding", "released"} \cup Critical

MutexFree == \A c \in Callers : phase[c] \notin Critical

-----------------------------------------------------------------------------
(***************************************************************************)
(* Which waiter the dispatcher serves next.                                *)
(***************************************************************************)

HasRoom == Limit <= 0 \/ inUse < Limit

BelowMinimum(g) == groupInUse[g] < Minimum[g]

\* The slots still missing from the minimum of each group.  The code adds
\* minimum - inUse over the groups below their minimum; that sum is the number
\* of these tokens.
MissingOf(g) == {g} \X (groupInUse[g] + 1 .. Minimum[g])

Missing == UNION {MissingOf(g) : g \in Groups}

\* Faulty variants (each named after what it forgets) are replaced for the
\* definition that follows them to show that a property depends on it.
SurplusAvailable_Unreserved(g) == Limit <= 0 \/ inUse < Limit

SurplusAvailable_OffByOne(g) ==
    Limit <= 0 \/ Limit - inUse >= Cardinality({s \in Missing : s[1] # g})

SurplusAvailable(g) ==
    \/ Limit <= 0
    \/ Limit - inUse - 1 >= Cardinality({s \in Missing : s[1] # g})

Eligible(c) ==
    /\ c \in waiters \ cancelled
    /\ BelowMinimum(GroupOf[c]) \/ SurplusAvailable(GroupOf[c])

IsNext_LastCome(c) ==
    Eligible(c) /\ \A d \in waiters : Eligible(d) /\ d # c => c \notin ahead[d]

\* The first eligible waiter below its minimum or, when there is none, the
\* first eligible surplus waiter.
IsNext(c) ==
    /\ Eligible(c)
    /\ \A d \in waiters :
          Eligible(d) /\ d # c =>
             IF BelowMinimum(GroupOf[c])
             THEN BelowMinimum(GroupOf[d]) => d \notin ahead[c]
             ELSE ~BelowMinimum(GroupOf[d]) /\ d \notin ahead[c]

\* b.waiters without the callers in S.
Dequeue(S) ==
    /\ waiters' = waiters \ S
    /\ ahead' = [c \in Callers |-> IF c \in S THEN {} ELSE ahead[c] \ S]

-----------------------------------------------------------------------------

\* NewBroker, and every Register done before the first Acquire.
Init ==
    /\ phase = [c \in Callers |-> "idle"]
    /\ waiters = {}
    /\ ahead = [c \in Callers |-> {}]
    /\ cancelled = {}
    /\ leased = {}
    /\ inUse = 0
    /\ groupInUse = [g \in Groups |-> 0]

\* Acquire takes the mutex and appends its waiter; the dispatch follows.
Acquire(c) ==
    /\ MutexFree
    /\ phase[c] \in {"idle", "released"}
    /\ phase' = [phase EXCEPT ![c] = "acquiring"]
    /\ waiters' = waiters \cup {c}
    /\ ahead' = [ahead EXCEPT ![c] = waiters]
    /\ UNCHANGED <<cancelled, leased, inUse, groupInUse>>

\* One iteration of dispatchLocked: the next waiter gets a lease.
DispatchGrant ==
    /\ ~MutexFree
    /\ HasRoom
    /\ \E c \in waiters :
          /\ IsNext(c)
          /\ Dequeue({c})
          /\ leased' = leased \cup {c}
          /\ inUse' = inUse + 1
          /\ groupInUse' = [groupInUse EXCEPT ![GroupOf[c]] = @ + 1]
    /\ UNCHANGED <<phase, cancelled>>

\* dispatchLocked finds nobody to serve, drops the cancelled waiters and
\* returns; its caller unlocks and goes on.
DispatchEnd(c) ==
    /\ ~(HasRoom /\ \E d \in waiters : IsNext(d))
    /\ Dequeue(cancelled)
    /\ cancelled' = {}
    /\ \/ /\ phase[c] = "acquiring"
          /\ phase' = [phase EXCEPT ![c] = IF c \in leased THEN "holding" ELSE "waiting"]
       \/ /\ phase[c] = "cancelling"
          /\ phase' = [phase EXCEPT ![c] = "idle"]
       \/ /\ phase[c] = "releasing"
          /\ phase' = [phase EXCEPT ![c] = "released"]
    /\ UNCHANGED <<leased, inUse, groupInUse>>

\* The select sees w.ready closed.
TakeGrant(c) ==
    /\ phase[c] = "waiting"
    /\ c \in leased
    /\ phase' = [phase EXCEPT ![c] = "holding"]
    /\ UNCHANGED <<waiters, ahead, cancelled, leased, inUse, groupInUse>>

AbandonGranted_Dropped(c) ==
    /\ MutexFree
    /\ phase[c] = "waiting"
    /\ c \in leased
    /\ phase' = [phase EXCEPT ![c] = "idle"]
    /\ UNCHANGED <<waiters, ahead, cancelled, leased, inUse, groupInUse>>

\* The select sees ctx.Done, but by the time the mutex is taken the waiter has
\* been granted: the lease is to be released.
AbandonGranted(c) ==
    /\ MutexFree
    /\ phase[c] = "waiting"
    /\ c \in leased
    /\ phase' = [phase EXCEPT ![c] = "unwinding"]
    /\ UNCHANGED <<waiters, ahead, cancelled, leased, inUse, groupInUse>>

\* The select sees ctx.Done and the waiter is still in the queue.
AbandonWaiting(c) ==
    /\ MutexFree
    /\ phase[c] = "waiting"
    /\ c \notin leased
    /\ phase' = [phase EXCEPT ![c] = "cancelling"]
    /\ cancelled' = cancelled \cup {c}
    /\ UNCHANGED <<waiters, ahead, leased, inUse, groupInUse>>

ReleaseFirst_NoDispatch(c) ==
    /\ MutexFree
    /\ phase[c] \in {"holding", "unwinding"}
    /\ phase' = [phase EXCEPT ![c] = "released"]
    /\ leased' = leased \ {c}
    /\ inUse' = inUse - 1
    /\ groupInUse' = [groupInUse EXCEPT ![GroupOf[c]] = @ - 1]
    /\ UNCHANGED <<waiters, ahead, cancelled>>

\* Lease.Release gives the slot back and dispatches.
ReleaseFirst(c) ==
    /\ MutexFree
    /\ phase[c] \in {"holding", "unwinding"}
    /\ phase' = [phase EXCEPT ![c] = "releasing"]
    /\ leased' = leased \ {c}
    /\ inUse' = inUse - 1
    /\ groupInUse' = [groupInUse EXCEPT ![GroupOf[c]] = @ - 1]
    /\ UNCHANGED <<waiters, ahead, cancelled>>

ReleaseAgain_NotOnce(c) ==
    /\ MutexFree
    /\ phase[c] = "released"
    /\ inUse > -2
    /\ inUse' = inUse - 1
    /\ groupInUse' = [groupInUse EXCEPT ![GroupOf[c]] = @ - 1]
    /\ UNCHANGED <<phase, waiters, ahead, cancelled, leased>>

\* Another path (job completed, crash, drain, shutdown) releases the same lease
\* again: sync.Once makes it return at once.
ReleaseAgain(c) ==
    /\ phase[c] = "released"
    /\ UNCHANGED vars

Release(c) == ReleaseFirst(c) \/ ReleaseAgain(c)

Next ==
    \/ DispatchGrant
    \/ \E c \in Callers :
          \/ Acquire(c)
          \/ DispatchEnd(c)
          \/ TakeGrant(c)
          \/ AbandonGranted(c)
          \/ AbandonWaiting(c)
          \/ Release(c)

Spec == Init /\ [][Next]_vars

(***************************************************************************)
(* Fairness.  The goroutine holding the mutex runs to its unlock, sync.Mutex *)
(* does not starve a goroutine that wants it (hence the strong fairness), a *)
(* closed w.ready wakes its select, and a lease found granted at ctx.Done  *)
(* is released.  Of the leases in use only those above the minimum of      *)
(* their scale set are sure to come back: a surplus runner finishes its    *)
(* job or is scaled down, an idle runner within the minimum may stay for   *)
(* ever.  Nobody is obliged to call Acquire or to cancel.                  *)
(***************************************************************************)
SurplusRelease(g) ==
    /\ groupInUse[g] > Minimum[g]
    /\ \E c \in Callers :
          GroupOf[c] = g /\ phase[c] = "holding" /\ ReleaseFirst(c)

Fairness ==
    /\ WF_vars(DispatchGrant)
    /\ \A c \in Callers :
          /\ WF_vars(DispatchEnd(c))
          /\ WF_vars(TakeGrant(c))
          /\ SF_vars(phase[c] = "unwinding" /\ ReleaseFirst(c))
    /\ \A g \in Groups : SF_vars(SurplusRelease(g))

FairSpec == Spec /\ Fairness

-----------------------------------------------------------------------------
(***************************************************************************)
(* Properties.                                                             *)
(***************************************************************************)

\* The types of the variables: the counters never go negative.
TypeOK ==
    /\ phase \in [Callers -> Phases]
    /\ waiters \in SUBSET Callers
    /\ ahead \in [Callers -> SUBSET Callers]
    /\ cancelled \in SUBSET Callers
    /\ leased \in SUBSET Callers
    /\ inUse \in Nat
    /\ groupInUse \in [Groups -> Nat]

LeasedBy(g) == {c \in leased : GroupOf[c] = g}

\* The counters agree with the leases that exist: whatever the order of
\* grants, cancellations and repeated releases, no slot is counted twice and
\* none is lost.
Accounting ==
    /\ inUse = Cardinality(leased)
    /\ \A g \in Groups : groupInUse[g] = Cardinality(LeasedBy(g))

\* Every outstanding lease is in the hands of somebody who can release it: the
\* race between a grant and ctx.Done never strands a slot, and a lease that was
\* handed to a caller stays counted until that caller releases it.
NoStrandedLease ==
    \A c \in Callers :
       /\ c \in leased => phase[c] \in {"acquiring", "waiting", "unwinding", "holding"}
       /\ phase[c] \in {"unwinding", "holding"} => c \in leased

\* "Capacity needed to satisfy another scale set's minimum is reserved": at
\* every moment the slots in use together with those still missing from the
\* minimums fit in the limit.
MinimumsReserved ==
    Limit > 0 => inUse + Cardinality(Missing) <= Limit

\* The corollary the operator of the host relies on.
LimitRespected == Limit > 0 => inUse <= Limit

\* When the broker is at rest no scale set waits below its minimum, however
\* much surplus the others hold.
MinimumNeverWaits ==
    MutexFree => \A c \in waiters : ~BelowMinimum(GroupOf[c])

\* No lost wake-up: at rest, nobody who could be served is still waiting, and
\* everybody who is in select without a lease is in the queue.
NobodyForgotten ==
    MutexFree =>
       /\ ~(HasRoom /\ \E c \in waiters : Eligible(c))
       /\ \A c \in Callers : phase[c] = "waiting" => c \in waiters \cup leased

\* FIFO within each class: a grant passes an earlier waiter only to serve a
\* scale set that is below its minimum, and never one of the same scale set.
GrantsInOrder ==
    [][\A c \in leased' \ leased : \A d \in ahead[c] \ cancelled :
          /\ BelowMinimum(GroupOf[c])
          /\ ~BelowMinimum(GroupOf[d])
          /\ GroupOf[c] # GroupOf[d]]_vars

\* When the limit leaves room above the minimums, every waiter is eventually
\* served or gives up, even though idle runners within the minimums may keep
\* their slots for ever.
WaiterServed ==
    \A c \in Callers : phase[c] = "waiting" ~> phase[c] # "waiting"

-----------------------------------------------------------------------------

\* What the broker promises, free of queues and locks.
Promise == INSTANCE CapacityPromise WITH using <- leased, pending <- waiters

PromiseSpec == Promise!Spec

\* The books of the broker: its counters have their types, equal the leases that exist,
\* and leave room for every reserved minimum.
Books == TypeOK /\ Accounting /\ MinimumsReserved

\* Whenever the mutex is free nobody waits who could be served, and nobody at all below
\* its minimum.
Served == NobodyForgotten /\ MinimumNeverWaits

=============================================================================
