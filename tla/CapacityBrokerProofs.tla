------------------------ MODULE CapacityBrokerProofs ------------------------
(***************************************************************************)
(* Theorems about CapacityBroker for every set of scale sets, minimums,    *)
(* limit and callers.                                                      *)
(*                                                                         *)
(* The counters say how many leases there are (Accounting), which needs    *)
(* that a waiter in the queue has no lease (QueueOK); what is reserved     *)
(* fits in the limit (MinimumsReserved), hence a waiter below its minimum  *)
(* always finds room; the queue is strictly ordered (OrderOK), hence it    *)
(* has a first such waiter and the dispatcher does not stop before it is   *)
(* served (MinimumNeverWaits).                                             *)
(***************************************************************************)
EXTENDS CapacityBroker, FiniteSetTheorems, TLAPS

\* TypeOK with integer counters: that they are never negative follows from
\* Accounting, and only then.
Typed ==
    /\ phase \in [Callers -> Phases]
    /\ waiters \in SUBSET Callers
    /\ ahead \in [Callers -> SUBSET Callers]
    /\ cancelled \in SUBSET Callers
    /\ leased \in SUBSET Callers
    /\ inUse \in Int
    /\ groupInUse \in [Groups -> Int]

\* Mutual exclusion of the critical sections.
Serial ==
    \A c, d \in Callers : phase[c] \in Critical /\ phase[d] \in Critical => c = d

\* Who is in the queue: exactly the callers that asked and were not granted.
QueueOK ==
    /\ \A c \in waiters : phase[c] \in {"acquiring", "waiting", "cancelling"} /\ c \notin leased
    /\ \A c \in Callers :
          phase[c] \in {"acquiring", "waiting", "cancelling"} => c \in waiters \cup leased
    /\ \A c \in Callers : c \in cancelled <=> phase[c] = "cancelling"

\* "In front of" is a strict order on the queue.
OrderOK ==
    \A c \in waiters :
       /\ c \notin ahead[c]
       /\ ahead[c] \subseteq waiters
       /\ \A d \in ahead[c] : ahead[d] \subseteq ahead[c]

\* Nobody below its minimum waits, and nobody below its minimum is cancelled.
PriorityOK ==
    /\ MinimumNeverWaits
    /\ \A c \in cancelled : ~BelowMinimum(GroupOf[c])

IInv ==
    /\ Typed
    /\ Serial
    /\ QueueOK
    /\ OrderOK
    /\ Accounting
    /\ NoStrandedLease
    /\ MinimumsReserved
    /\ PriorityOK

-----------------------------------------------------------------------------

(***************************************************************************)
(* The slots missing from the minimums are a finite set.                   *)
(***************************************************************************)
LEMMA FiniteUnion ==
  ASSUME NEW m \in [Groups -> Int]
  PROVE  IsFiniteSet(UNION {{g} \X (m[g] + 1 .. Minimum[g]) : g \in Groups})
<1> DEFINE f == [g \in Groups |-> {g} \X (m[g] + 1 .. Minimum[g])]
           T == {{g} \X (m[g] + 1 .. Minimum[g]) : g \in Groups}
<1>1. f \in Surjection(Groups, T)
  BY DEF Surjection
<1>2. IsFiniteSet(T)
  BY <1>1, FS_Surjection, GroupsAssumption
<1>3. \A g \in Groups : IsFiniteSet({g} \X (m[g] + 1 .. Minimum[g]))
  <2> TAKE g \in Groups
  <2>1. m[g] + 1 \in Int /\ Minimum[g] \in Int
    BY MinimumAssumption
  <2>2. IsFiniteSet(m[g] + 1 .. Minimum[g])
    BY <2>1, FS_Interval
  <2>3. IsFiniteSet({g})
    BY FS_Singleton
  <2> QED BY <2>2, <2>3, FS_Product
<1>4. \A t \in T : IsFiniteSet(t)
  BY <1>3
<1> QED BY <1>2, <1>4, FS_UNION

LEMMA MissingFinite ==
  ASSUME Typed
  PROVE  IsFiniteSet(Missing)
BY FiniteUnion DEF Missing, MissingOf, Typed

\* Membership in Missing, without the product.
LEMMA MissingMember ==
  \A s : s \in Missing <=>
           \E g \in Groups : \E i \in groupInUse[g] + 1 .. Minimum[g] : s = <<g, i>>
BY DEF Missing, MissingOf

LEMMA LeasedFinite ==
  ASSUME Typed
  PROVE  IsFiniteSet(leased) /\ \A g \in Groups : IsFiniteSet(LeasedBy(g))
<1>1. IsFiniteSet(leased)
  BY CallersAssumption, FS_Subset DEF Typed
<1>2. \A g \in Groups : LeasedBy(g) \in SUBSET leased
  BY DEF LeasedBy
<1> QED BY <1>1, <1>2, FS_Subset

\* A set of waiters that is not empty has a first element.
LEMMA FirstWaiter ==
  ASSUME Typed, OrderOK, NEW W \in SUBSET waiters, W # {}
  PROVE  \E c \in W : \A d \in W : d \notin ahead[c]
<1> DEFINE R == StrictSubsetOrdering(Callers)
           T == {ahead[c] : c \in W}
<1>1. IsWellFoundedOn(R, FiniteSubsetsOf(Callers))
  BY FS_StrictSubsetOrderingWellFounded
<1>2. T \subseteq FiniteSubsetsOf(Callers)
  BY CallersAssumption, FS_FiniteSubsetsOfFinite DEF Typed
<1>3. T # {}
  OBVIOUS
<1>4. PICK t \in T : \A u \in T : ~ (<<u, t>> \in R)
  <2> HIDE DEF R, T
  <2> QED BY <1>1, <1>2, <1>3, WFMin
<1>5. PICK c \in W : t = ahead[c]
  OBVIOUS
<1>6. ASSUME NEW d \in W, d \in ahead[c] PROVE FALSE
  <2>1. ahead[d] \subseteq ahead[c] /\ d \notin ahead[d]
    BY <1>6 DEF OrderOK
  <2>2. ahead[d] # ahead[c]
    BY <1>6, <2>1
  <2>3. <<ahead[d], ahead[c]>> \in R
    BY <2>1, <2>2 DEF StrictSubsetOrdering, Typed
  <2> QED BY <1>4, <1>5, <2>3
<1> QED BY <1>6

(***************************************************************************)
(* Types.                                                                  *)
(***************************************************************************)
LEMMA InitTyped == Init => Typed
BY DEF Init, Typed, Phases, Critical

LEMMA NextTyped == Typed /\ [Next]_vars => Typed'
<1> SUFFICES ASSUME Typed, [Next]_vars PROVE Typed'
  OBVIOUS
<1> USE CallersAssumption DEF Typed, Phases, Critical
<1>1. CASE DispatchGrant
  BY <1>1 DEF DispatchGrant, Dequeue
<1>2. ASSUME NEW c \in Callers, Acquire(c) PROVE Typed'
  BY <1>2 DEF Acquire
<1>3. ASSUME NEW c \in Callers, DispatchEnd(c) PROVE Typed'
  BY <1>3 DEF DispatchEnd, Dequeue
<1>4. ASSUME NEW c \in Callers, TakeGrant(c) PROVE Typed'
  BY <1>4 DEF TakeGrant
<1>5. ASSUME NEW c \in Callers, AbandonGranted(c) PROVE Typed'
  BY <1>5 DEF AbandonGranted
<1>6. ASSUME NEW c \in Callers, AbandonWaiting(c) PROVE Typed'
  BY <1>6 DEF AbandonWaiting
<1>7. ASSUME NEW c \in Callers, Release(c) PROVE Typed'
  BY <1>7 DEF Release, ReleaseFirst, ReleaseAgain, vars
<1>8. CASE UNCHANGED vars
  BY <1>8 DEF vars
<1> QED BY <1>1, <1>2, <1>3, <1>4, <1>5, <1>6, <1>7, <1>8 DEF Next

(***************************************************************************)
(* The mutex, the queue and its order.                                     *)
(***************************************************************************)
LEMMA NextSerial ==
  ASSUME Typed, Serial, [Next]_vars
  PROVE  Serial'
<1> USE DEF Typed, Serial, MutexFree, Phases, Critical
<1>1. CASE DispatchGrant
  BY <1>1 DEF DispatchGrant
<1>2. ASSUME NEW c \in Callers, Acquire(c) PROVE Serial'
  BY <1>2 DEF Acquire
<1>3. ASSUME NEW c \in Callers, DispatchEnd(c) PROVE Serial'
  BY <1>3 DEF DispatchEnd
<1>4. ASSUME NEW c \in Callers, TakeGrant(c) PROVE Serial'
  BY <1>4 DEF TakeGrant
<1>5. ASSUME NEW c \in Callers, AbandonGranted(c) PROVE Serial'
  BY <1>5 DEF AbandonGranted
<1>6. ASSUME NEW c \in Callers, AbandonWaiting(c) PROVE Serial'
  BY <1>6 DEF AbandonWaiting
<1>7. ASSUME NEW c \in Callers, Release(c) PROVE Serial'
  BY <1>7 DEF Release, ReleaseFirst, ReleaseAgain, vars
<1>8. CASE UNCHANGED vars
  BY <1>8 DEF vars
<1> QED BY <1>1, <1>2, <1>3, <1>4, <1>5, <1>6, <1>7, <1>8 DEF Next

LEMMA NextQueueOK ==
  ASSUME Typed, Serial, QueueOK, NoStrandedLease, [Next]_vars
  PROVE  QueueOK' /\ NoStrandedLease'
<1> USE DEF Typed, QueueOK, NoStrandedLease, Phases, Critical
<1>1. CASE DispatchGrant
  BY <1>1 DEF DispatchGrant, Dequeue, IsNext, Eligible
<1>2. ASSUME NEW c \in Callers, Acquire(c) PROVE QueueOK' /\ NoStrandedLease'
  BY <1>2 DEF Acquire
<1>3. ASSUME NEW c \in Callers, DispatchEnd(c) PROVE QueueOK' /\ NoStrandedLease'
  <2>1. \A d \in cancelled : d = c
    BY <1>3 DEF DispatchEnd, Serial
  <2>2. CASE phase[c] = "acquiring"
    <3>1. cancelled = {}
      BY <2>1, <2>2
    <3> QED BY <1>3, <2>2, <3>1 DEF DispatchEnd, Dequeue
  <2>3. CASE phase[c] = "cancelling"
    <3>1. cancelled = {c}
      BY <2>1, <2>3
    <3> QED BY <1>3, <2>3, <3>1 DEF DispatchEnd, Dequeue
  <2>4. CASE phase[c] = "releasing"
    <3>1. cancelled = {}
      BY <2>1, <2>4
    <3> QED BY <1>3, <2>4, <3>1 DEF DispatchEnd, Dequeue
  <2> QED BY <1>3, <2>2, <2>3, <2>4 DEF DispatchEnd
<1>4. ASSUME NEW c \in Callers, TakeGrant(c) PROVE QueueOK' /\ NoStrandedLease'
  BY <1>4 DEF TakeGrant
<1>5. ASSUME NEW c \in Callers, AbandonGranted(c) PROVE QueueOK' /\ NoStrandedLease'
  BY <1>5 DEF AbandonGranted
<1>6. ASSUME NEW c \in Callers, AbandonWaiting(c) PROVE QueueOK' /\ NoStrandedLease'
  BY <1>6 DEF AbandonWaiting
<1>7. ASSUME NEW c \in Callers, Release(c) PROVE QueueOK' /\ NoStrandedLease'
  BY <1>7 DEF Release, ReleaseFirst, ReleaseAgain, vars
<1>8. CASE UNCHANGED vars
  BY <1>8 DEF vars
<1> QED BY <1>1, <1>2, <1>3, <1>4, <1>5, <1>6, <1>7, <1>8 DEF Next

LEMMA NextOrderOK ==
  ASSUME Typed, QueueOK, OrderOK, [Next]_vars
  PROVE  OrderOK'
<1> USE DEF Typed, OrderOK
<1>1. ASSUME NEW S \in SUBSET Callers, Dequeue(S) PROVE OrderOK'
  BY <1>1 DEF Dequeue
<1>2. CASE DispatchGrant
  BY <1>1, <1>2 DEF DispatchGrant
<1>3. ASSUME NEW c \in Callers, Acquire(c) PROVE OrderOK'
  <2>1. c \notin waiters
    BY <1>3 DEF Acquire, QueueOK
  <2> QED BY <1>3, <2>1 DEF Acquire
<1>4. ASSUME NEW c \in Callers, DispatchEnd(c) PROVE OrderOK'
  BY <1>1, <1>4 DEF DispatchEnd
<1>5. ASSUME UNCHANGED <<waiters, ahead>> PROVE OrderOK'
  BY <1>5
<1>6. ASSUME NEW c \in Callers,
             TakeGrant(c) \/ AbandonGranted(c) \/ AbandonWaiting(c) \/ Release(c)
      PROVE  OrderOK'
  BY <1>5, <1>6
     DEF TakeGrant, AbandonGranted, AbandonWaiting, Release, ReleaseFirst, ReleaseAgain, vars
<1>7. CASE UNCHANGED vars
  BY <1>5, <1>7 DEF vars
<1> QED BY <1>2, <1>3, <1>4, <1>6, <1>7 DEF Next

(***************************************************************************)
(* The counters.                                                           *)
(***************************************************************************)

\* A new lease of c is one more lease of c's group and of no other.
LEMMA LeaseAdded ==
  ASSUME Typed, NEW c \in Callers, c \notin leased, leased' = leased \cup {c}
  PROVE  /\ Cardinality(leased') = Cardinality(leased) + 1
         /\ \A g \in Groups :
               Cardinality(LeasedBy(g)') =
                  IF g = GroupOf[c] THEN Cardinality(LeasedBy(g)) + 1
                                    ELSE Cardinality(LeasedBy(g))
<1>1. Cardinality(leased') = Cardinality(leased) + 1
  BY LeasedFinite, FS_AddElement
<1>2. ASSUME NEW g \in Groups, g = GroupOf[c]
      PROVE  Cardinality(LeasedBy(g)') = Cardinality(LeasedBy(g)) + 1
  <2>1. LeasedBy(g)' = LeasedBy(g) \cup {c} /\ c \notin LeasedBy(g)
    BY <1>2 DEF LeasedBy
  <2> QED BY <2>1, LeasedFinite, FS_AddElement
<1>3. ASSUME NEW g \in Groups, g # GroupOf[c]
      PROVE  LeasedBy(g)' = LeasedBy(g)
  BY <1>3 DEF LeasedBy
<1> QED BY <1>1, <1>2, <1>3

LEMMA LeaseRemoved ==
  ASSUME Typed, NEW c \in Callers, c \in leased, leased' = leased \ {c}
  PROVE  /\ Cardinality(leased') = Cardinality(leased) - 1
         /\ \A g \in Groups :
               Cardinality(LeasedBy(g)') =
                  IF g = GroupOf[c] THEN Cardinality(LeasedBy(g)) - 1
                                    ELSE Cardinality(LeasedBy(g))
<1>1. Cardinality(leased') = Cardinality(leased) - 1
  BY LeasedFinite, FS_RemoveElement
<1>2. ASSUME NEW g \in Groups, g = GroupOf[c]
      PROVE  Cardinality(LeasedBy(g)') = Cardinality(LeasedBy(g)) - 1
  <2>1. LeasedBy(g)' = LeasedBy(g) \ {c} /\ c \in LeasedBy(g)
    BY <1>2 DEF LeasedBy
  <2> QED BY <2>1, LeasedFinite, FS_RemoveElement
<1>3. ASSUME NEW g \in Groups, g # GroupOf[c]
      PROVE  LeasedBy(g)' = LeasedBy(g)
  BY <1>3 DEF LeasedBy
<1> QED BY <1>1, <1>2, <1>3

LEMMA NextAccounting ==
  ASSUME Typed, QueueOK, NoStrandedLease, Accounting, [Next]_vars
  PROVE  Accounting'
<1> USE CallersAssumption
<1>1. CASE DispatchGrant
  <2>1. PICK c \in waiters :
           /\ leased' = leased \cup {c}
           /\ inUse' = inUse + 1
           /\ groupInUse' = [groupInUse EXCEPT ![GroupOf[c]] = @ + 1]
    BY <1>1 DEF DispatchGrant
  <2>2. c \in Callers /\ c \notin leased
    BY DEF Typed, QueueOK
  <2>3. /\ Cardinality(leased') = Cardinality(leased) + 1
        /\ \A g \in Groups :
              Cardinality(LeasedBy(g)') =
                 IF g = GroupOf[c] THEN Cardinality(LeasedBy(g)) + 1
                                   ELSE Cardinality(LeasedBy(g))
    BY <2>1, <2>2, LeaseAdded
  <2> QED BY <2>1, <2>2, <2>3 DEF Accounting, Typed
<1>2. ASSUME NEW c \in Callers, ReleaseFirst(c) PROVE Accounting'
  <2>1. c \in leased
    BY <1>2 DEF ReleaseFirst, NoStrandedLease
  <2>2. /\ Cardinality(leased') = Cardinality(leased) - 1
        /\ \A g \in Groups :
              Cardinality(LeasedBy(g)') =
                 IF g = GroupOf[c] THEN Cardinality(LeasedBy(g)) - 1
                                   ELSE Cardinality(LeasedBy(g))
    BY <1>2, <2>1, LeaseRemoved DEF ReleaseFirst
  <2> QED BY <1>2, <2>2 DEF ReleaseFirst, Accounting, Typed
<1>3. ASSUME UNCHANGED <<leased, inUse, groupInUse>> PROVE Accounting'
  BY <1>3 DEF Accounting, LeasedBy
<1>4. ASSUME NEW c \in Callers,
             \/ Acquire(c) \/ DispatchEnd(c) \/ TakeGrant(c)
             \/ AbandonGranted(c) \/ AbandonWaiting(c) \/ ReleaseAgain(c)
      PROVE  Accounting'
  BY <1>3, <1>4
     DEF Acquire, DispatchEnd, TakeGrant, AbandonGranted, AbandonWaiting, ReleaseAgain, vars
<1>5. CASE UNCHANGED vars
  BY <1>3, <1>5 DEF vars
<1> QED BY <1>1, <1>2, <1>4, <1>5 DEF Next, Release

(***************************************************************************)
(* The reservation.                                                        *)
(***************************************************************************)

\* One more slot for a group: the first of its missing slots is taken, if any.
LEMMA SlotTaken ==
  ASSUME Typed, NEW g \in Groups,
         groupInUse' = [groupInUse EXCEPT ![g] = @ + 1]
  PROVE  Missing' = Missing \ {<<g, groupInUse[g] + 1>>}
<1> USE MinimumAssumption DEF Typed
<1>1. ASSUME NEW h \in Groups
      PROVE  MissingOf(h)' = MissingOf(h) \ {<<g, groupInUse[g] + 1>>}
  BY DEF MissingOf
<1>2. Missing' = UNION {MissingOf(h)' : h \in Groups}
  BY DEF Missing
<1> QED BY <1>1, <1>2 DEF Missing

LEMMA SlotReturned ==
  ASSUME Typed, NEW g \in Groups,
         groupInUse' = [groupInUse EXCEPT ![g] = @ - 1]
  PROVE  Missing' \subseteq Missing \cup {<<g, groupInUse[g]>>}
<1> USE MinimumAssumption DEF Typed
<1>1. ASSUME NEW h \in Groups
      PROVE  MissingOf(h)' \subseteq MissingOf(h) \cup {<<g, groupInUse[g]>>}
  BY DEF MissingOf
<1>2. Missing' = UNION {MissingOf(h)' : h \in Groups}
  BY DEF Missing
<1> QED BY <1>1, <1>2 DEF Missing

LEMMA NextMinimumsReserved ==
  ASSUME Typed, MinimumsReserved, [Next]_vars
  PROVE  MinimumsReserved'
<1> SUFFICES ASSUME Limit > 0
             PROVE  inUse' + Cardinality(Missing') <= Limit
  BY DEF MinimumsReserved
<1> USE CallersAssumption, LimitAssumption
<1>0. IsFiniteSet(Missing) /\ Cardinality(Missing) \in Nat
  BY MissingFinite, FS_CardinalityType
<1>1. CASE DispatchGrant
  <2>1. PICK c \in waiters :
           /\ IsNext(c)
           /\ inUse' = inUse + 1
           /\ groupInUse' = [groupInUse EXCEPT ![GroupOf[c]] = @ + 1]
    BY <1>1 DEF DispatchGrant
  <2> DEFINE g == GroupOf[c]
             s == <<g, groupInUse[g] + 1>>
  <2>2. g \in Groups
    BY DEF Typed
  <2>3. Missing' = Missing \ {s}
    BY <2>1, <2>2, SlotTaken
  <2>4. CASE BelowMinimum(g)
    <3>1. s \in Missing
      BY <2>2, <2>4, MinimumAssumption DEF Missing, MissingOf, BelowMinimum, Typed
    <3>2. Cardinality(Missing') = Cardinality(Missing) - 1
      BY <1>0, <2>3, <3>1, FS_RemoveElement
    <3> QED BY <1>0, <2>1, <3>2 DEF MinimumsReserved, Typed
  <2>5. CASE ~BelowMinimum(g)
    <3>1. \A m \in Missing : m[1] # g
      BY <2>2, <2>5, MinimumAssumption DEF Missing, MissingOf, BelowMinimum, Typed
    <3>2. {m \in Missing : m[1] # g} = Missing
      BY <3>1
    <3>3. s \notin Missing
      BY <3>1
    <3>4. Missing' = Missing
      BY <2>3, <3>3
    <3>5. SurplusAvailable(g)
      BY <2>1, <2>5 DEF IsNext, Eligible
    <3>6. Limit - inUse - 1 >= Cardinality({m \in Missing : m[1] # g})
      BY <3>5 DEF SurplusAvailable
    <3>7. Limit - inUse - 1 >= Cardinality(Missing)
      BY <3>2, <3>6
    <3> QED BY <1>0, <2>1, <3>4, <3>7 DEF Typed
  <2> QED BY <2>4, <2>5
<1>2. ASSUME NEW c \in Callers, ReleaseFirst(c)
      PROVE  inUse' + Cardinality(Missing') <= Limit
  <2> DEFINE s == <<GroupOf[c], groupInUse[GroupOf[c]]>>
  <2>1. Missing' \subseteq Missing \cup {s}
    BY <1>2, SlotReturned DEF ReleaseFirst
  <2>2. /\ IsFiniteSet(Missing \cup {s})
        /\ Cardinality(Missing \cup {s}) <= Cardinality(Missing) + 1
        /\ Cardinality(Missing \cup {s}) \in Nat
    <3>1. /\ IsFiniteSet(Missing \cup {s})
          /\ Cardinality(Missing \cup {s}) =
                IF s \in Missing THEN Cardinality(Missing) ELSE Cardinality(Missing) + 1
      BY <1>0, FS_AddElement
    <3> QED BY <1>0, <3>1
  <2>3. /\ Cardinality(Missing') <= Cardinality(Missing \cup {s})
        /\ Cardinality(Missing') \in Nat
    BY <2>1, <2>2, FS_Subset, FS_CardinalityType
  <2> QED BY <1>0, <1>2, <2>2, <2>3 DEF ReleaseFirst, MinimumsReserved, Typed
<1>3. ASSUME UNCHANGED <<inUse, groupInUse>>
      PROVE  inUse' + Cardinality(Missing') <= Limit
  <2>1. Missing' = Missing
    BY <1>3 DEF Missing, MissingOf
  <2> QED BY <1>3, <2>1 DEF MinimumsReserved
<1>4. ASSUME NEW c \in Callers,
             \/ Acquire(c) \/ DispatchEnd(c) \/ TakeGrant(c)
             \/ AbandonGranted(c) \/ AbandonWaiting(c) \/ ReleaseAgain(c)
      PROVE  UNCHANGED <<inUse, groupInUse>>
  BY <1>4
     DEF Acquire, DispatchEnd, TakeGrant, AbandonGranted, AbandonWaiting, ReleaseAgain, vars
<1>5. CASE UNCHANGED vars
  BY <1>3, <1>5 DEF vars
<1> QED BY <1>1, <1>2, <1>3, <1>4, <1>5 DEF Next, Release

(***************************************************************************)
(* Priority of the minimums.                                               *)
(***************************************************************************)

\* A waiter below its minimum has room: its own missing slot is reserved.
LEMMA RoomBelowMinimum ==
  ASSUME Typed, MinimumsReserved, NEW g \in Groups, BelowMinimum(g)
  PROVE  HasRoom
<1>1. <<g, groupInUse[g] + 1>> \in Missing
  BY MinimumAssumption DEF Missing, MissingOf, BelowMinimum, Typed
<1>2. Cardinality(Missing) \in Nat /\ Cardinality(Missing) # 0
  BY <1>1, MissingFinite, FS_CardinalityType, FS_EmptySet
<1> QED BY <1>2, LimitAssumption DEF HasRoom, MinimumsReserved, Typed

\* The dispatcher does not stop while somebody below its minimum waits.
LEMMA DispatchServesMinimum ==
  ASSUME Typed, OrderOK, MinimumsReserved,
         NEW c \in waiters \ cancelled, BelowMinimum(GroupOf[c])
  PROVE  HasRoom /\ \E d \in waiters : IsNext(d)
<1> DEFINE W == {d \in waiters \ cancelled : BelowMinimum(GroupOf[d])}
<1>1. PICK d \in W : \A e \in W : e \notin ahead[d]
  <2>1. W \in SUBSET waiters /\ W # {}
    OBVIOUS
  <2> HIDE DEF W
  <2> QED BY <2>1, FirstWaiter
<1>2. IsNext(d)
  BY <1>1 DEF IsNext, Eligible
<1>3. HasRoom
  BY RoomBelowMinimum, CallersAssumption DEF Typed
<1> QED BY <1>2, <1>3

LEMMA NextPriorityOK ==
  ASSUME IInv, [Next]_vars
  PROVE  PriorityOK'
<1> USE CallersAssumption, MinimumAssumption
        DEF IInv, Typed, PriorityOK, MinimumNeverWaits, MutexFree, BelowMinimum, Critical
<1>1. CASE DispatchGrant
  <2>1. ~MutexFree' /\ cancelled' = cancelled
    BY <1>1 DEF DispatchGrant
  <2>2. \A g \in Groups : groupInUse'[g] >= groupInUse[g]
    BY <1>1 DEF DispatchGrant
  <2>3. \A c \in cancelled : ~BelowMinimum(GroupOf[c])'
    BY <2>2, NextTyped
  <2> QED BY <2>1, <2>3
<1>2. ASSUME NEW c \in Callers, Acquire(c) PROVE PriorityOK'
  BY <1>2 DEF Acquire
<1>3. ASSUME NEW c \in Callers, DispatchEnd(c) PROVE PriorityOK'
  <2>1. \A d \in waiters \ cancelled : ~BelowMinimum(GroupOf[d])
    BY <1>3, DispatchServesMinimum DEF DispatchEnd
  <2>2. /\ waiters' = waiters \ cancelled
        /\ cancelled' = {}
        /\ groupInUse' = groupInUse
    BY <1>3 DEF DispatchEnd, Dequeue
  <2> QED BY <2>1, <2>2
<1>4. ASSUME NEW c \in Callers, TakeGrant(c) PROVE PriorityOK'
  BY <1>4 DEF TakeGrant
<1>5. ASSUME NEW c \in Callers, AbandonGranted(c) PROVE PriorityOK'
  BY <1>5 DEF AbandonGranted
<1>6. ASSUME NEW c \in Callers, AbandonWaiting(c) PROVE PriorityOK'
  <2>1. c \in waiters
    BY <1>6 DEF AbandonWaiting, QueueOK
  <2> QED BY <1>6, <2>1 DEF AbandonWaiting
<1>7. ASSUME NEW c \in Callers, ReleaseFirst(c) PROVE PriorityOK'
  <2>1. cancelled = {}
    BY <1>7 DEF ReleaseFirst, QueueOK
  <2> QED BY <1>7, <2>1 DEF ReleaseFirst
<1>8. ASSUME NEW c \in Callers, ReleaseAgain(c) PROVE PriorityOK'
  BY <1>8 DEF ReleaseAgain, vars
<1>9. CASE UNCHANGED vars
  BY <1>9 DEF vars
<1> QED BY <1>1, <1>2, <1>3, <1>4, <1>5, <1>6, <1>7, <1>8, <1>9 DEF Next, Release

-----------------------------------------------------------------------------

LEMMA InitIInv == Init => IInv
<1> SUFFICES ASSUME Init PROVE IInv
  OBVIOUS
<1> USE CallersAssumption, MinimumAssumption, LimitAssumption DEF Init
<1>1. Typed
  BY InitTyped
<1>2. Serial /\ QueueOK /\ OrderOK /\ NoStrandedLease /\ PriorityOK
  BY DEF Serial, QueueOK, OrderOK, NoStrandedLease, PriorityOK, MinimumNeverWaits, Critical
<1>3. Accounting
  <2>1. \A g \in Groups : LeasedBy(g) = {}
    BY DEF LeasedBy
  <2> QED BY <2>1, FS_EmptySet DEF Accounting
<1>4. MinimumsReserved
  <2>1. \A g \in Groups : groupInUse[g] + 1 = 1
    OBVIOUS
  <2>2. Missing = Floor
    BY <2>1 DEF Missing, MissingOf, Floor
  <2>3. Cardinality(Missing) \in Nat
    BY <1>1, MissingFinite, FS_CardinalityType
  <2> QED BY <2>2, <2>3, FloorAssumption DEF MinimumsReserved
<1> QED BY <1>1, <1>2, <1>3, <1>4 DEF IInv

LEMMA NextIInv == IInv /\ [Next]_vars => IInv'
<1> SUFFICES ASSUME IInv, [Next]_vars PROVE IInv'
  OBVIOUS
<1>1. Typed'
  BY NextTyped DEF IInv
<1>2. Serial'
  BY NextSerial DEF IInv
<1>3. QueueOK' /\ NoStrandedLease'
  BY NextQueueOK DEF IInv
<1>4. OrderOK'
  BY NextOrderOK DEF IInv
<1>5. Accounting'
  BY NextAccounting DEF IInv
<1>6. MinimumsReserved'
  BY NextMinimumsReserved DEF IInv
<1>7. PriorityOK'
  BY NextPriorityOK
<1> QED BY <1>1, <1>2, <1>3, <1>4, <1>5, <1>6, <1>7 DEF IInv

\* The inductive invariant holds of every reachable state of the broker.
THEOREM Inductive == Spec => []IInv
BY InitIInv, NextIInv, PTL DEF Spec

\* Every reachable state is well typed; in particular no counter of Broker or
\* group ever goes below zero.
THEOREM TypeCorrect == Spec => []TypeOK
<1>1. ASSUME IInv PROVE TypeOK
  <2>1. Cardinality(leased) \in Nat
    BY <1>1, LeasedFinite, FS_CardinalityType DEF IInv
  <2>2. \A g \in Groups : Cardinality(LeasedBy(g)) \in Nat
    BY <1>1, LeasedFinite, FS_CardinalityType DEF IInv
  <2> QED BY <1>1, <2>1, <2>2 DEF IInv, Typed, Accounting, TypeOK
<1>2. IInv => TypeOK
  BY <1>1
<1> QED BY <1>2, Inductive, PTL

\* b.inUse and every group.inUse count the unreleased leases exactly, however
\* often a lease is released.
THEOREM AccountingHolds == Spec => []Accounting
<1>1. IInv => Accounting
  BY DEF IInv
<1> QED BY <1>1, Inductive, PTL

\* No outstanding lease is ever out of reach of a Release.
THEOREM NoStrandedLeaseHolds == Spec => []NoStrandedLease
<1>1. IInv => NoStrandedLease
  BY DEF IInv
<1> QED BY <1>1, Inductive, PTL

\* The minimum of every scale set stays reserved under the limit.
THEOREM MinimumsReservedHolds == Spec => []MinimumsReserved
<1>1. IInv => MinimumsReserved
  BY DEF IInv
<1> QED BY <1>1, Inductive, PTL

\* The books of the broker are right: types, counters and reservations together.
THEOREM BooksHold == Spec => []Books
<1>1. TypeOK /\ Accounting /\ MinimumsReserved => Books
  BY DEF Books
<1> QED BY <1>1, TypeCorrect, AccountingHolds, MinimumsReservedHolds, PTL

\* The slots in use never exceed the process-wide limit.
THEOREM LimitRespectedHolds == Spec => []LimitRespected
<1>1. IInv => LimitRespected
  <2>1. ASSUME IInv PROVE Cardinality(Missing) \in Nat
    BY <2>1, MissingFinite, FS_CardinalityType DEF IInv
  <2> QED BY <2>1, LimitAssumption DEF IInv, MinimumsReserved, LimitRespected, Typed
<1> QED BY <1>1, Inductive, PTL

\* At rest no scale set waits for a slot of its own minimum.
THEOREM MinimumNeverWaitsHolds == Spec => []MinimumNeverWaits
<1>1. IInv => MinimumNeverWaits
  BY DEF IInv, PriorityOK
<1> QED BY <1>1, Inductive, PTL

(***************************************************************************)
(* No lost wake-up, and FIFO within each class.                            *)
(***************************************************************************)

\* For two groups that have their minimums, surplus is available to both or to
\* neither: it is the same surplus.
LEMMA SurplusShared ==
  ASSUME Typed, NEW g \in Groups, NEW h \in Groups,
         ~BelowMinimum(g), ~BelowMinimum(h), SurplusAvailable(g)
  PROVE  SurplusAvailable(h)
<1>1. \A m \in Missing : m[1] # g /\ m[1] # h
  BY MinimumAssumption DEF Missing, MissingOf, BelowMinimum, Typed
<1>2. {m \in Missing : m[1] # g} = Missing /\ {m \in Missing : m[1] # h} = Missing
  BY <1>1
<1>3. CASE Limit <= 0
  BY <1>3 DEF SurplusAvailable
<1>4. CASE ~(Limit <= 0)
  <2>1. Limit - inUse - 1 >= Cardinality({m \in Missing : m[1] # g})
    BY <1>4 DEF SurplusAvailable
  <2>2. Limit - inUse - 1 >= Cardinality({m \in Missing : m[1] # h})
    BY <1>2, <2>1
  <2> QED BY <2>2 DEF SurplusAvailable
<1> QED BY <1>3, <1>4

\* If anybody is eligible then somebody is next.
LEMMA EligibleHasNext ==
  ASSUME Typed, OrderOK, MinimumsReserved, NEW c \in waiters, Eligible(c)
  PROVE  \E d \in waiters : IsNext(d)
<1>1. CASE \E d \in waiters \ cancelled : BelowMinimum(GroupOf[d])
  BY <1>1, DispatchServesMinimum
<1>2. CASE \A d \in waiters \ cancelled : ~BelowMinimum(GroupOf[d])
  <2> DEFINE W == {d \in waiters : Eligible(d)}
  <2>1. PICK d \in W : \A e \in W : e \notin ahead[d]
    <3>1. W \in SUBSET waiters /\ W # {}
      OBVIOUS
    <3> HIDE DEF W
    <3> QED BY <3>1, FirstWaiter
  <2>2. \A e \in W : ~BelowMinimum(GroupOf[e])
    BY <1>2 DEF Eligible
  <2> QED BY <2>1, <2>2 DEF IsNext
<1> QED BY <1>1, <1>2

LEMMA NextNobodyForgotten ==
  ASSUME IInv, NobodyForgotten, [Next]_vars
  PROVE  NobodyForgotten'
<1>0. QueueOK'
  BY NextQueueOK DEF IInv
<1> SUFFICES ASSUME MutexFree'
             PROVE  ~(HasRoom' /\ \E c \in waiters' : Eligible(c)')
  BY <1>0 DEF NobodyForgotten, QueueOK
<1> USE DEF IInv, Typed, MutexFree, Critical
<1>1. CASE DispatchGrant
  BY <1>1 DEF DispatchGrant
<1>2. ASSUME NEW c \in Callers, DispatchEnd(c)
      PROVE  ~(HasRoom' /\ \E d \in waiters' : Eligible(d)')
  <2>1. /\ waiters' = waiters \ cancelled
        /\ cancelled' = {}
        /\ UNCHANGED <<inUse, groupInUse>>
    BY <1>2 DEF DispatchEnd, Dequeue
  <2>2. HasRoom' <=> HasRoom
    BY <2>1 DEF HasRoom
  <2>3. \A d \in waiters' : Eligible(d)' => d \in waiters /\ Eligible(d)
    BY <2>1 DEF Eligible, BelowMinimum, SurplusAvailable, Missing, MissingOf
  <2>4. ~(HasRoom /\ \E d \in waiters : IsNext(d))
    BY <1>2 DEF DispatchEnd
  <2> QED BY <2>2, <2>3, <2>4, EligibleHasNext
<1>3. ASSUME UNCHANGED <<waiters, cancelled, inUse, groupInUse>>, MutexFree
      PROVE  ~(HasRoom' /\ \E d \in waiters' : Eligible(d)')
  BY <1>3
     DEF NobodyForgotten, HasRoom, Eligible, BelowMinimum, SurplusAvailable, Missing, MissingOf
<1>4. ASSUME NEW c \in Callers,
             TakeGrant(c) \/ AbandonGranted(c) \/ ReleaseAgain(c)
      PROVE  UNCHANGED <<waiters, cancelled, inUse, groupInUse>> /\ MutexFree
  BY <1>4 DEF TakeGrant, AbandonGranted, ReleaseAgain, vars
<1>5. ASSUME NEW c \in Callers,
             Acquire(c) \/ AbandonWaiting(c) \/ ReleaseFirst(c)
      PROVE  FALSE
  BY <1>5 DEF Acquire, AbandonWaiting, ReleaseFirst
<1>6. CASE UNCHANGED vars
  <2>1. UNCHANGED <<waiters, cancelled, inUse, groupInUse>> /\ MutexFree
    BY <1>6 DEF vars
  <2> QED BY <1>3, <2>1
<1> QED BY <1>1, <1>2, <1>3, <1>4, <1>5, <1>6 DEF Next, Release

\* A waiter that could be served is never left in the queue once the mutex is
\* free: no release, cancellation or arrival loses a wake-up.
THEOREM NobodyForgottenHolds == Spec => []NobodyForgotten
<1>1. Init => NobodyForgotten
  BY DEF Init, NobodyForgotten, Eligible
<1> QED BY <1>1, NextNobodyForgotten, Inductive, PTL DEF Spec

\* At rest nobody waits who should have been served.
THEOREM ServedHolds == Spec => []Served
<1>1. NobodyForgotten /\ MinimumNeverWaits => Served
  BY DEF Served
<1> QED BY <1>1, NobodyForgottenHolds, MinimumNeverWaitsHolds, PTL

LEMMA StepInOrder ==
  ASSUME IInv, Next
  PROVE  \A c \in leased' \ leased : \A d \in ahead[c] \ cancelled :
            /\ BelowMinimum(GroupOf[c])
            /\ ~BelowMinimum(GroupOf[d])
            /\ GroupOf[c] # GroupOf[d]
<1>1. CASE DispatchGrant
  <2> SUFFICES ASSUME NEW c \in waiters, IsNext(c), NEW d \in ahead[c] \ cancelled
               PROVE  BelowMinimum(GroupOf[c]) /\ ~BelowMinimum(GroupOf[d])
    BY <1>1 DEF DispatchGrant
  <2>1. d \in waiters \ cancelled /\ d # c /\ c \in Callers /\ d \in Callers
    BY DEF IInv, OrderOK, Typed
  <2>2. CASE BelowMinimum(GroupOf[c])
    <3>1. ~BelowMinimum(GroupOf[d])
      BY <2>1, <2>2 DEF IsNext, Eligible
    <3> QED BY <2>2, <3>1
  <2>3. CASE ~BelowMinimum(GroupOf[c])
    <3>1. ~BelowMinimum(GroupOf[d])
      BY <2>1, <2>3 DEF IsNext, Eligible
    <3>2. SurplusAvailable(GroupOf[c])
      BY <2>3 DEF IsNext, Eligible
    <3>3. SurplusAvailable(GroupOf[d])
      BY <2>1, <2>3, <3>1, <3>2, SurplusShared, CallersAssumption DEF IInv
    <3> QED BY <2>1, <2>3, <3>3 DEF IsNext, Eligible
  <2> QED BY <2>2, <2>3
<1>2. ASSUME NEW c \in Callers, ReleaseFirst(c) PROVE leased' \subseteq leased
  BY <1>2 DEF ReleaseFirst
<1>3. ASSUME NEW c \in Callers,
             \/ Acquire(c) \/ DispatchEnd(c) \/ TakeGrant(c)
             \/ AbandonGranted(c) \/ AbandonWaiting(c) \/ ReleaseAgain(c)
      PROVE  leased' = leased
  BY <1>3
     DEF Acquire, DispatchEnd, TakeGrant, AbandonGranted, AbandonWaiting, ReleaseAgain, vars
<1> QED BY <1>1, <1>2, <1>3 DEF Next, Release

\* Grants are in arrival order, except that a minimum passes surplus.
THEOREM GrantsInOrderHolds == Spec => GrantsInOrder
<1>1. IInv /\ [Next]_vars =>
        [\A c \in leased' \ leased : \A d \in ahead[c] \ cancelled :
            /\ BelowMinimum(GroupOf[c])
            /\ ~BelowMinimum(GroupOf[d])
            /\ GroupOf[c] # GroupOf[d]]_vars
  BY StepInOrder
<1> QED BY <1>1, Inductive, PTL DEF Spec, GrantsInOrder

(***************************************************************************)
(* The broker implements the promise.                                      *)
(***************************************************************************)

\* The instance brings its own copy of Cardinality.
LEMMA SameCardinality == \A S : Promise!Cardinality(S) = Cardinality(S)
BY DEF Promise!Cardinality, Cardinality

\* The counters of the broker are the counts of the promise.
LEMMA CountsAgree ==
  ASSUME Accounting
  PROVE  /\ \A g \in Groups : Promise!CountOf(leased, g) = groupInUse[g]
         /\ Promise!MissingSlots(leased) = Missing
<1>1. \A g \in Groups : Promise!CountOf(leased, g) = groupInUse[g]
  BY SameCardinality DEF Promise!CountOf, Accounting, LeasedBy
<1> QED BY <1>1 DEF Promise!MissingSlots, Missing, MissingOf

LEMMA StepKeepsPromise ==
  ASSUME IInv, IInv', [Next]_vars
  PROVE  [Promise!Next]_<<leased, waiters>>
<1> USE DEF IInv, Typed
<1>1. CASE DispatchGrant
  <2>1. PICK c \in waiters :
           /\ IsNext(c)
           /\ waiters' = waiters \ {c}
           /\ leased' = leased \cup {c}
    BY <1>1 DEF DispatchGrant, Dequeue
  <2>2. c \in Callers /\ GroupOf[c] \in Groups
    BY CallersAssumption
  <2>3. \A d \in Callers : Promise!Entitled(d) <=> BelowMinimum(GroupOf[d])
    BY CountsAgree, CallersAssumption DEF Promise!Entitled, BelowMinimum
  <2>4. BelowMinimum(GroupOf[c]) \/ \A d \in waiters : ~BelowMinimum(GroupOf[d])
    BY <2>1 DEF IsNext, Eligible, PriorityOK
  <2>5. Promise!MissingSlots(leased') = Missing' /\ Cardinality(leased') = inUse'
    <3>1. \A g \in Groups : Promise!CountOf(leased', g) = groupInUse'[g]
      BY SameCardinality DEF Promise!CountOf, Accounting, LeasedBy
    <3>2. Promise!MissingSlots(leased') = Missing'
      BY <3>1 DEF Promise!MissingSlots, Missing, MissingOf
    <3> QED BY <3>2 DEF Accounting
  <2>6. Promise!Admissible(leased \cup {c})
    BY <2>1, <2>5, SameCardinality DEF Promise!Admissible, MinimumsReserved
  <2>7. Promise!Grant(c)
    BY <2>1, <2>2, <2>3, <2>4, <2>6 DEF Promise!Grant
  <2> QED BY <2>2, <2>7 DEF Promise!Next
<1>2. ASSUME NEW c \in Callers, Acquire(c) PROVE Promise!Ask(c)
  BY <1>2 DEF Acquire, Promise!Ask, NoStrandedLease, QueueOK
<1>3. ASSUME NEW c \in Callers, DispatchEnd(c)
      PROVE  Promise!Withdraw(c) \/ UNCHANGED <<leased, waiters>>
  <2>1. waiters' = waiters \ cancelled /\ leased' = leased
    BY <1>3 DEF DispatchEnd, Dequeue
  <2>2. \A d \in cancelled : d = c
    BY <1>3 DEF DispatchEnd, Serial, QueueOK, Critical
  <2>3. cancelled = {} \/ cancelled = {c}
    BY <2>2
  <2> QED BY <2>1, <2>3 DEF Promise!Withdraw
<1>4. ASSUME NEW c \in Callers, ReleaseFirst(c) PROVE Promise!Return(c)
  BY <1>4 DEF ReleaseFirst, Promise!Return, NoStrandedLease
<1>5. ASSUME NEW c \in Callers,
             TakeGrant(c) \/ AbandonGranted(c) \/ AbandonWaiting(c) \/ ReleaseAgain(c)
      PROVE  UNCHANGED <<leased, waiters>>
  BY <1>5 DEF TakeGrant, AbandonGranted, AbandonWaiting, ReleaseAgain, vars
<1>6. CASE UNCHANGED vars
  BY <1>6 DEF vars
<1> QED BY <1>1, <1>2, <1>3, <1>4, <1>5, <1>6 DEF Next, Release, Promise!Next

\* The queue, the mutex and the dispatcher implement CapacityPromise: a grant
\* always leaves every scale set able to reach its minimum, and never prefers
\* surplus to a minimum.
THEOREM KeepsPromise == Spec => PromiseSpec
<1>1. Init => Promise!Init
  BY DEF Init, Promise!Init
<1>2. IInv /\ IInv' /\ [Next]_vars => [Promise!Next]_<<leased, waiters>>
  BY StepKeepsPromise
<1> QED
  BY <1>1, <1>2, Inductive, PTL
     DEF Spec, PromiseSpec, Promise!Spec, Promise!promiseVars
=============================================================================
