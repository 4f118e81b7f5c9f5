--------------------------- MODULE DiskGuardProofs ---------------------------
(***************************************************************************)
(* Proofs about DiskGuard: who may delete what, and what a pass reports.   *)
(*                                                                         *)
(* The inductive invariant says which semaphore every operation under way  *)
(* holds, what its first measurement and its deletions have to do with the *)
(* store as it is now, which calls may be waiting in a pass, and that a    *)
(* process whose context has ended starts no work.                         *)
(***************************************************************************)
EXTENDS DiskGuard, WellFoundedInduction, FiniteSetTheorems, SequenceTheorems, TLAPS

(***************************************************************************)
(* Induction: the provers take no operator as a parameter, but a set will  *)
(* do, by its least element.                                               *)
(***************************************************************************)

\* A set of natural numbers that is not empty has a least element.
LEMMA LeastNatural ==
  ASSUME NEW T \in SUBSET Nat, T # {}
  PROVE  \E n \in T : \A m \in T : n <= m
<1>1. \A R, S, U : IsWellFoundedOn(R, S) /\ U \subseteq S /\ U # {}
                   => \E x \in U : \A y \in U : ~ (<<y, x>> \in R)
  BY WFMin
<1>2. IsWellFoundedOn({p \in Nat \X Nat : p[1] < p[2]}, Nat)
  BY NatLessThanWellFounded DEF OpToRel
<1>3. PICK n \in T : \A m \in T : ~(<<m, n>> \in {p \in Nat \X Nat : p[1] < p[2]})
  BY <1>1, <1>2
<1>4. \A m \in T : ~(m < n)
  BY <1>3
<1> QED BY <1>4

\* A set that holds 0 and with every number below n the next one holds all up to n.
LEMMA CountingUp ==
  ASSUME NEW n \in Nat, NEW S, 0 \in S, \A i \in 1..n : i - 1 \in S => i \in S
  PROVE  \A i \in 0..n : i \in S
<1> DEFINE T == {i \in 0..n : i \notin S}
<1> SUFFICES ASSUME T # {} PROVE FALSE
  OBVIOUS
<1>0. T \in SUBSET Nat
  OBVIOUS
<1>1. PICK k \in T : \A m \in T : k <= m
  <2> HIDE DEF T
  <2> QED BY <1>0, LeastNatural
<1>2. k \in 1..n /\ k - 1 \in 0..n /\ ~(k <= k - 1)
  BY <1>1
<1>3. k - 1 \in S
  BY <1>1, <1>2
<1> QED BY <1>1, <1>2, <1>3

-----------------------------------------------------------------------------
(***************************************************************************)
(* The calls of a pass.                                                    *)
(***************************************************************************)

\* One call at the tier for each chosen store, and no others.
LEMMA CallsType ==
  ASSUME NEW S, NEW tier, NEW D, D = [store : Stores, tier : {tier}], Store \in Seq(AllStores)
  PROVE  Calls(S, tier) \in Seq(D)
<1> DEFINE n == Len(Store)
           step(x, i) == IF Store[i] \in S THEN Append(x, [store |-> Store[i], tier |-> tier]) ELSE x
           goes(f, k) == f = [i \in 0..k |-> IF i = 0 THEN <<>> ELSE step(f[i - 1], i)]
           first[i \in 0..Len(Store)] ==
              IF i = 0 THEN <<>>
              ELSE IF Store[i] \in S THEN Append(first[i - 1], [store |-> Store[i], tier |-> tier])
              ELSE first[i - 1]
<1>0. n \in Nat
  BY LenProperties
<1>1. \E f : goes(f, n)
  <2> DEFINE P == {k \in 0..n : \E f : goes(f, k)}
  <2>1. 0 \in P
    <3>1. goes([i \in 0..0 |-> <<>>], 0)
      OBVIOUS
    <3>2. 0 \in 0..n
      BY <1>0
    <3> HIDE DEF goes
    <3> QED BY <3>1, <3>2
  <2>2. ASSUME NEW k \in 1..n, k - 1 \in P PROVE k \in P
    <3>1. PICK f : goes(f, k - 1)
      BY <2>2
    <3> DEFINE g == [i \in 0..k |-> IF i = k THEN step(f[k - 1], k) ELSE f[i]]
    <3>2. ASSUME NEW i \in 0..k PROVE g[i] = IF i = 0 THEN <<>> ELSE step(g[i - 1], i)
      <4>1. CASE i = k
        <5>1. g[i] = step(f[k - 1], k) /\ g[k - 1] = f[k - 1] /\ i # 0
          BY <1>0, <4>1
        <5> HIDE DEF g, step
        <5> QED BY <4>1, <5>1
      <4>2. CASE i # k /\ i # 0
        <5>1. g[i] = f[i] /\ g[i - 1] = f[i - 1] /\ i \in 0..(k - 1)
          BY <1>0, <4>2
        <5> HIDE DEF g, step
        <5>2. f[i] = step(f[i - 1], i)
          BY <3>1, <4>2, <5>1
        <5> QED BY <4>2, <5>1, <5>2
      <4>3. CASE i = 0 /\ i # k
        <5>1. g[i] = f[i] /\ i \in 0..(k - 1)
          BY <1>0, <4>3
        <5> HIDE DEF g, step
        <5> QED BY <3>1, <4>3, <5>1
      <4> QED BY <4>1, <4>2, <4>3
    <3>3. goes(g, k)
      <4>1. g = [i \in 0..k |-> g[i]]
        OBVIOUS
      <4> HIDE DEF g, step
      <4> QED BY <3>2, <4>1
    <3>4. k \in 0..n
      BY <1>0
    <3> HIDE DEF goes, g
    <3> QED BY <3>3, <3>4
  <2> HIDE DEF goes
  <2>3. \A i \in 0..n : i \in P
    BY <1>0, <2>1, <2>2, CountingUp
  <2>4. n \in 0..n
    BY <1>0
  <2> QED BY <2>3, <2>4, Zenon
<1>2. goes(first, n)
  <2>1. \E f : f = [i \in 0..Len(Store) |->
              IF i = 0 THEN <<>>
              ELSE IF Store[i] \in S THEN Append(f[i - 1], [store |-> Store[i], tier |-> tier])
              ELSE f[i - 1]]
    BY <1>1
  <2> QED BY <2>1, Zenon
<1>3. \A i \in 0..n : first[i] \in Seq(D)
  <2> DEFINE P == {k \in 0..n : first[k] \in Seq(D)}
  <2> HIDE DEF first
  <2>1. 0 \in P
    BY <1>0, <1>2
  <2>2. ASSUME NEW k \in 1..n, k - 1 \in P PROVE k \in P
    <3>0. k \in 0..n /\ k # 0
      BY <1>0
    <3>1. first[k - 1] \in Seq(D)
      BY <2>2
    <3>a. first = [i \in 0..n |-> IF i = 0 THEN <<>> ELSE step(first[i - 1], i)]
      BY <1>2
    <3>b. first[k] = step(first[k - 1], k)
      <4> HIDE DEF step, n
      <4> QED BY <3>a, <3>0
    <3>2. Store[k] \in Stores
      BY <1>0 DEF Stores, Range
    <3>3. [store |-> Store[k], tier |-> tier] \in D
      BY <3>2
    <3>4. step(first[k - 1], k) \in Seq(D)
      BY <3>1, <3>3, AppendProperties
    <3> QED BY <3>0, <3>b, <3>4
  <2>3. \A i \in 0..n : i \in P
    BY <1>0, <2>1, <2>2, CountingUp
  <2> QED BY <2>3
<1>4. Calls(S, tier) = first[Len(Store)]
  BY DEF Calls
<1>5. first[n] \in Seq(D)
  <2>1. n \in 0..n
    BY <1>0
  <2> HIDE DEF first, n
  <2> QED BY <1>3, <2>1, Zenon
<1> QED BY <1>4, <1>5, Zenon

-----------------------------------------------------------------------------
(***************************************************************************)
(* The configuration.                                                      *)
(***************************************************************************)

LEMMA ConfigFacts ==
  ASSUME config \in Configs
  PROVE  /\ Store \in Seq(AllStores) /\ MaxTier \in 1..4
         /\ \A s \in Stores : FsOf[s] \in DOMAIN config.total /\ Trim[s] \in Nat
         /\ \A f \in DOMAIN config.total : config.total[f] \in Nat
         /\ \A w \in Sweeper : Rounds[w] \in Seq([store : Stores, tier : 1..3])
         /\ Checker \subseteq Starts /\ Sweeper \subseteq Sweepers
<1> USE GuardAssumption DEF GuardAssumption
<1>1. Store \in Seq(AllStores) /\ MaxTier \in 1..4
  BY DEF Store, MaxTier, Tiers
<1>2. \A s \in Stores : FsOf[s] \in DOMAIN config.total /\ Trim[s] \in Nat
  BY DEF Stores, Store, Trim
<1>3. \A f \in DOMAIN config.total : config.total[f] \in Nat
  <2>1. config.total \in [DOMAIN config.total -> Nat]
    OBVIOUS
  <2> QED BY <2>1, Zenon
<1>4. \A w \in Sweeper : Rounds[w] \in Seq([store : Stores, tier : 1..3])
  BY DEF Sweeper, Rounds, Stores, Store
<1>5. Checker \subseteq Starts /\ Sweeper \subseteq Sweepers
  BY DEF Checker, Sweeper
<1> QED BY <1>1, <1>2, <1>3, <1>4, <1>5

\* The configuration is that of the process for as long as it runs.
LEMMA ConfigKept ==
  ASSUME UNCHANGED config
  PROVE  /\ Stores' = Stores /\ Proc' = Proc /\ Checker' = Checker /\ Sweeper' = Sweeper /\ MaxTier' = MaxTier
         /\ Budget' = Budget /\ OnExceed' = OnExceed
BY DEF Stores, Store, Proc, Checker, Sweeper, MaxTier, Budget, OnExceed

\* Who is who.
LEMMA WhoIsWho ==
  ASSUME config \in Configs
  PROVE  /\ Guard \in Proc /\ Checker \subseteq Proc /\ Sweeper \subseteq Proc /\ NoOne \notin Proc
         /\ Guard \notin Checker \cup Sweeper /\ Checker \cap Sweeper = {}
BY ConfigFacts, GuardAssumption DEF GuardAssumption, Proc

-----------------------------------------------------------------------------
(***************************************************************************)
(* What a store keeps.                                                     *)
(***************************************************************************)

LEMMA MaxOfTwo == ASSUME NEW a \in Int, NEW b \in Int PROVE Max({a, b}) = IF a <= b THEN b ELSE a
BY DEF Max

LEMMA MinOfTwo == ASSUME NEW a \in Int, NEW b \in Int PROVE Min({a, b}) = IF a <= b THEN a ELSE b
BY DEF Min

\* Data that a store keeps of o and n: no more of either.
Fewer(kept, o, n) == kept.old \in 0..o /\ kept.fresh \in 0..n

LEMMA TrimmedKeepsFewer ==
  ASSUME NEW s \in Stores, old[s] \in Nat, fresh[s] \in Nat, Trim[s] \in Nat
  PROVE  Fewer(Trimmed(s), old[s], fresh[s])
<1> DEFINE aged == IF s \in config.retains THEN 0 ELSE old[s]
<1>1. aged \in 0..old[s]
  OBVIOUS
<1> HIDE DEF aged
<1>2. Trimmed(s) = IF Trim[s] = 0 THEN Kept(aged, fresh[s])
                   ELSE Kept(Max({0, Min({aged, Trim[s] - fresh[s]})}), Min({fresh[s], Trim[s]}))
  BY DEF Trimmed, aged
<1>3. PICK room \in Int : room = Min({aged, Trim[s] - fresh[s]}) /\ room <= aged
  BY <1>1, MinOfTwo
<1>4. Max({0, room}) \in 0..aged
  <2>1. Max({0, room}) = IF 0 <= room THEN room ELSE 0
    BY MaxOfTwo
  <2> QED BY <1>1, <1>3, <2>1
<1>5. Min({fresh[s], Trim[s]}) \in 0..fresh[s]
  BY MinOfTwo
<1> QED BY <1>1, <1>2, <1>3, <1>4, <1>5 DEF Fewer, Kept

\* What a successful Reclaim leaves: never more than there was, all fresh files of a shared volume,
\* and all of a cache volume below tier 4.
LEMMA LeftFacts ==
  ASSUME NEW s \in Stores, NEW tier, old[s] \in Nat, fresh[s] \in Nat, Trim[s] \in Nat
  PROVE  /\ Fewer(Left(s, tier), old[s], fresh[s])
         /\ TypeOf[s] = "shared" => Left(s, tier).fresh = fresh[s]
         /\ TypeOf[s] = "cache" /\ tier # 4 => Left(s, tier) = Kept(old[s], fresh[s])
<1>1. /\ Fewer(Kept(old[s], fresh[s]), old[s], fresh[s]) /\ Fewer(Kept(0, fresh[s]), old[s], fresh[s])
      /\ Fewer(Kept(0, 0), old[s], fresh[s]) /\ Fewer(Trimmed(s), old[s], fresh[s])
  BY TrimmedKeepsFewer DEF Fewer, Kept
<1>2. CASE tier = Measuring
  <2>1. Left(s, tier) = Kept(old[s], fresh[s])
    <3> DEFINE kept == Kept(old[s], fresh[s])
    <3>1. Shared(s, tier) = kept /\ BuildCache(s, tier) = kept /\ Tart(s, tier) = kept
          /\ CacheVolume(s, tier) = kept /\ Garbage(s, tier) = kept
      BY <1>2 DEF Shared, BuildCache, Tart, CacheVolume, Garbage, Measuring
    <3> HIDE DEF kept
    <3>2. Left(s, tier) = kept
      BY <1>2, <3>1 DEF Left, kept
    <3> QED BY <3>2 DEF kept
  <2> QED BY <1>1, <2>1 DEF Kept
<1>3. CASE tier # Measuring /\ TypeOf[s] = "shared"
  BY <1>1, <1>3 DEF Left, Shared, Kept
<1>4. CASE tier # Measuring /\ TypeOf[s] = "buildcache"
  <2>1. Left(s, tier) = BuildCache(s, tier)
    BY <1>4 DEF Left
  <2>2. BuildCache(s, tier) \in {Trimmed(s), Kept(0, 0), Kept(old[s], fresh[s])}
    BY DEF BuildCache
  <2> QED BY <1>1, <1>4, <2>1, <2>2
<1>5. CASE tier # Measuring /\ TypeOf[s] = "tart"
  <2>1. Left(s, tier) = Tart(s, tier)
    BY <1>5 DEF Left
  <2>2. Tart(s, tier) \in {Trimmed(s), Kept(old[s], fresh[s])}
    BY DEF Tart
  <2> QED BY <1>1, <1>5, <2>1, <2>2
<1>6. CASE tier # Measuring /\ TypeOf[s] = "cache"
  BY <1>1, <1>6 DEF Left, CacheVolume, Kept
<1>7. CASE tier # Measuring /\ TypeOf[s] \notin {"shared", "buildcache", "tart", "cache"}
  BY <1>1, <1>7 DEF Left, Garbage
<1> QED BY <1>2, <1>3, <1>4, <1>5, <1>6, <1>7

-----------------------------------------------------------------------------
(***************************************************************************)
(* The inductive invariant.                                                *)
(***************************************************************************)

CallSet == [store : Stores, tier : 0..4]

Filesystems == {FsOf[s] : s \in Stores}

Types ==
    /\ config \in Configs
    /\ old \in [Stores -> Nat] /\ fresh \in [Stores -> Nat]
    /\ holder \in [Stores -> Proc \cup {NoOne}]
    /\ sweeping \in {Guard, NoOne} \cup Checker
    /\ pc \in [Proc -> {"idle", "check", "call", "working", "refused", "done", "started", "stopped"}]
    /\ pass \in [Proc -> {"routine", "budget", "ladder"}]
    /\ todo \in [Proc -> Seq(CallSet)]
    /\ at \in [Proc -> [fs : Filesystems \cup {NoOne}, stores : SUBSET Stores, tier : 0..MaxTier]]
    /\ DOMAIN groups = Proc
    /\ \A p \in Proc : \A g \in groups[p] : g.fs \in Filesystems /\ g.stores \subseteq Stores
    /\ before \in [Proc -> Nat] /\ removed \in [Proc -> Nat]
    /\ overBudget \in [Proc -> Stores \cup {NoOne}]
    /\ strays \subseteq [store : Stores, tier : 1..4]

\* A process whose operation is under way, and the store it is on.
Under(p) == pc[p] \in {"working", "refused", "done"}

Subject(p) == Call(p).store

\* An operation that is under way holds the semaphore of its store.
HoldInv == \A p \in Proc : Under(p) => todo[p] # <<>> /\ holder[Subject(p)] = p

\* Until it measures again, a store has lost nothing but what the operation and the strays of
\* the store deleted.
MeasureInv ==
    \A p \in Proc : pc[p] \in {"working", "done"} => before[p] <= Size(Subject(p)) + removed[p]

\* A wholesale wipe waits only where max-tier allows it, or next in line at a process that
\* measured the store over a budget whose policy is to wipe.
Warranted(p, c) == overBudget[p] = c.store /\ OnExceed[c.store] = "wipe"

WipeInv ==
    \A p \in Proc : \A i \in DOMAIN todo[p] :
        todo[p][i].tier = 4 => MaxTier = 4 \/ (i = 1 /\ Warranted(p, todo[p][i]))

\* Only the end of its context makes a process give up, and it starts no work after that.
EndInv ==
    /\ ended \subseteq Proc /\ gaveUp \subseteq ended
    /\ \A p \in Proc : pc[p] = "working" => p \notin gaveUp

\* What is on a filesystem fits there.
SpaceInv == \A f \in DOMAIN config.total : IsFiniteSet(UnitsOn(f)) /\ Free(f) >= 0

IInv == Types /\ HoldInv /\ MeasureInv /\ WipeInv /\ EndInv /\ SpaceInv

-----------------------------------------------------------------------------
(***************************************************************************)
(* Types.                                                                  *)
(***************************************************************************)

LEMMA SeqOfMore == ASSUME NEW D, NEW E, D \subseteq E PROVE Seq(D) \subseteq Seq(E)
OBVIOUS

\* The calls of a sweep and of a round.
LEMMA PassTypes ==
  ASSUME config \in Configs
  PROVE  /\ BudgetCalls \in Seq(CallSet) /\ \A i \in DOMAIN BudgetCalls : BudgetCalls[i].tier = 0
         /\ \A S, tier : tier \in 0..4 =>
               /\ TierCalls(S, tier) \in Seq(CallSet)
               /\ \A i \in DOMAIN TierCalls(S, tier) : TierCalls(S, tier)[i].tier = tier
         /\ \A w \in Sweeper : /\ Rounds[w] \in Seq(CallSet)
                               /\ \A i \in DOMAIN Rounds[w] : Rounds[w][i].tier # 4
<1>1. ASSUME NEW S, NEW tier \in 0..4
      PROVE  Calls(S, tier) \in Seq(CallSet) /\ \A i \in DOMAIN Calls(S, tier) : Calls(S, tier)[i].tier = tier
  <2> PICK q : q = Calls(S, tier)
    OBVIOUS
  <2> DEFINE D == [store : Stores, tier : {tier}]
  <2>1. q \in Seq(D)
    <3>1. Store \in Seq(AllStores)
      BY ConfigFacts
    <3> QED BY <3>1, CallsType, Zenon
  <2>2. D \subseteq CallSet
    BY DEF CallSet
  <2>3. ASSUME NEW i \in DOMAIN q PROVE q[i] \in D /\ q[i].tier = tier
    <3>1. i \in 1..Len(q)
      BY <2>1
    <3>2. q[i] \in D
      BY <2>1, <3>1, ElementOfSeq
    <3> QED BY <3>2
  <2>4. q \in Seq(CallSet)
    <3>1. Seq(D) \subseteq Seq(CallSet)
      BY <2>2, SeqOfMore, Zenon
    <3> QED BY <2>1, <3>1
  <2> QED BY <2>3, <2>4
<1>2. BudgetCalls \in Seq(CallSet) /\ \A i \in DOMAIN BudgetCalls : BudgetCalls[i].tier = 0
  BY <1>1 DEF BudgetCalls, Measuring
<1>3. ASSUME NEW S, NEW tier \in 0..4
      PROVE  /\ TierCalls(S, tier) \in Seq(CallSet)
             /\ \A i \in DOMAIN TierCalls(S, tier) : TierCalls(S, tier)[i].tier = tier
  BY <1>1 DEF TierCalls
<1>4. ASSUME NEW w \in Sweeper
      PROVE  Rounds[w] \in Seq(CallSet) /\ \A i \in DOMAIN Rounds[w] : Rounds[w][i].tier # 4
  <2> PICK q : q = Rounds[w]
    OBVIOUS
  <2> DEFINE D == [store : Stores, tier : 1..3]
  <2>1. q \in Seq(D)
    BY ConfigFacts
  <2>2. D \subseteq CallSet
    BY DEF CallSet
  <2>3. ASSUME NEW i \in DOMAIN q PROVE q[i].tier # 4
    <3>1. i \in 1..Len(q)
      BY <2>1
    <3>2. q[i] \in D
      BY <2>1, <3>1, ElementOfSeq
    <3> QED BY <3>2
  <2>4. Seq(D) \subseteq Seq(CallSet)
    BY <2>2, SeqOfMore, Zenon
  <2> QED BY <2>1, <2>3, <2>4
<1> QED BY <1>2, <1>3, <1>4

\* A call is one of the process's pass, on a store.
LEMMA CallFacts ==
  ASSUME Types, NEW p \in Proc, todo[p] # <<>>
  PROVE  /\ todo[p] \in Seq(CallSet) /\ Len(todo[p]) \in Nat /\ Len(todo[p]) > 0
         /\ Call(p) = todo[p][1] /\ Call(p) \in CallSet /\ Subject(p) \in Stores /\ Call(p).tier \in 0..4
         /\ Tail(todo[p]) \in Seq(CallSet)
         /\ DOMAIN Tail(todo[p]) = 1..(Len(todo[p]) - 1)
         /\ \A i \in 1..(Len(todo[p]) - 1) : Tail(todo[p])[i] = todo[p][i + 1]
<1>1. todo[p] \in Seq(CallSet)
  BY DEF Types
<1>2. PICK q \in Seq(CallSet) : q = todo[p]
  BY <1>1
<1>3. /\ Len(q) \in Nat /\ Len(q) > 0 /\ Head(q) = q[1] /\ Head(q) \in CallSet
      /\ Tail(q) \in Seq(CallSet) /\ DOMAIN Tail(q) = 1..(Len(q) - 1)
      /\ \A i \in 1..(Len(q) - 1) : Tail(q)[i] = q[i + 1]
  <2>1. q # <<>>
    BY <1>2
  <2> QED BY <2>1, HeadTailProperties, LenProperties, EmptySeq
<1>4. Head(q).store \in Stores /\ Head(q).tier \in 0..4
  BY <1>3 DEF CallSet
<1> QED BY <1>2, <1>3, <1>4 DEF Call, Subject

\* A step is one process's, or the shutdown, or the jobs'.
BeginsSweep(p) == BeginSweep(p) /\ p \in {Guard} \cup Checker /\ pc[p] \in {"idle", "check"}

Calling(p) == Acquire(p) \/ GiveUp(p) \/ Work(p) \/ Fail(p) \/ Finish(p)

Laddering(p) == StatByFilesystem(p) \/ TakeFilesystem(p) \/ TierDone(p) \/ RestatFails(p)

Coming(p) == BeginsSweep(p) \/ EndSweep(p) \/ BeginRound(p) \/ EndRound(p)

\* Steps that move a process only, from where no operation is under way.
Waiting(p) == CheckDisk(p) \/ CheckFails(p) \/ SweepInProgress(p) \/ Stop(p)

LEMMA Steps ==
  ASSUME Types, Next
  PROVE  \/ \E p \in Proc : Calling(p) \/ Laddering(p) \/ Coming(p) \/ Waiting(p) \/ Expire(p)
         \/ Shutdown
         \/ \E s \in Stores : Write(s) \/ Age(s)
         \/ \E call \in strays : StrayWorks(call)
<1>0. Guard \in Proc /\ config \in Configs
  BY WhoIsWho DEF Types
<1>1. CASE \E p \in Proc : Walk(p) \/ Expire(p) \/ BeginRound(p) \/ Stop(p)
  BY <1>1 DEF Walk, Calling, Laddering, Coming, Waiting
<1>2. CASE \E p \in Proc : Start(p)
  BY <1>2 DEF Start, ReclaimBeforeStart, BeginsSweep, Coming, Waiting
<1>3. CASE Tick
  BY <1>0, <1>3 DEF Tick, BeginsSweep, Coming
<1>4. CASE Shutdown \/ Jobs \/ \E call \in strays : StrayWorks(call)
  BY <1>4 DEF Jobs
<1> QED BY <1>1, <1>2, <1>3, <1>4 DEF Next

\* An operation that is under way, and what the store loses by its work.
LEMMA Operation ==
  ASSUME Types, HoldInv, NEW p \in Proc, Under(p)
  PROVE  todo[p] # <<>> /\ Subject(p) \in Stores /\ holder[Subject(p)] = p
BY CallFacts DEF HoldInv

\* What a call leaves of a store's data, whether it is carried through or not.
PartOf(s, tier, o, n) ==
    /\ o <= old[s] /\ n <= fresh[s] /\ Size(s) - o - n \in Nat
    /\ TypeOf[s] = "shared" => n = fresh[s]
    /\ TypeOf[s] = "cache" /\ tier # 4 => o = old[s] /\ n = fresh[s]

Leaves(s, o, n) == old' = [old EXCEPT ![s] = o] /\ fresh' = [fresh EXCEPT ![s] = n]

LEMMA PartFacts ==
  ASSUME Types, NEW s \in Stores, NEW tier, NEW kept, kept = Left(s, tier) \/ kept \in PartLeft(s, tier)
  PROVE  kept.old \in Nat /\ kept.fresh \in Nat /\ PartOf(s, tier, kept.old, kept.fresh)
<1> PICK left : left = Left(s, tier)
  OBVIOUS
<1>1. old[s] \in Nat /\ fresh[s] \in Nat /\ Trim[s] \in Nat
  BY ConfigFacts DEF Types
<1>2. /\ Fewer(left, old[s], fresh[s])
      /\ TypeOf[s] = "shared" => left.fresh = fresh[s]
      /\ TypeOf[s] = "cache" /\ tier # 4 => left = Kept(old[s], fresh[s])
  BY <1>1, LeftFacts
<1>3. left.old \in 0..old[s] /\ left.fresh \in 0..fresh[s]
  BY <1>2 DEF Fewer
<1>4. kept.old \in left.old..old[s] /\ kept.fresh \in left.fresh..fresh[s]
  <2>1. CASE kept = left
    BY <1>1, <1>3, <2>1
  <2>2. CASE kept \in PartLeft(s, tier)
    BY <2>2 DEF PartLeft
  <2> QED BY <2>1, <2>2
<1>5. kept.old \in Nat /\ kept.old <= old[s] /\ kept.fresh \in Nat /\ kept.fresh <= fresh[s]
  BY <1>1, <1>3, <1>4
<1>6. Size(s) - kept.old - kept.fresh \in Nat
  BY <1>1, <1>5 DEF Size
<1>7. TypeOf[s] = "shared" => kept.fresh = fresh[s]
  BY <1>1, <1>2, <1>4
<1>8. TypeOf[s] = "cache" /\ tier # 4 => kept.old = old[s] /\ kept.fresh = fresh[s]
  BY <1>1, <1>2, <1>4 DEF Kept
<1> QED BY <1>5, <1>6, <1>7, <1>8 DEF PartOf

LEMMA WorkFacts ==
  ASSUME Types, HoldInv, NEW p \in Proc, Work(p)
  PROVE  \E s \in Stores, o \in Nat, n \in Nat, tier \in 0..4 :
            /\ s = Subject(p) /\ tier = Call(p).tier /\ Under(p) /\ pc[p] = "working"
            /\ PartOf(s, tier, o, n) /\ Leaves(s, o, n)
            /\ removed' = [removed EXCEPT ![p] = removed[p] + Size(s) - o - n]
<1>1. Under(p) /\ pc[p] = "working"
  BY DEF Work, Under
<1>2. Subject(p) \in Stores /\ Call(p).tier \in 0..4
  BY <1>1, Operation, CallFacts
<1> PICK s \in Stores, tier \in 0..4 : s = Subject(p) /\ tier = Call(p).tier
  BY <1>2
<1> PICK left : left = Left(s, tier)
  OBVIOUS
<1>3. left.old \in Nat /\ left.fresh \in Nat /\ PartOf(s, tier, left.old, left.fresh)
  BY PartFacts
<1>4. Leaves(s, left.old, left.fresh)
  BY DEF Work, Keep, Leaves, Subject
<1>5. removed' = [removed EXCEPT ![p] = removed[p] + Size(s) - left.old - left.fresh]
  BY DEF Work, Subject, Types
<1> QED BY <1>1, <1>3, <1>4, <1>5

\* A failure leaves a part of the data, and perhaps a stray of what it was at.
LEMMA FailFacts ==
  ASSUME Types, HoldInv, NEW p \in Proc, Fail(p)
  PROVE  \E s \in Stores, o \in Nat, n \in Nat, tier \in 0..4 :
            /\ s = Subject(p) /\ tier = Call(p).tier /\ Under(p)
            /\ PartOf(s, tier, o, n) /\ Leaves(s, o, n)
            /\ pc[p] # "working" => Size(s) = o + n
            /\ (strays' = strays \/ (tier \in 1..4 /\ strays' = strays \cup {Call(p)}))
<1>1. Under(p)
  BY DEF Fail, Under
<1>2. Subject(p) \in Stores /\ Call(p).tier \in 0..4
  BY <1>1, Operation, CallFacts
<1> PICK s \in Stores, tier \in 0..4 : s = Subject(p) /\ tier = Call(p).tier
  BY <1>2
<1>3. old \in [Stores -> Nat] /\ fresh \in [Stores -> Nat]
  BY DEF Types
<1>4. CASE pc[p] = "refused"
  <2>1. UNCHANGED <<old, fresh, strays>>
    BY <1>4 DEF Fail
  <2>2. Leaves(s, old[s], fresh[s]) /\ Size(s) = old[s] + fresh[s]
    BY <1>3, <2>1 DEF Leaves, Size
  <2>3. old[s] \in Nat /\ fresh[s] \in Nat /\ PartOf(s, tier, old[s], fresh[s])
    BY <1>3 DEF PartOf, Size
  <2> QED BY <1>1, <2>1, <2>2, <2>3
<1>5. CASE pc[p] = "working"
  <2> PICK kept \in PartLeft(s, tier) : Keep(s, kept)
    BY <1>5 DEF Fail, Subject
  <2>1. kept.old \in Nat /\ kept.fresh \in Nat /\ PartOf(s, tier, kept.old, kept.fresh)
    BY PartFacts
  <2>2. Leaves(s, kept.old, kept.fresh)
    BY DEF Keep, Leaves
  <2>3. strays' = strays \/ (tier \in 1..4 /\ strays' = strays \cup {Call(p)})
    BY <1>5 DEF Fail, GoesOn, Measuring
  <2> QED BY <1>1, <1>5, <2>1, <2>2, <2>3
<1> QED BY <1>4, <1>5 DEF Fail

\* What a stray takes is counted at the operation that holds the store.
LEMMA StrayFacts ==
  ASSUME Types, NEW call \in strays, StrayWorks(call)
  PROVE  \E s \in Stores, o \in Nat, n \in Nat, gone \in Nat :
            /\ s = call.store /\ PartOf(s, call.tier, o, n) /\ Leaves(s, o, n) /\ gone = Size(s) - o - n
            /\ removed' = [p \in Proc |-> removed[p] + IF p = holder[s] THEN gone ELSE 0]
            /\ strays' \subseteq strays
<1> PICK s \in Stores, tier \in 1..4 : s = call.store /\ tier = call.tier
  BY DEF Types
<1> PICK kept \in PartLeft(s, tier) :
           /\ Keep(s, kept)
           /\ removed' = [p \in Proc |-> removed[p] + IF p = holder[s] THEN Size(s) - kept.old - kept.fresh ELSE 0]
  BY DEF StrayWorks
<1>1. kept.old \in Nat /\ kept.fresh \in Nat /\ PartOf(s, tier, kept.old, kept.fresh)
  BY PartFacts
<1> PICK gone \in Nat : gone = Size(s) - kept.old - kept.fresh
  BY <1>1 DEF PartOf
<1>2. Leaves(s, kept.old, kept.fresh)
  BY DEF Keep, Leaves
<1>3. strays' \subseteq strays
  BY DEF StrayWorks
<1> QED BY <1>1, <1>2, <1>3

LEMMA DataTypes ==
  ASSUME Types, HoldInv, Next, UNCHANGED config
  PROVE  old' \in [Stores -> Nat] /\ fresh' \in [Stores -> Nat]
<1>0. old \in [Stores -> Nat] /\ fresh \in [Stores -> Nat]
  BY DEF Types
<1>1. ASSUME (\E p \in Proc : Work(p) \/ Fail(p)) \/ \E call \in strays : StrayWorks(call)
      PROVE old' \in [Stores -> Nat] /\ fresh' \in [Stores -> Nat]
  <2> PICK s \in Stores, o \in Nat, n \in Nat : Leaves(s, o, n)
    BY <1>1, WorkFacts, FailFacts, StrayFacts
  <2> QED BY <1>0 DEF Leaves
<1>2. ASSUME NEW s \in Stores, Write(s) \/ Age(s) PROVE old' \in [Stores -> Nat] /\ fresh' \in [Stores -> Nat]
  BY <1>0, <1>2 DEF Write, Age
<1>3. ASSUME UNCHANGED data PROVE old' \in [Stores -> Nat] /\ fresh' \in [Stores -> Nat]
  BY <1>0, <1>3 DEF data
<1>4. ASSUME NEW p \in Proc, Laddering(p) \/ Coming(p) \/ Waiting(p) \/ Expire(p) PROVE UNCHANGED data
  BY <1>4 DEF Laddering, Coming, Waiting, Expire, StatByFilesystem, TakeFilesystem, TierDone, RestatFails,
              BeginsSweep, BeginSweep, EndSweep, BeginRound, EndRound, CheckDisk, CheckFails, SweepInProgress, Stop
<1>5. ASSUME NEW p \in Proc, Acquire(p) \/ GiveUp(p) \/ Finish(p) PROVE UNCHANGED data
  BY <1>5 DEF Acquire, GiveUp, Finish
<1>6. Shutdown => UNCHANGED data
  BY DEF Shutdown
<1> QED BY <1>1, <1>2, <1>3, <1>4, <1>5, <1>6, Steps DEF Calling

\* Strays are reclaims that were called.
LEMMA StrayTypes ==
  ASSUME Types, HoldInv, Next, UNCHANGED config PROVE strays' \subseteq [store : Stores, tier : 1..4]
<1>0. strays \subseteq [store : Stores, tier : 1..4]
  BY DEF Types
<1>1. ASSUME NEW p \in Proc, Fail(p) PROVE strays' \subseteq [store : Stores, tier : 1..4]
  <2> PICK tier \in 0..4 :
           /\ Under(p) /\ tier = Call(p).tier
           /\ (strays' = strays \/ (tier \in 1..4 /\ strays' = strays \cup {Call(p)}))
    BY <1>1, FailFacts
  <2>0. todo[p] # <<>>
    BY Operation
  <2> PICK c \in CallSet : c = Call(p)
    BY <2>0, CallFacts
  <2>2. tier \in 1..4 => c \in [store : Stores, tier : 1..4]
    BY DEF CallSet
  <2> QED BY <1>0, <2>2
<1>2. ASSUME NEW call \in strays, StrayWorks(call) PROVE strays' \subseteq strays
  BY <1>2, StrayFacts
<1>3. ASSUME NEW p \in Proc, Calling(p) \/ Laddering(p) \/ Coming(p) \/ Waiting(p) \/ Expire(p), ~Fail(p)
      PROVE strays' = strays
  BY <1>3 DEF Calling, Acquire, GiveUp, Work, Finish, Laddering, Coming, Waiting, Expire, StatByFilesystem, TakeFilesystem,
              TierDone, RestatFails, BeginsSweep, BeginSweep, EndSweep, BeginRound, EndRound, CheckDisk, CheckFails,
              SweepInProgress, Stop, data
<1>4. Shutdown \/ (\E s \in Stores : Write(s) \/ Age(s)) => strays' = strays
  BY DEF Shutdown, Write, Age, data
<1> QED BY <1>0, <1>1, <1>2, <1>3, <1>4, Steps

LEMMA HolderTypes ==
  ASSUME Types, HoldInv, Next, UNCHANGED config
  PROVE  /\ holder' \in [Stores -> Proc \cup {NoOne}] /\ sweeping' \in {Guard, NoOne} \cup Checker
         /\ before' \in [Proc -> Nat] /\ overBudget' \in [Proc -> Stores \cup {NoOne}]
<1> DEFINE Goal == /\ holder' \in [Stores -> Proc \cup {NoOne}] /\ sweeping' \in {Guard, NoOne} \cup Checker
                   /\ before' \in [Proc -> Nat] /\ overBudget' \in [Proc -> Stores \cup {NoOne}]
<1>0. /\ holder \in [Stores -> Proc \cup {NoOne}] /\ sweeping \in {Guard, NoOne} \cup Checker
      /\ before \in [Proc -> Nat] /\ overBudget \in [Proc -> Stores \cup {NoOne}]
  BY DEF Types
<1>1. ASSUME NEW p \in Proc, Acquire(p) PROVE Goal
  <2> PICK s \in Stores : s = Call(p).store
    BY <1>1, CallFacts DEF Acquire, Subject
  <2>1. Size(s) \in Nat
    BY DEF Types, Size
  <2> QED BY <1>0, <1>1, <2>1 DEF Acquire
<1>2. ASSUME NEW p \in Proc, Fail(p) \/ Finish(p) PROVE Goal
  <2>1. Under(p)
    BY <1>2 DEF Under, Fail, Finish
  <2> PICK s \in Stores : s = Call(p).store
    BY <2>1, Operation DEF Subject
  <2>2. CASE Fail(p)
    BY <1>0, <2>2 DEF Fail
  <2>3. CASE Finish(p)
    BY <1>0, <2>3 DEF Finish
  <2> QED BY <1>2, <2>2, <2>3
<1>3. ASSUME UNCHANGED <<holder, before, overBudget>>, sweeping' \in {sweeping, Guard, NoOne} \cup Checker PROVE Goal
  BY <1>0, <1>3
<1>4. ASSUME NEW p \in Proc, Laddering(p) \/ Coming(p) \/ Waiting(p) \/ Expire(p)
      PROVE UNCHANGED <<holder, before, overBudget>> /\ sweeping' \in {sweeping, Guard, NoOne} \cup Checker
  BY <1>4 DEF Laddering, Coming, Waiting, Expire, StatByFilesystem, TakeFilesystem, TierDone, RestatFails, ghosts,
              BeginsSweep, BeginSweep, EndSweep, BeginRound, EndRound, CheckDisk, CheckFails, SweepInProgress, Stop
<1>5. ASSUME NEW p \in Proc, GiveUp(p) \/ Work(p)
      PROVE UNCHANGED <<holder, before, overBudget>> /\ sweeping' = sweeping
  BY <1>5 DEF GiveUp, Work
<1>6. Shutdown \/ (\E s \in Stores : Write(s) \/ Age(s)) \/ (\E call \in strays : StrayWorks(call))
      => UNCHANGED <<holder, before, overBudget>> /\ sweeping' = sweeping
  BY DEF Shutdown, Write, Age, StrayWorks, ghosts
<1> QED BY <1>1, <1>2, <1>3, <1>4, <1>5, <1>6, Steps DEF Calling

LEMMA RemovedTypes ==
  ASSUME Types, HoldInv, Next, UNCHANGED config PROVE removed' \in [Proc -> Nat]
<1>0. removed \in [Proc -> Nat]
  BY DEF Types
<1>1. ASSUME NEW p \in Proc, Work(p) PROVE removed' \in [Proc -> Nat]
  <2> PICK s \in Stores, o \in Nat, n \in Nat :
             /\ Size(s) - o - n \in Nat
             /\ removed' = [removed EXCEPT ![p] = removed[p] + Size(s) - o - n]
    BY <1>1, WorkFacts DEF PartOf
  <2>1. removed[p] \in Nat /\ Size(s) \in Nat
    BY <1>0 DEF Types, Size
  <2>2. removed[p] + Size(s) - o - n \in Nat
    BY <2>1
  <2> QED BY <1>0, <2>2
<1>2. ASSUME NEW p \in Proc, Acquire(p) \/ Finish(p) \/ Fail(p) PROVE removed' \in [Proc -> Nat]
  <2>1. removed' = [removed EXCEPT ![p] = 0]
    BY <1>2, Zenon DEF Acquire, Finish, Fail
  <2> QED BY <1>0, <2>1
<1>3. ASSUME NEW p \in Proc, Laddering(p) \/ Coming(p) \/ Waiting(p) \/ Expire(p) \/ GiveUp(p)
      PROVE UNCHANGED removed
  BY <1>3 DEF Laddering, Coming, Waiting, Expire, StatByFilesystem, TakeFilesystem, TierDone, RestatFails, ghosts,
              BeginsSweep, BeginSweep, EndSweep, BeginRound, EndRound, CheckDisk, CheckFails, SweepInProgress, Stop,
              GiveUp
<1>4. Shutdown \/ (\E s \in Stores : Write(s) \/ Age(s)) => UNCHANGED removed
  BY DEF Shutdown, Write, Age, ghosts
<1>5. ASSUME NEW call \in strays, StrayWorks(call) PROVE removed' \in [Proc -> Nat]
  <2> PICK s \in Stores, gone \in Nat : removed' = [p \in Proc |-> removed[p] + IF p = holder[s] THEN gone ELSE 0]
    BY <1>5, StrayFacts
  <2>1. \A p \in Proc : removed[p] \in Nat /\ removed[p] + gone \in Nat /\ removed[p] + 0 \in Nat
    BY <1>0
  <2> QED BY <2>1
<1> QED BY <1>0, <1>1, <1>2, <1>3, <1>4, <1>5, Steps DEF Calling

Positions == {"idle", "check", "call", "working", "refused", "done", "started", "stopped"}

LEMMA PositionTypes ==
  ASSUME Types, Next
  PROVE  pc' \in [Proc -> Positions] /\ pass' \in [Proc -> {"routine", "budget", "ladder"}]
<1>0. pc \in [Proc -> Positions] /\ pass \in [Proc -> {"routine", "budget", "ladder"}]
  BY DEF Types, Positions
<1>1. UNCHANGED pc \/ \E p \in Proc, to \in Positions : pc' = [pc EXCEPT ![p] = to]
  <2>1. ASSUME NEW p \in Proc, Calling(p) \/ Laddering(p) \/ Expire(p)
        PROVE UNCHANGED pc \/ \E to \in Positions : pc' = [pc EXCEPT ![p] = to]
    BY <2>1, Zenon DEF Calling, Laddering, Expire, Acquire, GiveUp, Work, Fail, Finish, StatByFilesystem, TakeFilesystem, TierDone,
                RestatFails, Positions
  <2>2. ASSUME NEW p \in Proc, Coming(p) \/ Waiting(p) PROVE \E to \in Positions : pc' = [pc EXCEPT ![p] = to]
    BY <2>2, Zenon DEF Coming, Waiting, BeginsSweep, BeginSweep, EndSweep, BeginRound, EndRound, CheckDisk, CheckFails,
                SweepInProgress, Stop, Positions
  <2>3. Shutdown \/ (\E s \in Stores : Write(s) \/ Age(s)) \/ (\E call \in strays : StrayWorks(call)) => UNCHANGED pc
    BY DEF Shutdown, Write, Age, StrayWorks
  <2> QED BY <2>1, <2>2, <2>3, Steps, Zenon
<1>2. UNCHANGED pass \/ \E p \in Proc, to \in {"routine", "budget", "ladder"} : pass' = [pass EXCEPT ![p] = to]
  <2>1. ASSUME NEW p \in Proc, Calling(p) \/ Laddering(p) \/ Expire(p) \/ Coming(p) \/ Waiting(p)
        PROVE UNCHANGED pass \/ \E to \in {"routine", "budget", "ladder"} : pass' = [pass EXCEPT ![p] = to]
    <3>1. CASE StatByFilesystem(p)
      BY <3>1, Zenon DEF StatByFilesystem
    <3>2. CASE EndSweep(p) \/ BeginsSweep(p)
      BY <3>2, Zenon DEF EndSweep, BeginsSweep, BeginSweep
    <3>3. CASE ~StatByFilesystem(p) /\ ~EndSweep(p) /\ ~BeginsSweep(p)
      BY <2>1, <3>3 DEF Calling, Laddering, Expire, Coming, Waiting, Acquire, GiveUp, Work, Fail, Finish, TakeFilesystem,
            TierDone, RestatFails, BeginRound, EndRound, CheckDisk, CheckFails, SweepInProgress, Stop, walk
    <3> QED BY <3>1, <3>2, <3>3
  <2>2. Shutdown \/ (\E s \in Stores : Write(s) \/ Age(s)) \/ (\E call \in strays : StrayWorks(call)) => UNCHANGED pass
    BY DEF Shutdown, Write, Age, StrayWorks, walk
  <2> QED BY <2>1, <2>2, Steps, Zenon
<1> QED BY <1>0, <1>1, <1>2

-----------------------------------------------------------------------------
(***************************************************************************)
(* The calls that wait in a pass.                                          *)
(***************************************************************************)

\* What may be left to call for a process whose last measurement saw b over its budget.
MayWait(q, b) ==
    \A i \in DOMAIN q : q[i].tier = 4 => MaxTier = 4 \/ (i = 1 /\ b = q[i].store /\ OnExceed[q[i].store] = "wipe")

\* After the first call of a line there is no wholesale wipe that max-tier does not allow.
LEMMA RestIsMild ==
  ASSUME Types, WipeInv, NEW p \in Proc, todo[p] # <<>>
  PROVE  \A i \in DOMAIN Tail(todo[p]) : Tail(todo[p])[i].tier = 4 => MaxTier = 4
<1>1. /\ Len(todo[p]) \in Nat /\ DOMAIN todo[p] = 1..Len(todo[p]) /\ DOMAIN Tail(todo[p]) = 1..(Len(todo[p]) - 1)
      /\ \A i \in 1..(Len(todo[p]) - 1) : Tail(todo[p])[i] = todo[p][i + 1]
  BY CallFacts, LenProperties
<1>2. ASSUME NEW i \in DOMAIN Tail(todo[p]), Tail(todo[p])[i].tier = 4 PROVE MaxTier = 4
  <2> PICK j \in DOMAIN todo[p] : j = i + 1 /\ j # 1
    BY <1>1
  <2>1. todo[p][j].tier = 4
    BY <1>1, <1>2
  <2> QED BY <2>1 DEF WipeInv
<1> QED BY <1>2

\* What follows a call: the rest, or first the wipe of the store that was over its budget.
LEMMA NextCallsFacts ==
  ASSUME Types, WipeInv, NEW p \in Proc, todo[p] # <<>>,
         NEW b, b = IF Call(p).tier = Measuring /\ Size(Call(p).store) > Budget[Call(p).store] THEN Call(p).store ELSE NoOne
  PROVE  NextCalls(p) \in Seq(CallSet) /\ MayWait(NextCalls(p), b) /\ b \in Stores \cup {NoOne}
<1> PICK s \in Stores, q \in Seq(CallSet) : s = Call(p).store /\ q = Tail(todo[p])
  BY CallFacts DEF Subject
<1>1. \A i \in DOMAIN q : q[i].tier = 4 => MaxTier = 4
  BY RestIsMild
<1> DEFINE wipe == [store |-> s, tier |-> 4]
           whole == <<wipe>> \o q
           exceeded == Call(p).tier = Measuring /\ Size(s) > Budget[s]
<1>2. wipe \in CallSet
  BY DEF CallSet
<1>3. /\ whole \in Seq(CallSet) /\ Len(q) \in Nat /\ DOMAIN whole = 1..(Len(q) + 1) /\ whole[1] = wipe
      /\ DOMAIN q = 1..Len(q) /\ \A i \in 1..Len(q) : whole[i + 1] = q[i]
  BY <1>2
<1>4. ASSUME OnExceed[s] = "wipe", b = s PROVE MayWait(whole, b)
  <2>1. ASSUME NEW i \in DOMAIN whole, i # 1, whole[i].tier = 4 PROVE MaxTier = 4
    <3> PICK j \in 1..Len(q) : i = j + 1
      <4>1. i \in 1..(Len(q) + 1)
        BY <1>3
      <4>2. i - 1 \in 1..Len(q) /\ i = (i - 1) + 1
        BY <1>3, <2>1, <4>1
      <4> QED BY <4>2
    <3>1. q[j].tier = 4
      BY <1>3, <2>1
    <3> QED BY <1>1, <1>3, <3>1
  <2>2. ASSUME NEW i \in DOMAIN whole, whole[i].tier = 4
        PROVE MaxTier = 4 \/ (i = 1 /\ b = whole[i].store /\ OnExceed[whole[i].store] = "wipe")
    <3> HIDE DEF whole
    <3>1. CASE i = 1
      <4>1. whole[i].store = s
        BY <1>3, <3>1
      <4> QED BY <1>4, <3>1, <4>1
    <3>2. CASE i # 1
      BY <2>1, <2>2, <3>2
    <3> QED BY <3>1, <3>2
  <2> HIDE DEF whole
  <2> QED BY <2>2 DEF MayWait
<1>5. CASE exceeded /\ OnExceed[s] = "wipe" /\ 4 \in TiersFor(KindOf(s))
  <2>1. NextCalls(p) = whole /\ b = s
    BY <1>5 DEF NextCalls
  <2> HIDE DEF whole
  <2> QED BY <1>3, <1>4, <1>5, <2>1
<1>6. CASE ~(exceeded /\ OnExceed[s] = "wipe" /\ 4 \in TiersFor(KindOf(s)))
  <2>1. NextCalls(p) = q
    BY <1>6 DEF NextCalls
  <2> QED BY <1>1, <2>1 DEF MayWait
<1> QED BY <1>5, <1>6

\* A line of the one tier that a pass is on.
LEMMA LinesMayWait ==
  ASSUME Types
  PROVE  /\ \A b : MayWait(BudgetCalls, b) /\ MayWait(<<>>, b)
         /\ \A b, S, tier : tier \in 0..4 /\ tier <= MaxTier => MayWait(TierCalls(S, tier), b)
         /\ \A b : \A w \in Sweeper : MayWait(Rounds[w], b)
<1>0. MaxTier \in 1..4 /\ config \in Configs
  BY ConfigFacts DEF Types
<1>1. ASSUME NEW b PROVE MayWait(BudgetCalls, b) /\ MayWait(<<>>, b)
  BY <1>0, PassTypes DEF MayWait
<1>2. ASSUME NEW b, NEW S, NEW tier \in 0..4, tier <= MaxTier PROVE MayWait(TierCalls(S, tier), b)
  BY <1>0, <1>2, PassTypes DEF MayWait
<1>3. ASSUME NEW b, NEW w \in Sweeper PROVE MayWait(Rounds[w], b)
  BY <1>0, PassTypes DEF MayWait
<1> QED BY <1>1, <1>2, <1>3

\* Every step of a process leaves it a line of calls that may wait there.
LEMMA LineSteps ==
  ASSUME Types, HoldInv, WipeInv, NEW p \in Proc,
         Calling(p) \/ Laddering(p) \/ Coming(p) \/ Waiting(p) \/ Expire(p)
  PROVE  \E q \in Seq(CallSet), b \in Stores \cup {NoOne} :
            MayWait(q, b) /\ todo' = [todo EXCEPT ![p] = q] /\ overBudget' = [overBudget EXCEPT ![p] = b]
<1> DEFINE Goal == \E q \in Seq(CallSet), b \in Stores \cup {NoOne} :
                      MayWait(q, b) /\ todo' = [todo EXCEPT ![p] = q] /\ overBudget' = [overBudget EXCEPT ![p] = b]
<1>0. /\ todo \in [Proc -> Seq(CallSet)] /\ overBudget \in [Proc -> Stores \cup {NoOne}]
      /\ at \in [Proc -> [fs : Filesystems \cup {NoOne}, stores : SUBSET Stores, tier : 0..MaxTier]]
      /\ config \in Configs /\ MaxTier \in 1..4
  BY ConfigFacts DEF Types
<1>1. MayWait(todo[p], overBudget[p])
  BY DEF WipeInv, MayWait, Warranted
<1>2. ASSUME UNCHANGED todo, UNCHANGED overBudget PROVE Goal
  <2>1. todo' = [todo EXCEPT ![p] = todo[p]] /\ overBudget' = [overBudget EXCEPT ![p] = overBudget[p]]
    BY <1>0, <1>2
  <2> QED BY <1>0, <1>1, <2>1, Zenon
<1>3. ASSUME NEW q \in Seq(CallSet), todo' = [todo EXCEPT ![p] = q], UNCHANGED overBudget, \A b : MayWait(q, b) PROVE Goal
  <2>1. overBudget' = [overBudget EXCEPT ![p] = overBudget[p]] /\ overBudget[p] \in Stores \cup {NoOne}
    BY <1>0, <1>3
  <2> QED BY <1>3, <2>1, Zenon
<1>4. CASE Acquire(p) \/ Work(p)
  <2>1. UNCHANGED todo /\ UNCHANGED overBudget
    BY <1>4 DEF Acquire, Work, walk
  <2> QED BY <1>2, <2>1
<1>5. CASE GiveUp(p)
  <2>1. todo[p] # <<>> /\ todo' = [todo EXCEPT ![p] = Tail(todo[p])] /\ UNCHANGED overBudget
    BY <1>5 DEF GiveUp
  <2>2. Tail(todo[p]) \in Seq(CallSet) /\ \A b : MayWait(Tail(todo[p]), b)
    BY <2>1, CallFacts, RestIsMild DEF MayWait
  <2> QED BY <1>3, <2>1, <2>2
<1>6. CASE Fail(p)
  <2>1. todo[p] # <<>>
    BY <1>6, Operation DEF Fail, Under
  <2>2. Tail(todo[p]) \in Seq(CallSet) /\ \A b : MayWait(Tail(todo[p]), b)
    BY <2>1, CallFacts, RestIsMild DEF MayWait
  <2>3. todo' = [todo EXCEPT ![p] = Tail(todo[p])] /\ overBudget' = [overBudget EXCEPT ![p] = NoOne]
    BY <1>6 DEF Fail
  <2> QED BY <2>2, <2>3, Zenon
<1>7. CASE Finish(p)
  <2>1. todo[p] # <<>>
    BY <1>7, Operation DEF Finish, Under
  <2> PICK b : b = IF Call(p).tier = Measuring /\ Size(Call(p).store) > Budget[Call(p).store]
                   THEN Call(p).store ELSE NoOne
    OBVIOUS
  <2>2. todo' = [todo EXCEPT ![p] = NextCalls(p)] /\ overBudget' = [overBudget EXCEPT ![p] = b]
    BY <1>7 DEF Finish
  <2>3. NextCalls(p) \in Seq(CallSet) /\ MayWait(NextCalls(p), b) /\ b \in Stores \cup {NoOne}
    BY <2>1, NextCallsFacts
  <2> QED BY <2>2, <2>3, Zenon
<1>8. CASE StatByFilesystem(p) \/ RestatFails(p) \/ EndSweep(p) \/ EndRound(p) \/ Waiting(p) \/ Expire(p)
  <2>1. UNCHANGED todo /\ UNCHANGED overBudget
    BY <1>8 DEF StatByFilesystem, RestatFails, EndSweep, EndRound, Waiting, Expire, CheckDisk, CheckFails, SweepInProgress,
                Stop, walk, ghosts
  <2> QED BY <1>2, <2>1
<1>9. CASE TakeFilesystem(p)
  <2>1. UNCHANGED overBudget /\ (UNCHANGED todo \/ \E S : todo' = [todo EXCEPT ![p] = TierCalls(S, 1)])
    BY <1>9, Zenon DEF TakeFilesystem, ghosts
  <2>2. ASSUME NEW S, todo' = [todo EXCEPT ![p] = TierCalls(S, 1)] PROVE Goal
    <3>1. TierCalls(S, 1) \in Seq(CallSet) /\ \A b : MayWait(TierCalls(S, 1), b)
      BY <1>0, PassTypes, LinesMayWait
    <3> QED BY <1>3, <2>1, <2>2, <3>1
  <2> QED BY <1>2, <2>1, <2>2
<1>10. CASE TierDone(p)
  <2>1. at[p].tier \in 0..MaxTier
    BY <1>0
  <2> PICK n \in Int : n = at[p].tier
    BY <2>1, <1>0
  <2>2. /\ UNCHANGED overBudget
        /\ UNCHANGED todo \/ (n # MaxTier /\ todo' = [todo EXCEPT ![p] = TierCalls(at[p].stores, n + 1)])
    <3>1. CASE AtTarget(at[p].fs) \/ n = MaxTier
      BY <1>10, <3>1, Zenon DEF TierDone, ghosts
    <3>2. CASE ~(AtTarget(at[p].fs) \/ n = MaxTier)
      BY <1>10, <3>2, Zenon DEF TierDone, ghosts
    <3> QED BY <3>1, <3>2
  <2>3. ASSUME n # MaxTier, NEW S, todo' = [todo EXCEPT ![p] = TierCalls(S, n + 1)] PROVE Goal
    <3>1. n + 1 \in 0..4 /\ n + 1 <= MaxTier
      BY <1>0, <2>1, <2>3
    <3>2. TierCalls(S, n + 1) \in Seq(CallSet) /\ \A b : MayWait(TierCalls(S, n + 1), b)
      BY <1>0, <3>1, PassTypes, LinesMayWait
    <3> QED BY <1>3, <2>2, <2>3, <3>2
  <2> QED BY <1>2, <2>2, <2>3
<1>11. CASE BeginsSweep(p)
  <2>1. todo' = [todo EXCEPT ![p] = BudgetCalls] /\ UNCHANGED overBudget
    BY <1>11 DEF BeginsSweep, BeginSweep, ghosts
  <2> QED BY <1>0, <1>3, <2>1, PassTypes, LinesMayWait
<1>12. CASE BeginRound(p)
  <2>1. p \in Sweeper /\ todo' = [todo EXCEPT ![p] = Rounds[p]] /\ UNCHANGED overBudget
    BY <1>12 DEF BeginRound, ghosts
  <2> QED BY <1>0, <1>3, <2>1, PassTypes, LinesMayWait
<1> QED BY <1>4, <1>5, <1>6, <1>7, <1>8, <1>9, <1>10, <1>11, <1>12 DEF Calling, Laddering, Coming

LEMMA LineKept ==
  ASSUME Types, HoldInv, WipeInv, Next, UNCHANGED config
  PROVE  todo' \in [Proc -> Seq(CallSet)] /\ WipeInv'
<1>0. todo \in [Proc -> Seq(CallSet)] /\ overBudget \in [Proc -> Stores \cup {NoOne}]
  BY DEF Types
<1>1. Proc' = Proc /\ MaxTier' = MaxTier /\ OnExceed' = OnExceed
  BY ConfigKept
<1>2. CASE \E p \in Proc : Calling(p) \/ Laddering(p) \/ Coming(p) \/ Waiting(p) \/ Expire(p)
  <2> PICK p \in Proc, q \in Seq(CallSet), b \in Stores \cup {NoOne} :
         MayWait(q, b) /\ todo' = [todo EXCEPT ![p] = q] /\ overBudget' = [overBudget EXCEPT ![p] = b]
    BY <1>2, LineSteps
  <2>1. todo' \in [Proc -> Seq(CallSet)]
    BY <1>0
  <2>2. \A r \in Proc : IF r = p THEN todo'[r] = q /\ overBudget'[r] = b
                        ELSE todo'[r] = todo[r] /\ overBudget'[r] = overBudget[r]
    BY <1>0
  <2>3. ASSUME NEW r \in Proc, NEW i \in DOMAIN todo'[r], todo'[r][i].tier = 4
        PROVE  MaxTier = 4 \/ (i = 1 /\ overBudget'[r] = todo'[r][i].store /\ OnExceed[todo'[r][i].store] = "wipe")
    <3>1. CASE r = p
      BY <2>2, <2>3, <3>1 DEF MayWait
    <3>2. CASE r # p
      BY <2>2, <2>3, <3>2 DEF WipeInv, Warranted
    <3> QED BY <3>1, <3>2
  <2> QED BY <1>1, <2>1, <2>3 DEF WipeInv, Warranted
<1>3. CASE Shutdown \/ (\E s \in Stores : Write(s) \/ Age(s)) \/ \E call \in strays : StrayWorks(call)
  <2>1. UNCHANGED todo /\ UNCHANGED overBudget
    BY <1>3 DEF Shutdown, Write, Age, StrayWorks, walk, ghosts
  <2> QED BY <1>0, <1>1, <2>1 DEF WipeInv, Warranted
<1> QED BY <1>2, <1>3, Steps

\* Where a sweep is on its ladder.
LEMMA LadderTypes ==
  ASSUME Types, Next, UNCHANGED config
  PROVE  /\ at' \in [Proc -> [fs : Filesystems \cup {NoOne}, stores : SUBSET Stores, tier : 0..MaxTier]]
         /\ DOMAIN groups' = Proc
         /\ \A p \in Proc : \A g \in groups'[p] : g.fs \in Filesystems /\ g.stores \subseteq Stores
<1> DEFINE Rungs == [fs : Filesystems \cup {NoOne}, stores : SUBSET Stores, tier : 0..MaxTier]
           Fine(g) == g.fs \in Filesystems /\ g.stores \subseteq Stores
<1>0. /\ at \in [Proc -> Rungs] /\ DOMAIN groups = Proc /\ MaxTier \in 1..4
      /\ \A p \in Proc : \A g \in groups[p] : Fine(g)
  BY ConfigFacts DEF Types
<1>1. UNCHANGED at \/ \E p \in Proc, rung \in Rungs : at' = [at EXCEPT ![p] = rung]
  <2>0. Nowhere \in Rungs
    BY <1>0 DEF Nowhere
  <2>1. ASSUME NEW p \in Proc, TakeFilesystem(p) PROVE UNCHANGED at \/ \E rung \in Rungs : at' = [at EXCEPT ![p] = rung]
    <3> PICK g \in groups[p] : UNCHANGED at \/ at' = [at EXCEPT ![p] = [fs |-> g.fs, stores |-> g.stores, tier |-> 1]]
      BY <2>1, Zenon DEF TakeFilesystem
    <3>1. [fs |-> g.fs, stores |-> g.stores, tier |-> 1] \in Rungs
      BY <1>0
    <3> QED BY <3>1
  <2>2. ASSUME NEW p \in Proc, TierDone(p) PROVE UNCHANGED at \/ \E rung \in Rungs : at' = [at EXCEPT ![p] = rung]
    <3>1. CASE AtTarget(at[p].fs) \/ at[p].tier = MaxTier
      BY <2>0, <2>2, <3>1, Zenon DEF TierDone
    <3>2. CASE ~(AtTarget(at[p].fs) \/ at[p].tier = MaxTier)
      <4> PICK rung \in Rungs : rung = at[p]
        BY <1>0
      <4>1. [rung EXCEPT !.tier = @ + 1] \in Rungs
        BY <1>0, <3>2
      <4>2. at' = [at EXCEPT ![p] = [rung EXCEPT !.tier = @ + 1]]
        <5>1. at' = [at EXCEPT ![p].tier = @ + 1]
          BY <2>2, <3>2 DEF TierDone
        <5> QED BY <1>0, <5>1
      <4> QED BY <4>1, <4>2
    <3> QED BY <3>1, <3>2
  <2>3. ASSUME NEW p \in Proc, RestatFails(p) PROVE \E rung \in Rungs : at' = [at EXCEPT ![p] = rung]
    BY <2>0, <2>3, Zenon DEF RestatFails
  <2>4. ASSUME NEW p \in Proc, StatByFilesystem(p) \/ Calling(p) \/ Coming(p) \/ Waiting(p) \/ Expire(p) PROVE UNCHANGED at
    BY <2>4 DEF StatByFilesystem, Calling, Coming, Waiting, Expire, Acquire, GiveUp, Work, Fail, Finish, BeginsSweep,
                BeginSweep, EndSweep, BeginRound, EndRound, CheckDisk, CheckFails, SweepInProgress, Stop, walk
  <2>5. Shutdown \/ (\E s \in Stores : Write(s) \/ Age(s)) \/ (\E call \in strays : StrayWorks(call)) => UNCHANGED at
    BY DEF Shutdown, Write, Age, StrayWorks, walk
  <2> HIDE DEF Rungs
  <2> QED BY <2>1, <2>2, <2>3, <2>4, <2>5, Steps DEF Laddering
<1>2. at' \in [Proc -> Rungs]
  BY <1>0, <1>1
<1>3. UNCHANGED groups \/ \E p \in Proc : \E G : groups' = [groups EXCEPT ![p] = G] /\ \A g \in G : Fine(g)
  <2>1. ASSUME NEW p \in Proc, TakeFilesystem(p) PROVE \E G : groups' = [groups EXCEPT ![p] = G] /\ \A g \in G : Fine(g)
    <3> PICK g \in groups[p] : groups' = [groups EXCEPT ![p] = @ \ {g}]
      BY <2>1, Zenon DEF TakeFilesystem
    <3>1. groups' = [groups EXCEPT ![p] = groups[p] \ {g}] /\ \A h \in groups[p] \ {g} : Fine(h)
      BY <1>0
    <3> HIDE DEF Fine
    <3> QED BY <3>1, Zenon
  <2>2. ASSUME NEW p \in Proc, StatByFilesystem(p) PROVE \E G : groups' = [groups EXCEPT ![p] = G] /\ \A g \in G : Fine(g)
    <3> PICK unread \in SUBSET Stores :
               groups' = [groups EXCEPT ![p] =
                 {[fs |-> f, free |-> Free(f), stores |-> {s \in Stores \ unread : FsOf[s] = f}] :
                      f \in {FsOf[s] : s \in Stores \ unread}}]
      BY <2>2, Zenon DEF StatByFilesystem
    <3> DEFINE G == {[fs |-> f, free |-> Free(f), stores |-> {s \in Stores \ unread : FsOf[s] = f}] :
                      f \in {FsOf[s] : s \in Stores \ unread}}
    <3>1. ASSUME NEW g \in G PROVE Fine(g)
      BY <3>1 DEF Filesystems
    <3> HIDE DEF Fine
    <3> QED BY <3>1, Zenon
  <2>3. ASSUME NEW p \in Proc, TierDone(p) \/ RestatFails(p) \/ Calling(p) \/ Coming(p) \/ Waiting(p) \/ Expire(p)
        PROVE UNCHANGED groups
    BY <2>3 DEF TierDone, RestatFails, Calling, Coming, Waiting, Expire, Acquire, GiveUp, Work, Fail, Finish, BeginsSweep,
                BeginSweep, EndSweep, BeginRound, EndRound, CheckDisk, CheckFails, SweepInProgress, Stop, walk
  <2>4. Shutdown \/ (\E s \in Stores : Write(s) \/ Age(s)) \/ (\E call \in strays : StrayWorks(call)) => UNCHANGED groups
    BY DEF Shutdown, Write, Age, StrayWorks, walk
  <2> HIDE DEF Fine
  <2> QED BY <2>1, <2>2, <2>3, <2>4, Steps DEF Laddering
<1>4. DOMAIN groups' = Proc /\ \A p \in Proc : \A g \in groups'[p] : Fine(g)
  <2> HIDE DEF Fine
  <2> QED BY <1>0, <1>3
<1> QED BY <1>2, <1>4

LEMMA TypesKept == ASSUME Types, HoldInv, WipeInv, Next, UNCHANGED config PROVE Types'
<1>1. config' \in Configs /\ Stores' = Stores /\ Proc' = Proc /\ Checker' = Checker /\ MaxTier' = MaxTier
  BY ConfigKept DEF Types
<1>2. CallSet' = CallSet /\ Filesystems' = Filesystems
  BY <1>1 DEF CallSet, Filesystems
<1> QED BY <1>1, <1>2, DataTypes, HolderTypes, RemovedTypes, StrayTypes, PositionTypes, LineKept, LadderTypes DEF Types, Positions

-----------------------------------------------------------------------------
(***************************************************************************)
(* Semaphores and measurements.                                            *)
(***************************************************************************)

\* What a step of p leaves of another process: all of it.
LEMMA OthersAlone ==
  ASSUME Types, NEW p \in Proc, NEW r \in Proc \ {p},
         Calling(p) \/ Laddering(p) \/ Coming(p) \/ Waiting(p) \/ Expire(p)
  PROVE  pc'[r] = pc[r] /\ todo'[r] = todo[r] /\ before'[r] = before[r] /\ removed'[r] = removed[r]
<1>0. /\ DOMAIN pc = Proc /\ DOMAIN todo = Proc /\ DOMAIN before = Proc /\ DOMAIN removed = Proc
  BY DEF Types
<1>1. CASE Calling(p)
  BY <1>0, <1>1 DEF Calling, Acquire, GiveUp, Work, Fail, Finish, walk
<1>2. CASE Laddering(p)
  BY <1>0, <1>2 DEF Laddering, StatByFilesystem, TakeFilesystem, TierDone, RestatFails, walk, ghosts
<1>3. CASE Coming(p) \/ Waiting(p) \/ Expire(p)
  BY <1>0, <1>3 DEF Coming, Waiting, Expire, BeginsSweep, BeginSweep, EndSweep, BeginRound, EndRound, CheckDisk, CheckFails,
                    SweepInProgress, Stop, walk, ghosts
<1> QED BY <1>1, <1>2, <1>3

\* Where a step leaves its own process: at an operation only by Acquire and Work.
LEMMA OwnPlace ==
  ASSUME Types, NEW p \in Proc,
         GiveUp(p) \/ Fail(p) \/ Finish(p) \/ Laddering(p) \/ Coming(p) \/ Waiting(p)
  PROVE  ~Under(p)'
<1>0. DOMAIN pc = Proc
  BY DEF Types
<1>1. CASE GiveUp(p) \/ Fail(p) \/ Finish(p)
  BY <1>0, <1>1 DEF GiveUp, Fail, Finish, Under
<1>2. CASE Laddering(p)
  BY <1>0, <1>2 DEF Laddering, StatByFilesystem, TakeFilesystem, TierDone, RestatFails, Under
<1>3. CASE Coming(p) \/ Waiting(p)
  BY <1>0, <1>3 DEF Coming, Waiting, BeginsSweep, BeginSweep, EndSweep, BeginRound, EndRound, CheckDisk, CheckFails,
                    SweepInProgress, Stop, Under
<1> QED BY <1>1, <1>2, <1>3

\* A process that no step touches keeps its operation, the semaphore of its store and its store.
LEMMA HoldKept == ASSUME Types, HoldInv, Next, UNCHANGED config PROVE HoldInv'
<1>0. /\ holder \in [Stores -> Proc \cup {NoOne}] /\ DOMAIN pc = Proc /\ DOMAIN todo = Proc /\ NoOne \notin Proc
      /\ Proc' = Proc
  BY WhoIsWho, ConfigKept DEF Types
<1> SUFFICES ASSUME NEW r \in Proc, Under(r)' PROVE todo'[r] # <<>> /\ holder'[Head(todo'[r]).store] = r
  BY <1>0 DEF HoldInv, Subject, Call
<1>1. ASSUME NEW p \in Proc, Calling(p) \/ Laddering(p) \/ Coming(p) \/ Waiting(p) \/ Expire(p), r # p
      PROVE  todo'[r] # <<>> /\ holder'[Head(todo'[r]).store] = r
  <2>1. pc'[r] = pc[r] /\ todo'[r] = todo[r]
    BY <1>1, OthersAlone
  <2>2. todo[r] # <<>> /\ Subject(r) \in Stores /\ holder[Subject(r)] = r
    BY <2>1, Operation DEF Under
  <2> PICK s \in Stores : s = Head(todo[r]).store /\ holder[s] = r
    BY <2>2 DEF Subject, Call
  <2>3. holder'[s] = r
    <3>1. CASE Acquire(p)
      BY <1>0, <3>1 DEF Acquire
    <3>2. CASE Fail(p) \/ Finish(p)
      <4>1. Under(p) /\ holder[Call(p).store] = p
        BY <3>2, Operation DEF Fail, Finish, Under, Subject
      <4>2. s # Call(p).store
        BY <1>1, <4>1
      <4>3. holder'[s] = holder[s]
        BY <1>0, <3>2, <4>2 DEF Fail, Finish
      <4> QED BY <4>3
    <3>3. CASE GiveUp(p) \/ Work(p) \/ Laddering(p) \/ Coming(p) \/ Waiting(p) \/ Expire(p)
      BY <3>3 DEF GiveUp, Work, Laddering, Coming, Waiting, Expire, StatByFilesystem, TakeFilesystem, TierDone, RestatFails,
                  BeginsSweep, BeginSweep, EndSweep, BeginRound, EndRound, CheckDisk, CheckFails, SweepInProgress, Stop
    <3> QED BY <1>1, <3>1, <3>2, <3>3 DEF Calling
  <2> QED BY <2>1, <2>2, <2>3
<1>2. ASSUME Calling(r) \/ Laddering(r) \/ Coming(r) \/ Waiting(r) \/ Expire(r)
      PROVE  todo'[r] # <<>> /\ holder'[Head(todo'[r]).store] = r
  <2>1. CASE Acquire(r)
    <3>1. todo[r] # <<>> /\ UNCHANGED todo /\ Call(r).store \in Stores
      BY <2>1, CallFacts DEF Acquire, Subject, walk
    <3>2. holder'[Call(r).store] = r
      BY <1>0, <2>1, <3>1 DEF Acquire
    <3> QED BY <3>1, <3>2 DEF Call
  <2>2. CASE Work(r) \/ Expire(r)
    <3>1. UNCHANGED <<todo, holder>> /\ (Work(r) => Under(r)) /\ (Expire(r) => UNCHANGED pc)
      BY <2>2 DEF Work, Expire, Under, walk
    <3>2. Under(r)
      BY <2>2, <3>1 DEF Under
    <3> QED BY <3>1, <3>2, Operation DEF Subject, Call
  <2> QED BY <1>2, <2>1, <2>2, OwnPlace DEF Calling
<1>3. ASSUME Shutdown \/ (\E s \in Stores : Write(s) \/ Age(s)) \/ \E call \in strays : StrayWorks(call)
      PROVE  todo'[r] # <<>> /\ holder'[Head(todo'[r]).store] = r
  <2>1. UNCHANGED <<pc, todo, holder>>
    BY <1>3 DEF Shutdown, Write, Age, StrayWorks, walk
  <2> QED BY <2>1, Operation DEF Under, Subject, Call
<1> QED BY <1>1, <1>2, <1>3, Steps

\* Only its own operation takes anything from a store that a process is at.
LEMMA SizeKept ==
  ASSUME Types, HoldInv, NEW p \in Proc, NEW r \in Proc \ {p}, Under(r),
         Calling(p) \/ Laddering(p) \/ Coming(p) \/ Waiting(p) \/ Expire(p)
  PROVE  Size(Subject(r))' = Size(Subject(r)) /\ Subject(r)' = Subject(r)
<1>1. Subject(r)' = Subject(r)
  BY OthersAlone DEF Subject, Call
<1> PICK s \in Stores : s = Subject(r) /\ holder[s] = r
  BY Operation
<1>2. old'[s] = old[s] /\ fresh'[s] = fresh[s]
  <2>1. CASE Work(p) \/ Fail(p)
    <3> PICK u \in Stores, o \in Nat, n \in Nat : u = Subject(p) /\ Under(p) /\ Leaves(u, o, n)
      BY <2>1, WorkFacts, FailFacts
    <3>1. u # s
      BY Operation
    <3> QED BY <3>1 DEF Types, Leaves
  <2>2. CASE Acquire(p) \/ GiveUp(p) \/ Finish(p)
    BY <2>2 DEF Acquire, GiveUp, Finish, data
  <2>3. CASE Laddering(p) \/ Coming(p) \/ Waiting(p) \/ Expire(p)
    BY <2>3 DEF Laddering, Coming, Waiting, Expire, StatByFilesystem, TakeFilesystem, TierDone, RestatFails,
              BeginsSweep, BeginSweep, EndSweep, BeginRound, EndRound, CheckDisk, CheckFails, SweepInProgress, Stop, data
  <2> QED BY <2>1, <2>2, <2>3 DEF Calling
<1>3. Size(Subject(r))' = old'[Subject(r)'] + fresh'[Subject(r)']
  BY DEF Size
<1> QED BY <1>1, <1>2, <1>3 DEF Size

LEMMA MeasureKept == ASSUME Types, HoldInv, MeasureInv, Next, UNCHANGED config PROVE MeasureInv'
<1>0. /\ DOMAIN pc = Proc /\ before \in [Proc -> Nat] /\ removed \in [Proc -> Nat] /\ Proc' = Proc
      /\ old \in [Stores -> Nat] /\ fresh \in [Stores -> Nat]
  BY ConfigKept DEF Types
<1> SUFFICES ASSUME NEW r \in Proc, pc'[r] \in {"working", "done"}
             PROVE  before'[r] <= Size(Subject(r))' + removed'[r]
  BY <1>0 DEF MeasureInv
<1> DEFINE Goal == before'[r] <= Size(Subject(r))' + removed'[r]
<1>1. ASSUME NEW p \in Proc, Calling(p) \/ Laddering(p) \/ Coming(p) \/ Waiting(p) \/ Expire(p), r # p PROVE Goal
  <2>1. pc'[r] = pc[r] /\ before'[r] = before[r] /\ removed'[r] = removed[r]
    BY <1>1, OthersAlone
  <2>2. Size(Subject(r))' = Size(Subject(r))
    BY <1>1, <2>1, SizeKept DEF Under
  <2> QED BY <2>1, <2>2 DEF MeasureInv
<1>2. CASE Acquire(r)
  <2>1. todo[r] # <<>> /\ UNCHANGED <<todo, old, fresh>> /\ Call(r).store \in Stores
    BY <1>2, CallFacts DEF Acquire, Subject, walk, data
  <2>2. Size(Subject(r))' = Size(Call(r).store)
    BY <2>1 DEF Size, Subject, Call
  <2>3. before'[r] = Size(Call(r).store) /\ removed'[r] = 0
    BY <1>0, <1>2 DEF Acquire
  <2>4. Size(Call(r).store) \in Nat
    BY <1>0, <2>1 DEF Size
  <2> QED BY <2>2, <2>3, <2>4
<1>3. CASE Work(r)
  <2> PICK s \in Stores, o \in Nat, n \in Nat :
             /\ s = Subject(r) /\ pc[r] = "working" /\ Leaves(s, o, n)
             /\ removed' = [removed EXCEPT ![r] = removed[r] + Size(s) - o - n]
    BY <1>3, WorkFacts
  <2>1. before[r] <= Size(s) + removed[r] /\ before[r] \in Nat /\ Size(s) \in Nat /\ removed[r] \in Nat
    BY <1>0 DEF MeasureInv, Size
  <2>2. before'[r] = before[r] /\ removed'[r] = removed[r] + Size(s) - o - n
    BY <1>0, <1>3 DEF Work
  <2>3. Subject(r)' = s
    BY <1>3 DEF Work, Subject, Call, walk
  <2>4. Size(Subject(r))' = o + n
    <3>1. Size(Subject(r))' = old'[Subject(r)'] + fresh'[Subject(r)']
      BY DEF Size
    <3> QED BY <1>0, <2>3, <3>1 DEF Leaves
  <2> QED BY <2>1, <2>2, <2>4
<1>4. CASE Expire(r) \/ Shutdown
  <2>1. UNCHANGED <<pc, todo, before, removed, old, fresh>>
    BY <1>4 DEF Expire, Shutdown, walk, ghosts, data
  <2>2. Size(Subject(r))' = Size(Subject(r))
    BY <2>1 DEF Size, Subject, Call
  <2> QED BY <2>1, <2>2 DEF MeasureInv
<1>5. ASSUME NEW u \in Stores, Write(u) \/ Age(u) PROVE Goal
  <2>1. UNCHANGED <<pc, todo, before, removed>>
    BY <1>5 DEF Write, Age, walk, ghosts
  <2>2. Subject(r)' = Subject(r)
    BY <2>1 DEF Subject, Call
  <2> PICK s \in Stores : s = Subject(r)
    BY <2>1, Operation DEF Under
  <2>3. old'[s] + fresh'[s] \in Nat /\ old'[s] + fresh'[s] >= old[s] + fresh[s]
    BY <1>0, <1>5 DEF Write, Age
  <2>4. Size(Subject(r))' = old'[s] + fresh'[s] /\ Size(s) = old[s] + fresh[s] /\ Size(s) \in Nat
    <3>1. Size(Subject(r))' = old'[Subject(r)'] + fresh'[Subject(r)']
      BY DEF Size
    <3> QED BY <1>0, <2>2, <3>1 DEF Size
  <2>5. before[r] \in Nat /\ removed[r] \in Nat
    BY <1>0
  <2> QED BY <2>1, <2>3, <2>4, <2>5 DEF MeasureInv
<1>6. GiveUp(r) \/ Fail(r) \/ Finish(r) \/ Laddering(r) \/ Coming(r) \/ Waiting(r) => FALSE
  BY OwnPlace DEF Under
<1>7. ASSUME NEW call \in strays, StrayWorks(call) PROVE Goal
  <2>1. UNCHANGED <<pc, todo, before, holder>>
    BY <1>7 DEF StrayWorks, walk
  <2>2. Subject(r)' = Subject(r) /\ Under(r)
    BY <2>1 DEF Subject, Call, Under
  <2> PICK u \in Stores, o \in Nat, n \in Nat, gone \in Nat :
             /\ Leaves(u, o, n) /\ gone = Size(u) - o - n
             /\ removed' = [p \in Proc |-> removed[p] + IF p = holder[u] THEN gone ELSE 0]
    BY <1>7, StrayFacts
  <2> PICK s \in Stores : s = Subject(r) /\ holder[s] = r
    BY <2>2, Operation
  <2>3. before[r] <= Size(s) + removed[r] /\ before[r] \in Nat /\ removed[r] \in Nat
    BY <1>0, <2>1 DEF MeasureInv
  <2>4. Size(Subject(r))' = old'[s] + fresh'[s] /\ Size(s) = old[s] + fresh[s] /\ Size(u) = old[u] + fresh[u]
    <3>1. Size(Subject(r))' = old'[Subject(r)'] + fresh'[Subject(r)']
      BY DEF Size
    <3> QED BY <1>0, <2>2, <3>1 DEF Size
  <2>5. CASE s = u
    <3>1. old'[s] = o /\ fresh'[s] = n /\ removed'[r] = removed[r] + gone
      BY <1>0, <2>5 DEF Leaves
    <3> QED BY <1>0, <2>1, <2>3, <2>4, <2>5, <3>1
  <2>6. CASE s # u
    <3>1. old'[s] = old[s] /\ fresh'[s] = fresh[s] /\ removed'[r] \in {removed[r], removed[r] + gone}
      BY <1>0, <2>6 DEF Leaves
    <3> QED BY <1>0, <2>1, <2>3, <2>4, <3>1
  <2> QED BY <2>5, <2>6
<1> QED BY <1>1, <1>2, <1>3, <1>4, <1>5, <1>6, <1>7, Steps DEF Calling

LEMMA EndKept == ASSUME Types, EndInv, Next, UNCHANGED config PROVE EndInv'
<1>0. DOMAIN pc = Proc /\ Proc' = Proc
  BY ConfigKept DEF Types
<1>1. ASSUME UNCHANGED <<ended, pc>>, gaveUp' \subseteq gaveUp PROVE EndInv'
  BY <1>0, <1>1 DEF EndInv
<1>2. ASSUME NEW p \in Proc, Acquire(p) PROVE EndInv'
  <2>1. UNCHANGED <<ended, gaveUp>> /\ \A r \in Proc : pc'[r] = "working" => pc[r] = "working" \/ (r = p /\ p \notin ended)
    BY <1>0, <1>2 DEF Acquire
  <2> QED BY <1>0, <2>1 DEF EndInv
<1>3. ASSUME NEW p \in Proc, GiveUp(p) PROVE EndInv'
  BY <1>0, <1>3 DEF GiveUp, EndInv
<1>4. ASSUME NEW p \in Proc, Calling(p) \/ Laddering(p) \/ Coming(p) \/ Waiting(p), ~Acquire(p), ~GiveUp(p) PROVE EndInv'
  <2>1. UNCHANGED ended /\ gaveUp' \subseteq gaveUp
    BY <1>4 DEF Calling, Laddering, Coming, Waiting, Work, Fail, Finish, StatByFilesystem, TakeFilesystem, TierDone, RestatFails,
                BeginsSweep, BeginSweep, EndSweep, BeginRound, EndRound, CheckDisk, CheckFails, SweepInProgress, Stop, ghosts
  <2>2. \A r \in Proc : pc'[r] = "working" => pc[r] = "working"
    <3>1. CASE Work(p) \/ Fail(p) \/ Finish(p)
      BY <1>0, <3>1 DEF Work, Fail, Finish
    <3>2. CASE Laddering(p)
      BY <1>0, <3>2 DEF Laddering, StatByFilesystem, TakeFilesystem, TierDone, RestatFails
    <3>3. CASE Coming(p) \/ Waiting(p)
      BY <1>0, <3>3 DEF Coming, Waiting, BeginsSweep, BeginSweep, EndSweep, BeginRound, EndRound, CheckDisk, CheckFails,
                        SweepInProgress, Stop
    <3> QED BY <1>4, <3>1, <3>2, <3>3 DEF Calling
  <2> QED BY <1>0, <2>1, <2>2 DEF EndInv
<1>5. ASSUME NEW p \in Proc, Expire(p) PROVE EndInv'
  BY <1>0, <1>5 DEF Expire, EndInv, ghosts
<1>6. CASE Shutdown
  BY <1>0, <1>6 DEF Shutdown, EndInv, ghosts
<1>7. CASE (\E s \in Stores : Write(s) \/ Age(s)) \/ \E call \in strays : StrayWorks(call)
  BY <1>1, <1>7 DEF Write, Age, StrayWorks, ghosts
<1> QED BY <1>2, <1>3, <1>4, <1>5, <1>6, <1>7, Steps

-----------------------------------------------------------------------------
(***************************************************************************)
(* Space.                                                                  *)
(***************************************************************************)

\* A step with which no store grows leaves the filesystem's units among those there were.
LEMMA NoMoreUnits ==
  ASSUME Types, SpaceInv, UNCHANGED config, NEW f \in DOMAIN config.total,
         \A s \in Stores : old'[s] + fresh'[s] \in Int /\ old'[s] + fresh'[s] <= old[s] + fresh[s]
  PROVE  IsFiniteSet(UnitsOn(f)') /\ Free(f)' >= 0
<1>1. Stores' = Stores /\ config' = config
  BY ConfigKept
<1>2. \A s \in Stores : 1..(old'[s] + fresh'[s]) \subseteq 1..(old[s] + fresh[s])
  BY DEF Types
<1>3. UnitsOn(f)' = UNION {{s} \X (1..(old'[s] + fresh'[s])) : s \in {x \in Stores : FsOf[x] = f}}
  BY <1>1 DEF UnitsOn, Size
<1>4. UnitsOn(f) = UNION {{s} \X (1..(old[s] + fresh[s])) : s \in {x \in Stores : FsOf[x] = f}}
  BY DEF UnitsOn, Size
<1>5. UnitsOn(f)' \subseteq UnitsOn(f)
  BY <1>2, <1>3, <1>4
<1> PICK now : now = UnitsOn(f)'
  OBVIOUS
<1>6. IsFiniteSet(UnitsOn(f)) /\ config.total[f] - Cardinality(UnitsOn(f)) >= 0 /\ config.total[f] \in Nat
  BY ConfigFacts DEF SpaceInv, Free, Types
<1>7. IsFiniteSet(now) /\ Cardinality(now) <= Cardinality(UnitsOn(f))
  BY <1>5, <1>6, FS_Subset
<1>8. Cardinality(now) \in Nat /\ Cardinality(UnitsOn(f)) \in Nat
  BY <1>6, <1>7, FS_CardinalityType
<1>9. Free(f)' = config.total[f] - Cardinality(now)
  BY <1>1 DEF Free
<1> QED BY <1>6, <1>7, <1>8, <1>9

\* A job writes one more unit, where there is room for one.
LEMMA OneMoreUnit ==
  ASSUME Types, SpaceInv, UNCHANGED config, NEW f \in DOMAIN config.total, NEW s \in Stores, Write(s)
  PROVE  IsFiniteSet(UnitsOn(f)') /\ Free(f)' >= 0
<1>1. Stores' = Stores /\ config' = config
  BY ConfigKept
<1>2. /\ old \in [Stores -> Nat] /\ fresh \in [Stores -> Nat]
      /\ old'[s] + fresh'[s] = old[s] + fresh[s] + 1
      /\ \A r \in Stores \ {s} : old'[r] + fresh'[r] = old[r] + fresh[r]
  <2>1. old \in [Stores -> Nat] /\ fresh \in [Stores -> Nat]
    BY DEF Types
  <2>2. old' = old /\ fresh' = [fresh EXCEPT ![s] = fresh[s] + 1]
    BY DEF Write
  <2> QED BY <2>1, <2>2
<1>3. UnitsOn(f)' = UNION {{r} \X (1..(old'[r] + fresh'[r])) : r \in {x \in Stores : FsOf[x] = f}}
  BY <1>1 DEF UnitsOn, Size
<1>4. UnitsOn(f) = UNION {{r} \X (1..(old[r] + fresh[r])) : r \in {x \in Stores : FsOf[x] = f}}
  BY DEF UnitsOn, Size
<1> PICK new : new = <<s, old[s] + fresh[s] + 1>>
  OBVIOUS
<1> PICK now, then : now = UnitsOn(f)' /\ then = UnitsOn(f)
  OBVIOUS
<1>5. IsFiniteSet(then) /\ config.total[f] - Cardinality(then) >= 0 /\ config.total[f] \in Nat
  BY ConfigFacts DEF SpaceInv, Free, Types
<1>6. Cardinality(then) \in Nat
  BY <1>5, FS_CardinalityType
<1>7. Free(f)' = config.total[f] - Cardinality(now)
  BY <1>1 DEF Free
<1>8. CASE FsOf[s] # f
  <2>1. now = then
    BY <1>2, <1>3, <1>4, <1>8
  <2> QED BY <1>5, <1>7, <2>1
<1>9. CASE FsOf[s] = f
  <2>1. Free(f) > 0
    BY <1>9 DEF Write
  <2>2. now = then \cup {new}
    <3>1. 1..(old'[s] + fresh'[s]) = (1..(old[s] + fresh[s])) \cup {old[s] + fresh[s] + 1}
      BY <1>2
    <3>2. now \subseteq then \cup {new}
      BY <1>2, <1>3, <1>4, <3>1
    <3>3. then \subseteq now
      BY <1>2, <1>3, <1>4, <3>1
    <3>4. new \in now
      BY <1>3, <1>9, <3>1
    <3> QED BY <3>2, <3>3, <3>4
  <2>3. IsFiniteSet(now) /\ Cardinality(now) <= Cardinality(then) + 1
    <3>1. /\ IsFiniteSet(then \cup {new})
          /\ Cardinality(then \cup {new}) = IF new \in then THEN Cardinality(then) ELSE Cardinality(then) + 1
      BY <1>5, FS_AddElement, Zenon
    <3> QED BY <1>6, <2>2, <3>1
  <2>4. Cardinality(now) \in Nat
    BY <2>3, FS_CardinalityType
  <2> QED BY <1>5, <1>6, <1>7, <2>1, <2>3, <2>4 DEF Free
<1> QED BY <1>8, <1>9

LEMMA SpaceKept == ASSUME Types, HoldInv, SpaceInv, Next, UNCHANGED config PROVE SpaceInv'
<1>0. old \in [Stores -> Nat] /\ fresh \in [Stores -> Nat] /\ config' = config
  BY DEF Types
<1> SUFFICES ASSUME NEW f \in DOMAIN config.total PROVE IsFiniteSet(UnitsOn(f)') /\ Free(f)' >= 0
  BY <1>0 DEF SpaceInv
<1>1. ASSUME NEW s \in Stores, Write(s) PROVE IsFiniteSet(UnitsOn(f)') /\ Free(f)' >= 0
  BY <1>1, OneMoreUnit
<1>2. ASSUME ~\E s \in Stores : Write(s)
      PROVE  \A s \in Stores : old'[s] + fresh'[s] \in Int /\ old'[s] + fresh'[s] <= old[s] + fresh[s]
  <2>1. ASSUME (\E p \in Proc : Work(p) \/ Fail(p)) \/ \E call \in strays : StrayWorks(call)
        PROVE  \A s \in Stores : old'[s] + fresh'[s] \in Int /\ old'[s] + fresh'[s] <= old[s] + fresh[s]
    <3> PICK u \in Stores, o \in Nat, n \in Nat : o <= old[u] /\ n <= fresh[u] /\ Leaves(u, o, n)
      BY <2>1, WorkFacts, FailFacts, StrayFacts DEF PartOf
    <3> QED BY <1>0 DEF Leaves
  <2>2. ASSUME NEW u \in Stores, Age(u)
        PROVE  \A s \in Stores : old'[s] + fresh'[s] \in Int /\ old'[s] + fresh'[s] <= old[s] + fresh[s]
    BY <1>0, <2>2 DEF Age
  <2>3. ASSUME NEW p \in Proc, Calling(p) \/ Laddering(p) \/ Coming(p) \/ Waiting(p) \/ Expire(p), ~Work(p), ~Fail(p) PROVE UNCHANGED data
    BY <2>3 DEF Calling, Laddering, Coming, Waiting, Expire, Acquire, GiveUp, Finish, StatByFilesystem, TakeFilesystem,
              TierDone, RestatFails, BeginsSweep, BeginSweep, EndSweep, BeginRound, EndRound, CheckDisk, CheckFails,
              SweepInProgress, Stop
  <2>4. Shutdown => UNCHANGED data
    BY DEF Shutdown
  <2>5. UNCHANGED data => \A s \in Stores : old'[s] + fresh'[s] \in Int /\ old'[s] + fresh'[s] <= old[s] + fresh[s]
    BY <1>0 DEF data
  <2> QED BY <1>2, <2>1, <2>2, <2>3, <2>4, <2>5, Steps
<1> QED BY <1>1, <1>2, NoMoreUnits

-----------------------------------------------------------------------------
(***************************************************************************)
(* The theorems.                                                           *)
(***************************************************************************)

LEMMA Initially == Init => IInv
<1> SUFFICES ASSUME Init PROVE IInv
  OBVIOUS
<1>1. config \in Configs
  BY DEF Init
<1>2. Guard \in Proc /\ NoOne \notin Proc /\ MaxTier \in 1..4
  BY <1>1, WhoIsWho, ConfigFacts
<1>3. Types
  <2>1. Nowhere \in [fs : Filesystems \cup {NoOne}, stores : SUBSET Stores, tier : 0..MaxTier]
    BY <1>2 DEF Nowhere
  <2>2. at \in [Proc -> [fs : Filesystems \cup {NoOne}, stores : SUBSET Stores, tier : 0..MaxTier]]
    BY <2>1 DEF Init
  <2>3. todo \in [Proc -> Seq(CallSet)]
    <3>1. <<>> \in Seq(CallSet)
      OBVIOUS
    <3> QED BY <3>1, Zenon DEF Init
  <2>4. /\ DOMAIN groups = Proc
        /\ \A p \in Proc : \A g \in groups[p] : g.fs \in Filesystems /\ g.stores \subseteq Stores
    BY DEF Init
  <2> QED BY <1>1, <2>2, <2>3, <2>4 DEF Init, Types
<1>4. HoldInv /\ MeasureInv
  BY DEF Init, HoldInv, MeasureInv, Under
<1>5. WipeInv
  BY DEF Init, WipeInv
<1>6. EndInv
  BY DEF Init, EndInv
<1>7. SpaceInv
  <2> SUFFICES ASSUME NEW f \in DOMAIN config.total PROVE IsFiniteSet(UnitsOn(f)) /\ Free(f) >= 0
    BY DEF SpaceInv
  <2>1. \A s \in Stores : 1..Size(s) = {}
    BY DEF Init, Size
  <2>2. UnitsOn(f) = {}
    BY <2>1 DEF UnitsOn
  <2>3. config.total[f] \in Nat
    BY <1>1, ConfigFacts
  <2>4. IsFiniteSet({}) /\ Cardinality({}) = 0
    BY FS_EmptySet, Zenon
  <2> QED BY <2>2, <2>3, <2>4 DEF Free
<1> QED BY <1>3, <1>4, <1>5, <1>6, <1>7 DEF IInv

LEMMA Preserved == IInv /\ [Next /\ UNCHANGED config]_<<vars, config>> => IInv'
<1> SUFFICES ASSUME IInv, [Next /\ UNCHANGED config]_<<vars, config>> PROVE IInv'
  OBVIOUS
<1>1. CASE Next /\ UNCHANGED config
  BY <1>1, TypesKept, HoldKept, MeasureKept, LineKept, EndKept, SpaceKept DEF IInv
<1>2. CASE UNCHANGED <<vars, config>>
  <2>1. UNCHANGED vars /\ Stores' = Stores /\ Proc' = Proc /\ Checker' = Checker /\ MaxTier' = MaxTier
        /\ OnExceed' = OnExceed /\ config' = config
    BY <1>2, ConfigKept
  <2>2. Types'
    BY <2>1 DEF IInv, Types, CallSet, Filesystems, vars
  <2>3. HoldInv' /\ WipeInv' /\ EndInv'
    BY <2>1 DEF IInv, HoldInv, WipeInv, EndInv, Under, Subject, Call, Warranted, vars
  <2>4. MeasureInv'
    BY <2>1 DEF IInv, MeasureInv, Subject, Call, Size, vars
  <2>5. SpaceInv'
    BY <2>1 DEF IInv, SpaceInv, Free, UnitsOn, Size, vars
  <2> QED BY <2>2, <2>3, <2>4, <2>5 DEF IInv
<1> QED BY <1>1, <1>2

\* Whatever the configuration, however many processes share the stores and in whatever order their
\* operations, failures and deadlines fall: an operation of a store holds its semaphore, a wholesale
\* wipe is lined up only where max-tier or a budget's policy allows it, a process whose context has
\* ended starts no work, and what is on a filesystem fits there (guard.go, store.go).
THEOREM Inductive == Spec => []IInv
BY Initially, Preserved, PTL DEF Spec

\* What an operation reports as freed.
LEMMA FreedIsNoMore ==
  ASSUME IInv, NEW p \in Proc, pc[p] = "done" PROVE Freed(p) <= removed[p]
<1>1. Subject(p) \in Stores
  BY Operation DEF IInv, Under
<1>2. before[p] \in Nat /\ removed[p] \in Nat /\ Size(Subject(p)) \in Nat
  BY <1>1 DEF IInv, Types, Size
<1>3. before[p] <= Size(Subject(p)) + removed[p]
  BY DEF IInv, MeasureInv
<1> PICK gap \in Int : gap = before[p] - Size(Subject(p))
  BY <1>2
<1>4. Max({0, gap}) = IF 0 <= gap THEN gap ELSE 0
  BY MaxOfTwo
<1>5. Freed(p) = Max({0, gap})
  BY DEF Freed, Subject
<1> QED BY <1>2, <1>3, <1>4, <1>5

LEMMA TypesImply == IInv => TypeOK /\ FreedIsOwn
<1> SUFFICES ASSUME IInv PROVE TypeOK /\ FreedIsOwn
  OBVIOUS
<1>1. ASSUME NEW p \in Proc
      PROVE  (\A i \in DOMAIN todo[p] : todo[p][i].store \in Stores) /\ at[p].tier \in 0..MaxTier
  <2>1. todo[p] \in Seq(CallSet)
    BY DEF IInv, Types
  <2>2. ASSUME NEW i \in DOMAIN todo[p] PROVE todo[p][i].store \in Stores
    <3>1. todo[p][i] \in CallSet
      BY <2>1
    <3> QED BY <3>1 DEF CallSet
  <2>3. at[p].tier \in 0..MaxTier
    <3>1. at[p] \in [fs : Filesystems \cup {NoOne}, stores : SUBSET Stores, tier : 0..MaxTier]
      BY DEF IInv, Types
    <3> QED BY <3>1
  <2> QED BY <2>2, <2>3
<1>2. /\ old \in [Stores -> Nat] /\ fresh \in [Stores -> Nat]
      /\ holder \in [Stores -> Proc \cup {NoOne}] /\ sweeping \in {Guard, NoOne} \cup Checker
      /\ pc \in [Proc -> {"idle", "check", "call", "working", "refused", "done", "started", "stopped"}]
      /\ pass \in [Proc -> {"routine", "budget", "ladder"}]
  BY DEF IInv, Types
<1>3. (\A f \in DOMAIN config.total : Free(f) >= 0) /\ ended \subseteq Proc /\ gaveUp \subseteq Proc
      /\ strays \subseteq [store : Stores, tier : Tiers]
  BY DEF IInv, SpaceInv, EndInv, Types, Tiers
<1> QED BY <1>1, <1>2, <1>3, FreedIsNoMore DEF TypeOK, FreedIsOwn

\* A process that gave up on a store deletes nothing more in that pass: it has no context.
LEMMA EscalatesStep ==
  ASSUME IInv, NEW p \in Proc, NEW s \in Stores, Deletes(p, s) PROVE p \notin gaveUp
<1>1. CASE Work(p)
  BY <1>1 DEF IInv, EndInv, Work
<1>2. CASE Fail(p)
  <2> PICK u \in Stores, o \in Nat, n \in Nat :
             u = Subject(p) /\ Leaves(u, o, n) /\ (pc[p] # "working" => Size(u) = o + n)
    BY <1>2, FailFacts DEF IInv
  <2>1. s = u /\ old'[s] + fresh'[s] < old[s] + fresh[s]
    BY DEF Deletes, Subject
  <2>2. old'[s] = o /\ fresh'[s] = n /\ old[s] \in Nat /\ fresh[s] \in Nat
    BY <2>1 DEF IInv, Types, Leaves
  <2>3. pc[p] = "working"
    BY <2>1, <2>2 DEF Size
  <2> QED BY <2>3 DEF IInv, EndInv
<1> QED BY <1>1, <1>2 DEF Deletes

\* Two callers of one store never report each other's deletions, however their operations fail in
\* the middle, and the guard deletes at a costlier tier only in a sweep that waited for every milder
\* store and let it run or fail (serialized in store.go, sweepFilesystem in guard.go).
THEOREM SweepsOnOwnWorkHolds == Spec => SweepsOnOwnWork
<1>1. IInv /\ [Next /\ UNCHANGED config]_<<vars, config>>
      => [\A p \in Proc, s \in Stores :
            (Deletes(p, s) /\ pass[p] = "ladder" /\ Call(p).tier > 1) => p \notin gaveUp]_vars
  BY EscalatesStep
<1> QED BY <1>1, Inductive, TypesImply, PTL DEF Spec, SweepsOnOwnWork, EscalatesOnWork

\* Two operations of one store, or what one of them left behind, take from it, and nothing else.
LEMMA OnlyWorkTakes ==
  ASSUME IInv, Next, UNCHANGED config, NEW s \in Stores, old'[s] + fresh'[s] < old[s] + fresh[s] \/ fresh'[s] < fresh[s]
  PROVE  \/ Age(s) /\ old'[s] + fresh'[s] = old[s] + fresh[s]
         \/ \E p \in Proc : (Work(p) \/ Fail(p)) /\ Subject(p) = s
         \/ \E call \in strays : StrayWorks(call) /\ call.store = s
<1>0. old \in [Stores -> Nat] /\ fresh \in [Stores -> Nat] /\ Types /\ HoldInv
  BY DEF IInv, Types
<1>1. ASSUME UNCHANGED data PROVE FALSE
  BY <1>0, <1>1 DEF data
<1>2. ASSUME NEW u \in Stores, Write(u) \/ Age(u) PROVE Age(s) /\ old'[s] + fresh'[s] = old[s] + fresh[s]
  <2>1. ASSUME Write(u) PROVE FALSE
    <3>1. old' = old /\ fresh' = [fresh EXCEPT ![u] = fresh[u] + 1]
      BY <2>1 DEF Write
    <3> QED BY <1>0, <3>1
  <2>2. CASE Age(u)
    <3>1. /\ old' = [old EXCEPT ![u] = old[u] + 1] /\ fresh' = [fresh EXCEPT ![u] = fresh[u] - 1]
          /\ fresh[u] > 0
      BY <2>2 DEF Age
    <3>2. u = s
      BY <1>0, <3>1
    <3> QED BY <1>0, <2>2, <3>1, <3>2
  <2> QED BY <1>2, <2>1, <2>2
<1>3. ASSUME NEW u \in Stores, NEW o, NEW n, Leaves(u, o, n) PROVE u = s
  BY <1>0, <1>3 DEF Leaves
<1>4. ASSUME NEW p \in Proc, Work(p) \/ Fail(p) PROVE Subject(p) = s
  <2> PICK u \in Stores, o \in Nat, n \in Nat : u = Subject(p) /\ Leaves(u, o, n)
    BY <1>0, <1>4, WorkFacts, FailFacts
  <2> QED BY <1>3
<1>5. ASSUME NEW call \in strays, StrayWorks(call) PROVE call.store = s
  <2> PICK u \in Stores, o \in Nat, n \in Nat : u = call.store /\ Leaves(u, o, n)
    BY <1>0, <1>5, StrayFacts
  <2> QED BY <1>3
<1>6. ASSUME NEW p \in Proc, Calling(p) \/ Laddering(p) \/ Coming(p) \/ Waiting(p) \/ Expire(p), ~Work(p), ~Fail(p)
      PROVE UNCHANGED data
  BY <1>6 DEF Calling, Laddering, Coming, Waiting, Expire, Acquire, GiveUp, Finish, StatByFilesystem,
              TakeFilesystem, TierDone, RestatFails, BeginsSweep, BeginSweep, EndSweep, BeginRound, EndRound, CheckDisk,
              CheckFails, SweepInProgress, Stop
<1>7. Shutdown => UNCHANGED data
  BY DEF Shutdown
<1>8. CASE \E p \in Proc : Calling(p) \/ Laddering(p) \/ Coming(p) \/ Waiting(p) \/ Expire(p)
  BY <1>1, <1>4, <1>6, <1>8
<1>9. CASE Shutdown \/ (\E u \in Stores : Write(u) \/ Age(u)) \/ \E call \in strays : StrayWorks(call)
  BY <1>1, <1>2, <1>5, <1>7, <1>9
<1> QED BY <1>0, <1>8, <1>9, Steps

\* A call that waits in line for tier 4, and is now at it, is a wipe that was allowed.
LEMMA WipeAllowed ==
  ASSUME IInv, NEW p \in Proc, Work(p) \/ Fail(p), Call(p).tier = 4
  PROVE  WipeDue(Subject(p))
<1>0. Types /\ HoldInv /\ Under(p)
  BY DEF IInv, Work, Fail, Under
<1>2. todo[p] # <<>> /\ Call(p) = todo[p][1] /\ Len(todo[p]) \in Nat /\ Len(todo[p]) > 0 /\ todo[p] \in Seq(CallSet)
  BY <1>0, Operation, CallFacts
<1>3. 1 \in DOMAIN todo[p]
  BY <1>2
<1>4. MaxTier = 4 \/ Warranted(p, todo[p][1])
  BY <1>2, <1>3 DEF IInv, WipeInv
<1> QED BY <1>2, <1>4 DEF Warranted, Subject, WipeDue

\* What takes from a cache volume is at tier 4.
LEMMA CacheTaken ==
  ASSUME IInv, NEW p \in Proc, Work(p) \/ Fail(p), NEW s \in Stores, s = Subject(p), TypeOf[s] = "cache",
         old'[s] + fresh'[s] < old[s] + fresh[s]
  PROVE  WipeDue(s)
<1>0. Types /\ HoldInv /\ old \in [Stores -> Nat] /\ fresh \in [Stores -> Nat]
  BY DEF IInv, Types
<1> PICK u \in Stores, o \in Nat, n \in Nat, tier \in 0..4 :
           u = Subject(p) /\ tier = Call(p).tier /\ PartOf(u, tier, o, n) /\ Leaves(u, o, n)
  BY <1>0, WorkFacts, FailFacts
<1>1. tier = 4
  BY <1>0 DEF PartOf, Leaves
<1> QED BY <1>1, WipeAllowed

\* A wipe that is left behind was due when it failed.
LEMMA StrayWipe ==
  ASSUME IInv, Next, UNCHANGED config, NEW s \in Stores, [store |-> s, tier |-> 4] \in strays' \ strays
  PROVE  WipeDue(s)
<1>0. Types /\ HoldInv
  BY DEF IInv
<1>1. ASSUME NEW p \in Proc, Fail(p) PROVE WipeDue(s)
  <2>1. Call(p) = [store |-> s, tier |-> 4]
    BY <1>0, <1>1, FailFacts
  <2>2. Call(p).tier = 4 /\ Subject(p) = s
    BY <2>1 DEF Subject
  <2> QED BY <1>1, <2>2, WipeAllowed
<1>2. ASSUME NEW call \in strays, StrayWorks(call) PROVE FALSE
  BY <1>0, <1>2, StrayFacts
<1>3. ASSUME NEW p \in Proc, Calling(p) \/ Laddering(p) \/ Coming(p) \/ Waiting(p) \/ Expire(p), ~Fail(p)
      PROVE strays' = strays
  BY <1>3 DEF Calling, Acquire, GiveUp, Work, Finish, Laddering, Coming, Waiting, Expire, StatByFilesystem, TakeFilesystem,
              TierDone, RestatFails, BeginsSweep, BeginSweep, EndSweep, BeginRound, EndRound, CheckDisk, CheckFails,
              SweepInProgress, Stop, data
<1>4. Shutdown \/ (\E u \in Stores : Write(u) \/ Age(u)) => strays' = strays
  BY DEF Shutdown, Write, Age, data
<1> QED BY <1>0, <1>1, <1>2, <1>3, <1>4, Steps

\* Files of a shared volume within their max age are kept at every tier, and a cache volume loses
\* data only if max-tier allows tier 4 or its own budget's policy is to wipe, by operations that
\* fail half way and by what they leave behind as well (volume.go, guard.go).
THEOREM RetainedDataKeptHolds == Spec => RetainedDataKept
<1>1. ASSUME IInv, [Next /\ UNCHANGED config]_<<vars, config>>
      PROVE  [\A s \in Stores : (TypeOf[s] = "shared" /\ fresh'[s] < fresh[s]) => Age(s)]_vars
  <2> SUFFICES ASSUME Next, UNCHANGED config, NEW s \in Stores, TypeOf[s] = "shared", fresh'[s] < fresh[s]
               PROVE  Age(s)
    BY <1>1 DEF vars
  <2>1. Types /\ HoldInv /\ fresh \in [Stores -> Nat]
    BY <1>1 DEF IInv, Types
  <2>2. ASSUME NEW o, NEW n, NEW tier, PartOf(s, tier, o, n), Leaves(s, o, n) PROVE FALSE
    BY <2>1, <2>2 DEF PartOf, Leaves
  <2>3. ASSUME NEW p \in Proc, Work(p) \/ Fail(p), Subject(p) = s PROVE FALSE
    BY <2>1, <2>2, <2>3, WorkFacts, FailFacts
  <2>4. ASSUME NEW call \in strays, StrayWorks(call), call.store = s PROVE FALSE
    BY <2>1, <2>2, <2>4, StrayFacts
  <2> QED BY <1>1, <2>3, <2>4, OnlyWorkTakes
<1>2. ASSUME IInv, [Next /\ UNCHANGED config]_<<vars, config>>
      PROVE  [\A s \in Stores : TypeOf[s] = "cache" =>
                /\ Size(s)' < Size(s) => WipeDue(s) \/ \E call \in strays : call.store = s /\ StrayWorks(call)
                /\ [store |-> s, tier |-> 4] \in strays' \ strays => WipeDue(s)]_vars
  <2> SUFFICES ASSUME Next, UNCHANGED config, NEW s \in Stores, TypeOf[s] = "cache"
               PROVE  /\ Size(s)' < Size(s) => WipeDue(s) \/ \E call \in strays : call.store = s /\ StrayWorks(call)
                      /\ [store |-> s, tier |-> 4] \in strays' \ strays => WipeDue(s)
    BY <1>2 DEF vars, Size
  <2>1. ASSUME old'[s] + fresh'[s] < old[s] + fresh[s]
        PROVE  WipeDue(s) \/ \E call \in strays : call.store = s /\ StrayWorks(call)
    <3>1. old \in [Stores -> Nat] /\ fresh \in [Stores -> Nat]
      BY <1>2 DEF IInv, Types
    <3>2. ~(old'[s] + fresh'[s] = old[s] + fresh[s])
      BY <2>1, <3>1
    <3>3. \/ \E p \in Proc : (Work(p) \/ Fail(p)) /\ Subject(p) = s
          \/ \E call \in strays : StrayWorks(call) /\ call.store = s
      BY <1>2, <2>1, <3>2, OnlyWorkTakes
    <3> QED BY <1>2, <2>1, <3>3, CacheTaken
  <2>2. Size(s)' = old'[s] + fresh'[s] /\ Size(s) = old[s] + fresh[s]
    BY DEF Size
  <2>3. [store |-> s, tier |-> 4] \in strays' \ strays => WipeDue(s)
    BY <1>2, StrayWipe
  <2> QED BY <2>1, <2>2, <2>3
<1> QED BY <1>1, <1>2, Inductive, PTL DEF Spec, RetainedDataKept, UnexpiredScratchKept, CacheVolumeKept
=============================================================================
