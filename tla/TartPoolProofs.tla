--------------------------- MODULE TartPoolProofs ---------------------------
(***************************************************************************)
(* The slots of the Tart host, for every number of scale sets, pool sizes  *)
(* and slots, whatever commands fail and whichever contexts end when.      *)
(*                                                                         *)
(* A *warmVM is carried about: by the goroutine that boots it, by the      *)
(* pool, by the starter that took it from there, and in activeVMs.  The    *)
(* invariant says that it is carried by one of them at a time, that what   *)
(* is carried holds its slot and has not been cancelled, and that a slot   *)
(* that is not carried is waited for by a reaper.                          *)
(***************************************************************************)
EXTENDS TartPool, TLAPS

-----------------------------------------------------------------------------
(***************************************************************************)
(* The inductive invariant.                                                *)
(***************************************************************************)

\* Somebody has the *warmVM and has yet to destroy it.
Carried(v) == v \in active \/ Pooled(v) \/ \E w \in Workers : task[w].vm = v

\* Where a goroutine has a VM in hand.
HandPlaces == {"preparing", "booting", "offering", "clearing", "leaving", "discarding", "starting", "aborting"}

HandInv ==
    \A w \in Workers :
       /\ task[w].at \in HandPlaces <=> task[w].vm \in VMs
       /\ task[w].at = "preparing" => vms[task[w].vm].run = "off"

CarriedInv == \A v \in VMs : Carried(v) => Holds(v) /\ ~vms[v].cancelled

SlotInv == \A v \in VMs : Holds(v) => Carried(v) \/ Reaped(v)

\* What runs has its clone, and what the controller believes it has as well.
DiskInv ==
    /\ \A v \in VMs : vms[v].run = "up" => vms[v].onDisk
    /\ \A v \in serving : vms[v].onDisk /\ (v \notin active => ~Holds(v) /\ vms[v].run = "off")

\* A pool is stopped by its provider's Shutdown, which comes after the removals.
StopInv == \A s \in stopped : stopper[s] \notin {"none", "removing"}

IInv ==
    /\ TypeOK /\ SlotsAccounted /\ SlotWhileRunning /\ OneHolder
    /\ HandInv /\ CarriedInv /\ SlotInv /\ DiskInv /\ StopInv

-----------------------------------------------------------------------------
(***************************************************************************)
(* The pools.                                                              *)
(***************************************************************************)

LEMMA AppendFacts ==
  ASSUME NEW q \in Seq(VMs), NEW v \in VMs
  PROVE  /\ Append(q, v) \in Seq(VMs) /\ Len(Append(q, v)) = Len(q) + 1
         /\ \A i \in 1 .. Len(q) : Append(q, v)[i] = q[i]
         /\ Append(q, v)[Len(q) + 1] = v
OBVIOUS

LEMMA TailFacts ==
  ASSUME NEW q \in Seq(VMs), q # <<>>
  PROVE  /\ Tail(q) \in Seq(VMs) /\ Len(q) \in Nat /\ Len(q) > 0 /\ Len(Tail(q)) = Len(q) - 1
         /\ \A i \in 1 .. Len(q) - 1 : Tail(q)[i] = q[i + 1]
         /\ Head(q) = q[1] /\ Head(q) \in VMs
OBVIOUS

\* What a pool gets and gives.
LEMMA PoolGets ==
  ASSUME TypeOK, NEW s \in Sets, NEW v \in VMs, pool' = [pool EXCEPT ![s] = Append(@, v)]
  PROVE  \A u : Pooled(u)' <=> Pooled(u) \/ u = v
<1>1. pool[s] \in Seq(VMs) /\ Len(pool[s]) \in Nat
  BY DEF TypeOK
<1>2. /\ \A t \in Sets \ {s} : pool'[t] = pool[t]
      /\ pool'[s] = Append(pool[s], v)
  BY DEF TypeOK
<1>3. ASSUME NEW u PROVE InPool(u, s)' <=> InPool(u, s) \/ u = v
  BY <1>1, <1>2, AppendFacts DEF InPool
<1>4. ASSUME NEW u, NEW t \in Sets \ {s} PROVE InPool(u, t)' <=> InPool(u, t)
  BY <1>2 DEF InPool
<1> QED BY <1>3, <1>4 DEF Pooled

LEMMA PoolGives ==
  ASSUME TypeOK, OneHolder, NEW s \in Sets, pool[s] # <<>>, pool' = [pool EXCEPT ![s] = Tail(@)]
  PROVE  /\ Head(pool[s]) \in VMs /\ Pooled(Head(pool[s]))
         /\ \A u : Pooled(u)' <=> Pooled(u) /\ u # Head(pool[s])
<1>1. pool[s] \in Seq(VMs) /\ Len(pool[s]) \in Nat
  BY DEF TypeOK
<1>2. /\ \A t \in Sets \ {s} : pool'[t] = pool[t]
      /\ pool'[s] = Tail(pool[s])
  BY DEF TypeOK
<1>9. /\ Len(pool[s]) > 0 /\ Len(pool'[s]) = Len(pool[s]) - 1
      /\ \A i \in 1 .. Len(pool[s]) - 1 : pool'[s][i] = pool[s][i + 1]
  BY <1>1, <1>2, TailFacts
<1>3. Head(pool[s]) = pool[s][1] /\ 1 \in 1 .. Len(pool[s]) /\ Head(pool[s]) \in VMs
  BY <1>1, TailFacts
<1>4. InPool(Head(pool[s]), s)
  BY <1>3 DEF InPool
<1>5. ASSUME NEW u PROVE InPool(u, s)' <=> InPool(u, s) /\ u # Head(pool[s])
  <2>1. ASSUME NEW i \in 1 .. Len(pool'[s]), pool'[s][i] = u PROVE InPool(u, s) /\ u # Head(pool[s])
    <3>1. i + 1 \in 1 .. Len(pool[s]) /\ pool[s][i + 1] = u /\ i + 1 # 1
      BY <1>1, <1>2, <1>9, <2>1
    <3> QED BY <1>3, <3>1 DEF InPool, OneHolder
  <2>2. ASSUME NEW i \in 1 .. Len(pool[s]), pool[s][i] = u, u # Head(pool[s]) PROVE InPool(u, s)'
    <3>1. i - 1 \in 1 .. Len(pool'[s]) /\ pool'[s][i - 1] = u
      BY <1>1, <1>2, <1>3, <1>9, <2>2
    <3> QED BY <3>1 DEF InPool
  <2> QED BY <2>1, <2>2 DEF InPool
<1>6. ASSUME NEW u, NEW t \in Sets \ {s} PROVE (InPool(u, t)' <=> InPool(u, t)) /\ (InPool(u, t) => u # Head(pool[s]))
  <2>1. InPool(u, t)' <=> InPool(u, t)
    BY <1>2 DEF InPool
  <2>2. InPool(u, t) => u # Head(pool[s])
    BY <1>3 DEF InPool, OneHolder
  <2> QED BY <2>1, <2>2
<1> QED BY <1>3, <1>4, <1>5, <1>6 DEF Pooled

\* Each VM is in the pools at most once.
InPoolsOnce ==
    \A s, t \in Sets : \A i \in 1 .. Len(pool[s]), j \in 1 .. Len(pool[t]) :
       pool[s][i] = pool[t][j] => s = t /\ i = j

LEMMA OnceGets ==
  ASSUME TypeOK, InPoolsOnce, NEW s \in Sets, NEW v \in VMs, ~Pooled(v), pool' = [pool EXCEPT ![s] = Append(@, v)]
  PROVE  InPoolsOnce'
<1>1. pool[s] \in Seq(VMs) /\ Len(pool[s]) \in Nat
  BY DEF TypeOK
<1>2. /\ \A t \in Sets \ {s} : pool'[t] = pool[t]
      /\ pool'[s] = Append(pool[s], v) /\ Len(pool'[s]) = Len(pool[s]) + 1
      /\ \A i \in 1 .. Len(pool[s]) : pool'[s][i] = pool[s][i]
      /\ pool'[s][Len(pool[s]) + 1] = v
  BY <1>1, AppendFacts DEF TypeOK
<1>3. \A t \in Sets : \A i \in 1 .. Len(pool[t]) : pool[t][i] # v
  BY DEF Pooled, InPool
<1>4. ASSUME NEW t \in Sets, NEW i \in 1 .. Len(pool'[t])
      PROVE  \/ i \in 1 .. Len(pool[t]) /\ pool'[t][i] = pool[t][i]
             \/ t = s /\ i = Len(pool[s]) + 1 /\ pool'[t][i] = v
  BY <1>1, <1>2, <1>4
<1> QED BY <1>1, <1>3, <1>4 DEF InPoolsOnce

LEMMA OnceGives ==
  ASSUME TypeOK, InPoolsOnce, NEW s \in Sets, pool[s] # <<>>, pool' = [pool EXCEPT ![s] = Tail(@)]
  PROVE  InPoolsOnce'
<1>1. pool[s] \in Seq(VMs) /\ Len(pool[s]) \in Nat
  BY DEF TypeOK
<1>2. /\ \A t \in Sets \ {s} : pool'[t] = pool[t]
      /\ pool'[s] = Tail(pool[s])
  BY DEF TypeOK
<1>9. /\ Len(pool[s]) > 0 /\ Len(pool'[s]) = Len(pool[s]) - 1
      /\ \A i \in 1 .. Len(pool[s]) - 1 : pool'[s][i] = pool[s][i + 1]
  BY <1>1, <1>2, TailFacts
<1>3. ASSUME NEW t \in Sets, NEW i \in 1 .. Len(pool'[t])
      PROVE  \/ t # s /\ i \in 1 .. Len(pool[t]) /\ pool'[t][i] = pool[t][i]
             \/ t = s /\ i + 1 \in 1 .. Len(pool[t]) /\ pool'[t][i] = pool[t][i + 1]
  BY <1>1, <1>2, <1>9, <1>3
<1> QED BY <1>1, <1>3 DEF InPoolsOnce

-----------------------------------------------------------------------------
(***************************************************************************)
(* What happens to a VM.                                                   *)
(***************************************************************************)

USE DEF NoSlot

LEMMA SlotType == NoSlot \notin Slots /\ \A idx \in Slots : idx # NoSlot
BY LimitAssumption DEF Slots

LEMMA BlankType == Blank \in VM /\ Blank.onDisk = FALSE /\ Blank.slot = NoSlot /\ Blank.run = "off" /\ ~Blank.reaped
BY DEF Blank, VM

Alters(v) == vms'[v] \in VM /\ vms' = [vms EXCEPT ![v] = vms'[v]]

\* Its slot is given back.
Freed(v) ==
    /\ Alters(v) /\ vms'[v].slot = NoSlot /\ free' = free \cup ({vms[v].slot} \ {NoSlot})
    /\ vms'[v].run = "up" => vms'[v].abandoned /\ vms'[v].onDisk
    /\ vms'[v].reaped => vms[v].reaped

\* Its slot is kept for a reaper.
Stuck(v) ==
    /\ Alters(v) /\ UNCHANGED free /\ vms'[v].slot = vms[v].slot /\ vms'[v].reaped
    /\ vms'[v].run = "up" /\ vms[v].run = "up" /\ vms'[v].onDisk = vms[v].onDisk
    /\ vms'[v].abandoned = vms[v].abandoned

LEMMA Releases ==
  ASSUME TypeOK, NEW v \in VMs, NEW vm \in VM, vm.slot = vms[v].slot, vm.reaped = vms[v].reaped,
         vm.run = "up" => vm.abandoned /\ vm.onDisk, release(v, vm)
  PROVE  Freed(v) /\ vms'[v].run = vm.run /\ vms'[v].onDisk = vm.onDisk
<1>1. vms' = [vms EXCEPT ![v] = WithoutSlot(vm)] /\ vms'[v] = WithoutSlot(vm)
  BY DEF release, TypeOK
<1>2. CASE vm.onDisk \/ vm.run = "up"
  <2>1. vms'[v] = [vm EXCEPT !.slot = NoSlot]
    BY <1>1, <1>2 DEF WithoutSlot
  <2>2. vms'[v] \in VM /\ vms'[v].slot = NoSlot
    BY <2>1 DEF VM
  <2>3. vms'[v].run = vm.run /\ vms'[v].onDisk = vm.onDisk /\ vms'[v].abandoned = vm.abandoned /\ vms'[v].reaped = vm.reaped
    BY <2>1 DEF VM
  <2> QED BY <1>1, <2>2, <2>3 DEF Freed, Alters, Holds, release
<1>3. CASE ~vm.onDisk /\ vm.run # "up"
  <2>1. vms'[v] = Blank
    BY <1>1, <1>3 DEF WithoutSlot
  <2>2. vm.run = "off" /\ vm.onDisk = FALSE
    BY <1>3 DEF VM
  <2> QED BY <1>1, <2>1, <2>2, BlankType DEF Freed, Alters, Holds, release
<1> QED BY <1>2, <1>3

LEMMA CleanUps ==
  ASSUME TypeOK, NEW v \in VMs, NEW outcome \in Outcomes(v)
  PROVE  LET vm == AfterCleanUp(vms[v], outcome)
         IN  /\ vm \in VM /\ vm.slot = vms[v].slot /\ vm.reaped = vms[v].reaped /\ vm.abandoned = vms[v].abandoned
             /\ vm.owner = vms[v].owner /\ vm.pooled = vms[v].pooled
             /\ outcome # "up" => vm.run = "off"
             /\ outcome = "up" => vm.run = "up" /\ vms[v].run = "up"
             /\ outcome # "gone" => vm.onDisk = vms[v].onDisk
             /\ outcome = "gone" => ~vm.onDisk
<1> DEFINE old == vms[v]
           vm  == AfterCleanUp(old, outcome)
<1>1. old \in VM /\ outcome \in {"gone", "stopped", "up"} /\ (outcome = "up" => old.run = "up")
  BY DEF Outcomes, TypeOK
<1> HIDE DEF old
<1>2. /\ vm.slot = old.slot /\ vm.reaped = old.reaped /\ vm.abandoned = old.abandoned
      /\ vm.owner = old.owner /\ vm.pooled = old.pooled /\ vm.cancelled = TRUE
      /\ vm.run = IF outcome = "up" THEN "up" ELSE "off"
      /\ vm.onDisk = (outcome # "gone" /\ old.onDisk)
  BY <1>1 DEF AfterCleanUp, VM
<1>3. vm \in VM
  BY <1>1 DEF AfterCleanUp, VM
<1>4. outcome # "gone" => vm.onDisk = old.onDisk
  BY <1>1, <1>2 DEF VM
<1> HIDE DEF vm
<1>5. /\ outcome # "up" => vm.run = "off"
      /\ outcome = "up" => vm.run = "up" /\ old.run = "up"
      /\ outcome = "gone" => ~vm.onDisk
  BY <1>1, <1>2
<1> QED BY <1>2, <1>3, <1>4, <1>5 DEF old, vm

LEMMA FaultTypes ==
  ASSUME TypeOK, NEW failed \in BOOLEAN, mayFail(failed)
  PROVE  faults' \in 0 .. Faults /\ (failed => faults' # faults)
BY LimitAssumption DEF mayFail, FaultLeft, TypeOK

LEMMA Destroys ==
  ASSUME TypeOK, NEW v \in VMs, destroyVM(v)
  PROVE  /\ (Freed(v) /\ vms'[v].run = "off") \/ Stuck(v)
         /\ faults' \in 0 .. Faults
<1> PICK outcome \in Outcomes(v) :
       /\ mayFail(outcome # "gone")
       /\ LET vm == AfterCleanUp(vms[v], outcome)
          IN  IF outcome = "up"
              THEN vms' = [vms EXCEPT ![v] = [vm EXCEPT !.reaped = TRUE]] /\ UNCHANGED free
              ELSE release(v, vm)
  BY DEF destroyVM
<1> DEFINE vm == AfterCleanUp(vms[v], outcome)
<1>1. /\ vm \in VM /\ vm.slot = vms[v].slot /\ vm.reaped = vms[v].reaped /\ vm.abandoned = vms[v].abandoned
      /\ outcome # "up" => vm.run = "off"
      /\ outcome = "up" => vm.run = "up" /\ vms[v].run = "up"
      /\ outcome # "gone" => vm.onDisk = vms[v].onDisk
  BY CleanUps
<1>2. faults' \in 0 .. Faults
  BY LimitAssumption DEF mayFail, FaultLeft, TypeOK
<1> HIDE DEF vm
<1>3. CASE outcome = "up"
  <2>1. vms' = [vms EXCEPT ![v] = [vm EXCEPT !.reaped = TRUE]] /\ UNCHANGED free
    BY <1>3 DEF vm
  <2>2. vms'[v] = [vm EXCEPT !.reaped = TRUE]
    BY <2>1 DEF TypeOK
  <2>3. vms'[v] \in VM /\ vms'[v].reaped
    BY <1>1, <2>2 DEF VM
  <2>4. vms'[v].slot = vm.slot /\ vms'[v].run = vm.run /\ vms'[v].onDisk = vm.onDisk /\ vms'[v].abandoned = vm.abandoned
    BY <1>1, <2>2 DEF VM
  <2> QED BY <1>1, <1>2, <1>3, <2>1, <2>2, <2>3, <2>4 DEF Stuck, Alters
<1>4. CASE outcome # "up"
  <2>1. release(v, vm)
    BY <1>4 DEF vm
  <2> QED BY <1>1, <1>2, <1>4, <2>1, Releases
<1> QED BY <1>3, <1>4

\* A boot that is given up.
LEMMA PrepareFailing ==
  ASSUME TypeOK, HandInv, NEW w \in Workers, PrepareFails(w)
  PROVE  task[w].vm \in VMs /\ Freed(task[w].vm) /\ vms'[task[w].vm].run = "off" /\ faults' \in 0 .. Faults
<1> DEFINE v == task[w].vm
<1>1. v \in VMs /\ vms[v] \in VM /\ vms[v].run = "off"
  BY DEF PrepareFails, HandInv, HandPlaces, TypeOK
<1>2. PICK left \in BOOLEAN : mayFail(ContextLive(w) \/ left) /\ release(v, [vms[v] EXCEPT !.onDisk = left])
  BY DEF PrepareFails
<1>3. faults' \in 0 .. Faults
  BY <1>2, LimitAssumption DEF mayFail, FaultLeft, TypeOK
<1> HIDE DEF v
<1> DEFINE vm == [vms[v] EXCEPT !.onDisk = left]
<1>4. vm \in VM /\ vm.slot = vms[v].slot /\ vm.reaped = vms[v].reaped /\ vm.run = "off"
  BY <1>1, <1>2 DEF VM
<1> HIDE DEF vm
<1>5. release(v, vm)
  BY <1>2 DEF vm
<1> QED BY <1>1, <1>3, <1>4, <1>5, Releases DEF v

LEMMA BootFailing ==
  ASSUME TypeOK, HandInv, DiskInv, NEW w \in Workers, BootFails(w)
  PROVE  task[w].vm \in VMs /\ Freed(task[w].vm) /\ faults' \in 0 .. Faults
<1> DEFINE v == task[w].vm
<1>1. v \in VMs /\ vms[v] \in VM
  BY DEF BootFails, HandInv, HandPlaces, TypeOK
<1>2. PICK outcome \in Outcomes(v) :
         release(v, [AfterCleanUp(vms[v], outcome) EXCEPT !.abandoned = TRUE])
  BY DEF BootFails
<1>3. faults' \in 0 .. Faults
  BY LimitAssumption DEF BootFails, TypeOK
<1> HIDE DEF v
<1> DEFINE rest == AfterCleanUp(vms[v], outcome)
           vm   == [rest EXCEPT !.abandoned = TRUE]
<1>4. /\ rest \in VM /\ rest.slot = vms[v].slot /\ rest.reaped = vms[v].reaped
      /\ outcome # "up" => rest.run = "off"
      /\ outcome = "up" => vms[v].run = "up" /\ rest.onDisk = vms[v].onDisk
  BY <1>1, CleanUps
<1>5. release(v, vm)
  BY <1>2
<1> HIDE DEF rest
<1>6. vm \in VM /\ vm.slot = rest.slot /\ vm.reaped = rest.reaped /\ vm.abandoned /\ vm.run = rest.run /\ vm.onDisk = rest.onDisk
  BY <1>4 DEF VM
<1>7. vm.run = "up" => vm.onDisk
  BY <1>1, <1>4, <1>6 DEF DiskInv
<1> HIDE DEF vm
<1> QED BY <1>1, <1>3, <1>4, <1>5, <1>6, <1>7, Releases DEF v

\* A removal by the controller.
Removed(v) ==
    /\ Freed(v) /\ v \in active /\ active' = active \ {v} /\ vms'[v].run = "off"
    /\ v \notin serving' \/ (vms'[v].onDisk = vms[v].onDisk /\ faults' # faults)

\* One that has failed, or had nothing to release any more.
Tried(v) ==
    /\ Alters(v) /\ UNCHANGED <<free, active>>
    /\ vms'[v].run = "up" => vms[v].run = "up" /\ vms'[v].abandoned = vms[v].abandoned
    /\ vms'[v].run = "off" /\ vms[v].run = "up" => v \notin serving' \/ faults' # faults
    /\ \/ v \in active /\ vms'[v].run = "up"
       \/ v \notin serving' \/ vms'[v].onDisk = vms[v].onDisk
    /\ vms'[v].onDisk \/ vms'[v].run = "off"
    /\ \/ vms'[v].slot = vms[v].slot /\ vms'[v].reaped = vms[v].reaped /\ vms'[v].cancelled = vms[v].cancelled
       \/ v \notin active /\ vms'[v] = Blank

LEMMA Removals ==
  ASSUME TypeOK, OneHolder, CarriedInv, DiskInv, NEW v \in VMs, RemoveInstance(v)
  PROVE  /\ Removed(v) \/ Tried(v)
         /\ v \in serving /\ serving' \subseteq serving /\ faults' \in 0 .. Faults
         /\ serving \subseteq serving' \cup {v}
         /\ UNCHANGED <<pool, task, stopVars>>
<1> PICK outcome \in Outcomes(v) :
       /\ mayFail(outcome # "gone")
       /\ LET vm == [AfterCleanUp(vms[v], outcome) EXCEPT !.cancelled = vms[v].cancelled]
          IN  IF outcome # "up" /\ v \in active
              THEN release(v, [vm EXCEPT !.cancelled = TRUE]) /\ active' = active \ {v}
              ELSE /\ vms' = [vms EXCEPT ![v] = IF vm.onDisk \/ v \in active THEN vm ELSE Blank]
                   /\ UNCHANGED <<free, active>>
       /\ IF outcome = "gone" \/ stopper[vms[v].owner] # "none"
          THEN serving' = serving \ {v}
          ELSE UNCHANGED serving
  BY DEF RemoveInstance
<1> DEFINE cleaned == AfterCleanUp(vms[v], outcome)
           vm      == [cleaned EXCEPT !.cancelled = vms[v].cancelled]
<1>1. /\ cleaned \in VM /\ cleaned.slot = vms[v].slot /\ cleaned.reaped = vms[v].reaped
      /\ cleaned.abandoned = vms[v].abandoned
      /\ outcome # "up" => cleaned.run = "off"
      /\ outcome = "up" => cleaned.run = "up" /\ vms[v].run = "up"
      /\ outcome # "gone" => cleaned.onDisk = vms[v].onDisk
      /\ outcome = "gone" => ~cleaned.onDisk
  BY CleanUps
<1>2. faults' \in 0 .. Faults /\ (outcome # "gone" => faults' # faults)
  BY LimitAssumption DEF mayFail, FaultLeft, TypeOK
<1>3. v \in serving /\ UNCHANGED <<pool, task, stopVars>> /\ vms[v] \in VM /\ vms[v].onDisk
  BY DEF RemoveInstance, DiskInv, TypeOK
<1>4. serving' \subseteq serving /\ serving \subseteq serving' \cup {v} /\ (outcome = "gone" => v \notin serving')
  OBVIOUS
<1>5. IF outcome # "up" /\ v \in active
      THEN release(v, [vm EXCEPT !.cancelled = TRUE]) /\ active' = active \ {v}
      ELSE /\ vms' = [vms EXCEPT ![v] = IF vm.onDisk \/ v \in active THEN vm ELSE Blank]
           /\ UNCHANGED <<free, active>>
  OBVIOUS
<1> HIDE DEF cleaned
<1>6. /\ vm \in VM /\ vm.slot = vms[v].slot /\ vm.reaped = vms[v].reaped /\ vm.abandoned = vms[v].abandoned
      /\ vm.cancelled = vms[v].cancelled /\ vm.run = cleaned.run /\ vm.onDisk = cleaned.onDisk
  BY <1>1, <1>3 DEF VM
<1> HIDE DEF vm
<1>7. CASE outcome # "up" /\ v \in active
  <2> DEFINE gone == [vm EXCEPT !.cancelled = TRUE]
  <2>1. /\ gone \in VM /\ gone.slot = vms[v].slot /\ gone.reaped = vms[v].reaped
        /\ gone.run = "off" /\ gone.onDisk = cleaned.onDisk
    BY <1>1, <1>6, <1>7 DEF VM
  <2>2. release(v, gone) /\ active' = active \ {v}
    BY <1>5, <1>7
  <2> HIDE DEF gone
  <2>3. Freed(v) /\ vms'[v].run = "off" /\ vms'[v].onDisk = cleaned.onDisk
    BY <2>1, <2>2, Releases
  <2>4. Removed(v)
    BY <1>1, <1>2, <1>4, <1>7, <2>2, <2>3 DEF Removed
  <2> QED BY <1>2, <1>3, <1>4, <2>4
<1>8. CASE outcome = "up" \/ v \notin active
  <2>1. CASE vm.onDisk \/ v \in active
    <3>1. vms' = [vms EXCEPT ![v] = vm] /\ vms'[v] = vm /\ UNCHANGED <<free, active>>
      BY <1>5, <1>8, <2>1 DEF TypeOK
    <3>2. \/ v \in active /\ vms'[v].run = "up"
          \/ v \notin serving' \/ vms'[v].onDisk = vms[v].onDisk
      BY <1>1, <1>4, <1>6, <1>8, <3>1
    <3>3. vms'[v].run = "up" => vms[v].run = "up" /\ vms'[v].onDisk
      BY <1>1, <1>3, <1>6, <3>1
    <3>4. vms'[v].run = "off" /\ vms[v].run = "up" => v \notin serving' \/ faults' # faults
      BY <1>1, <1>2, <1>4, <1>6, <3>1
    <3>5. vms'[v].run \in {"up", "off"}
      BY <1>6, <3>1 DEF VM
    <3>6. Tried(v)
      BY <1>6, <3>1, <3>2, <3>3, <3>4, <3>5 DEF Tried, Alters
    <3> QED BY <1>2, <1>3, <1>4, <3>6
  <2>2. CASE ~vm.onDisk /\ v \notin active
    <3>1. vms' = [vms EXCEPT ![v] = Blank] /\ vms'[v] = Blank /\ UNCHANGED <<free, active>>
      BY <1>5, <1>8, <2>2 DEF TypeOK
    <3>2. v \notin serving'
      BY <1>1, <1>3, <1>4, <1>6, <2>2
    <3>3. Tried(v)
      BY <2>2, <3>1, <3>2, BlankType DEF Tried, Alters
    <3> QED BY <1>2, <1>3, <1>4, <3>3
  <2> QED BY <2>1, <2>2
<1> QED BY <1>7, <1>8 DEF Outcomes

-----------------------------------------------------------------------------
(***************************************************************************)
(* Types.                                                                  *)
(***************************************************************************)

TaskType == [at : Places, vm : VMs \cup {NoVM}]

LEMMA WorkersOf ==
  /\ \A s \in Sets : Starter(s) \in Workers /\ Owner(Starter(s)) = s /\ ~IsFiller(Starter(s))
  /\ \A w \in Workers : Owner(w) \in Sets
  /\ \A s \in Sets : \A w \in Fillers(s) : w \in Workers /\ Owner(w) = s /\ IsFiller(w)
BY PoolSizeAssumption DEF Workers, Starter, Fillers, Owner, IsFiller

LEMMA InitTypes == Init => TypeOK
<1> SUFFICES ASSUME Init PROVE TypeOK
  OBVIOUS
<1>1. vms \in [VMs -> VM]
  BY BlankType DEF Init
<1>2. pool \in [Sets -> Seq(VMs)] /\ \A s \in Sets : Len(pool[s]) <= PoolSize[s]
  BY PoolSizeAssumption DEF Init
<1>3. task \in [Workers -> TaskType]
  BY DEF Init, At, TaskType, Places
<1> QED BY <1>1, <1>2, <1>3, LimitAssumption DEF Init, TypeOK, TaskType

\* Where a goroutine can be after one of its steps.
LEMMA GoesTypes ==
  ASSUME TypeOK, NEW w \in Workers, NEW place \in Places, goes(w, place) \/ steps(w, place)
  PROVE  task' \in [Workers -> TaskType]
<1>1. task[w] \in TaskType
  BY DEF TypeOK, TaskType
<1>2. CASE goes(w, place)
  <2>1. At(place) \in TaskType
    BY DEF At, TaskType
  <2> QED BY <1>2, <2>1 DEF goes, TypeOK, TaskType
<1>3. CASE steps(w, place)
  <2>1. [task[w] EXCEPT !.at = place] \in TaskType
    BY <1>1 DEF TaskType
  <2>2. task' = [task EXCEPT ![w] = [task[w] EXCEPT !.at = place]]
    BY <1>3 DEF steps
  <2> QED BY <2>1, <2>2 DEF TypeOK, TaskType
<1> QED BY <1>2, <1>3

LEMMA AltersTypes ==
  ASSUME TypeOK, NEW v \in VMs, Alters(v) PROVE vms' \in [VMs -> VM]
BY DEF Alters, TypeOK

LEMMA FreedTypes ==
  ASSUME TypeOK, NEW v \in VMs, Freed(v) PROVE vms' \in [VMs -> VM] /\ free' \subseteq Slots
BY AltersTypes DEF Freed, TypeOK, VM

-----------------------------------------------------------------------------
(***************************************************************************)
(* What a step does to VMs and their holders.                              *)
(***************************************************************************)

\* A goroutine goes on with what it has.
GoesOn(w) ==
    /\ task' = [task EXCEPT ![w] = task'[w]] /\ task'[w] \in TaskType /\ task'[w].vm = task[w].vm
    /\ task'[w].at # "preparing" /\ (task'[w].at \in HandPlaces <=> task[w].at \in HandPlaces)
    /\ UNCHANGED <<free, vms, pool, active, serving>> /\ faults' \in 0 .. Faults

\* It lets go of its VM.
LetsGo(w) ==
    /\ task[w].vm \in VMs /\ task[w].at \in HandPlaces
    /\ task' = [task EXCEPT ![w] = task'[w]] /\ task'[w] \in TaskType
    /\ task'[w].vm = NoVM /\ task'[w].at \notin HandPlaces

\* It destroys it, or gives it up.
Drops(w) ==
    /\ LetsGo(w) /\ (Freed(task[w].vm) \/ Stuck(task[w].vm))
    /\ UNCHANGED <<pool, active, serving>> /\ faults' \in 0 .. Faults

Offers(w) ==
    /\ LetsGo(w) /\ Len(pool[Owner(w)]) < PoolSize[Owner(w)]
    /\ pool' = [pool EXCEPT ![Owner(w)] = Append(@, task[w].vm)]
    /\ UNCHANGED <<free, vms, active, serving, faults>>

Listens(w) ==
    /\ LetsGo(w) /\ active' = active \cup {task[w].vm} /\ serving' = serving \cup {task[w].vm}
    /\ vms[task[w].vm].run = "up"
    /\ UNCHANGED <<free, vms, pool, faults>>

\* It gets one.
Grabs(w) ==
    /\ task[w].vm = NoVM
    /\ task' = [task EXCEPT ![w] = task'[w]] /\ task'[w] \in TaskType
    /\ task'[w].vm \in VMs /\ task'[w].at \in HandPlaces

Clones(w) ==
    LET v == task'[w].vm IN
    /\ Grabs(w) /\ vms[v] = Blank /\ Alters(v)
    /\ vms'[v].slot \in free /\ free' = free \ {vms'[v].slot}
    /\ vms'[v].run = "off" /\ ~vms'[v].cancelled /\ ~vms'[v].reaped
    /\ UNCHANGED <<pool, active, serving, faults>>

Takes(w) ==
    LET s == Owner(w) IN
    /\ Grabs(w) /\ pool[s] # <<>> /\ task'[w].vm = Head(pool[s]) /\ task'[w].at # "preparing"
    /\ pool' = [pool EXCEPT ![s] = Tail(@)]
    /\ UNCHANGED <<free, vms, active, serving, faults>>

Runs(w) ==
    LET v == task[w].vm IN
    /\ v \in VMs /\ Alters(v)
    /\ vms'[v].run = "up" /\ vms'[v].onDisk /\ vms'[v].slot = vms[v].slot
    /\ vms'[v].cancelled = vms[v].cancelled /\ vms'[v].reaped = vms[v].reaped
    /\ task' = [task EXCEPT ![w] = task'[w]] /\ task'[w] \in TaskType /\ task'[w].vm = v
    /\ task'[w].at \in HandPlaces \ {"preparing"}
    /\ UNCHANGED <<free, pool, active, serving, faults>>

Empties(s) ==
    /\ pool[s] # <<>> /\ (Freed(Head(pool[s])) \/ Stuck(Head(pool[s])))
    /\ pool' = [pool EXCEPT ![s] = Tail(@)]
    /\ UNCHANGED <<active, serving, task>> /\ faults' \in 0 .. Faults

Reaps(v) ==
    /\ Reaped(v) /\ Holds(v) /\ vms[v].run = "off" /\ Freed(v) /\ vms'[v].run = "off"
    /\ vms'[v].onDisk = vms[v].onDisk
    /\ UNCHANGED <<pool, active, serving, task, faults>>

Removes(v) ==
    /\ Removed(v) \/ Tried(v)
    /\ v \in serving /\ serving' \subseteq serving /\ serving \subseteq serving' \cup {v}
    /\ UNCHANGED <<pool, task>> /\ faults' \in 0 .. Faults

Quits(v) ==
    /\ Alters(v) /\ vms[v].run = "up" /\ vms'[v].run = "off"
    /\ vms'[v].slot = vms[v].slot /\ vms'[v].onDisk = vms[v].onDisk
    /\ vms'[v].cancelled = vms[v].cancelled /\ vms'[v].reaped = vms[v].reaped
    /\ UNCHANGED <<free, pool, active, serving, task>> /\ faults' \in 0 .. Faults
    /\ Cancelled(v) \/ faults' # faults

Holders ==
    \/ UNCHANGED <<free, vms, pool, active, serving, task, faults>>
    \/ \E w \in Workers : GoesOn(w) \/ Drops(w) \/ Offers(w) \/ Listens(w) \/ Clones(w) \/ Takes(w) \/ Runs(w)
    \/ \E s \in Sets : Empties(s)
    \/ \E v \in VMs : Reaps(v) \/ Removes(v) \/ Quits(v)

LEMMA TaskAt ==
  ASSUME TypeOK, HandInv, NEW w \in Workers
  PROVE  /\ task[w] \in TaskType /\ (task[w].at \notin HandPlaces => task[w].vm = NoVM)
         /\ (task[w].at \in HandPlaces => task[w].vm \in VMs)
BY DEF TypeOK, TaskType, HandInv

LEMMA Going ==
  ASSUME TypeOK, NEW w \in Workers, NEW place \in Places
  PROVE  /\ goes(w, place) => /\ task' = [task EXCEPT ![w] = task'[w]] /\ task'[w] \in TaskType
                              /\ task'[w].vm = NoVM /\ task'[w].at = place
         /\ steps(w, place) => /\ task' = [task EXCEPT ![w] = task'[w]] /\ task'[w] \in TaskType
                               /\ task'[w].vm = task[w].vm /\ task'[w].at = place
<1>1. task[w] \in TaskType
  BY DEF TypeOK, TaskType
<1>2. ASSUME goes(w, place)
      PROVE  /\ task' = [task EXCEPT ![w] = task'[w]] /\ task'[w] \in TaskType
             /\ task'[w].vm = NoVM /\ task'[w].at = place
  <2>1. task' = [task EXCEPT ![w] = At(place)] /\ task'[w] = At(place)
    BY <1>2 DEF goes, TypeOK
  <2>2. At(place) \in TaskType /\ At(place).vm = NoVM /\ At(place).at = place
    BY DEF At, TaskType
  <2> QED BY <2>1, <2>2
<1>3. ASSUME steps(w, place)
      PROVE  /\ task' = [task EXCEPT ![w] = task'[w]] /\ task'[w] \in TaskType
             /\ task'[w].vm = task[w].vm /\ task'[w].at = place
  <2> DEFINE after == [task[w] EXCEPT !.at = place]
  <2>1. task' = [task EXCEPT ![w] = after] /\ task'[w] = after
    BY <1>3 DEF steps, TypeOK
  <2>2. after \in TaskType /\ after.vm = task[w].vm /\ after.at = place
    BY <1>1 DEF TaskType
  <2> QED BY <2>1, <2>2
<1> QED BY <1>2, <1>3

LEMMA NextPlaces ==
  \A w \in Workers : /\ AfterFailure(w) \in Places \ HandPlaces
                     /\ NextRound(w) \in Places \ HandPlaces
BY DEF AfterFailure, NextRound, Places, HandPlaces

LEMMA BootKinds ==
  ASSUME TypeOK, OneHolder, HandInv, CarriedInv, DiskInv, NEW w \in Workers, Step(w)
  PROVE  Holders
<1> USE TaskAt, NextPlaces
<1>1. ASSUME AcquireSlot(w) PROVE Clones(w)
  <2>1. PICK idx \in free, v \in VMs :
           /\ vms[v] = Blank
           /\ vms'  = [vms EXCEPT ![v] = [Blank EXCEPT !.owner = Owner(w), !.pooled = IsFiller(w), !.slot = idx]]
           /\ free' = free \ {idx}
           /\ task' = [task EXCEPT ![w] = [at |-> "preparing", vm |-> v]]
    BY <1>1 DEF AcquireSlot
  <2> DEFINE new == [Blank EXCEPT !.owner = Owner(w), !.pooled = IsFiller(w), !.slot = idx]
  <2>2. new \in VM /\ new.slot = idx /\ new.run = "off" /\ ~new.cancelled /\ ~new.reaped
    BY <2>1, WorkersOf DEF Blank, VM, IsFiller, TypeOK
  <2>3. vms' = [vms EXCEPT ![v] = new] /\ vms'[v] = new
    BY <2>1 DEF TypeOK
  <2> HIDE DEF new
  <2>4. task'[w] = [at |-> "preparing", vm |-> v]
    BY <2>1 DEF TypeOK
  <2>5. Grabs(w) /\ task'[w].vm = v
    <3>1. task[w].vm = NoVM
      BY <1>1 DEF AcquireSlot, HandPlaces
    <3>2. [at |-> "preparing", vm |-> v] \in TaskType
      BY DEF TaskType, Places
    <3>3. task' = [task EXCEPT ![w] = task'[w]]
      BY <2>1, <2>4
    <3>4. task'[w].vm = v /\ task'[w].at = "preparing" /\ task'[w] \in TaskType
      BY <2>4, <3>2
    <3> QED BY <3>1, <3>3, <3>4 DEF Grabs, HandPlaces
  <2>6. UNCHANGED <<pool, active, serving, faults>>
    BY <1>1 DEF AcquireSlot
  <2>7. Alters(v) /\ vms'[v].slot = idx /\ vms'[v].run = "off" /\ ~vms'[v].cancelled /\ ~vms'[v].reaped
    BY <2>2, <2>3 DEF Alters
  <2> QED BY <2>1, <2>5, <2>6, <2>7 DEF Clones
<1>2. ASSUME AcquireCancelled(w) \/ RetryBoot(w) PROVE GoesOn(w)
  BY <1>2, Going DEF AcquireCancelled, RetryBoot, GoesOn, HandPlaces, TypeOK
<1>3. ASSUME Prepare(w) PROVE Runs(w)
  <2> DEFINE v   == task[w].vm
             new == [vms[v] EXCEPT !.onDisk = TRUE, !.run = "up"]
  <2>1. v \in VMs /\ vms[v] \in VM
    BY <1>3 DEF Prepare, HandPlaces, TypeOK
  <2>2. vms' = [vms EXCEPT ![v] = new] /\ vms'[v] = new
    BY <1>3, <2>1 DEF Prepare, TypeOK
  <2>3. /\ new \in VM /\ new.run = "up" /\ new.onDisk /\ new.slot = vms[v].slot
        /\ new.cancelled = vms[v].cancelled /\ new.reaped = vms[v].reaped
    BY <2>1 DEF VM
  <2> HIDE DEF new, v
  <2>4. steps(w, "booting") /\ "booting" \in Places
    BY <1>3 DEF Prepare, Places
  <2>5. /\ task' = [task EXCEPT ![w] = task'[w]] /\ task'[w] \in TaskType /\ task'[w].vm = v
        /\ task'[w].at \in HandPlaces \ {"preparing"}
    BY <2>4, Going DEF v, HandPlaces
  <2>6. UNCHANGED <<free, pool, active, serving, faults>>
    BY <1>3 DEF Prepare
  <2>7. Alters(v)
    BY <2>2, <2>3 DEF Alters
  <2>8. /\ vms'[v].run = "up" /\ vms'[v].onDisk /\ vms'[v].slot = vms[v].slot
        /\ vms'[v].cancelled = vms[v].cancelled /\ vms'[v].reaped = vms[v].reaped
    BY <2>2, <2>3
  <2> QED BY <2>1, <2>5, <2>6, <2>7, <2>8 DEF v, Runs
<1>4. ASSUME PrepareFails(w) \/ BootFails(w) PROVE Drops(w)
  BY <1>4, PrepareFailing, BootFailing, Going DEF Drops, LetsGo, PrepareFails, BootFails, HandPlaces
<1>5. ASSUME Booted(w) PROVE GoesOn(w)
  BY <1>5, Going DEF Booted, GoesOn, HandPlaces, Places, TypeOK
<1>6. ASSUME PutInPool(w) PROVE Offers(w)
  BY <1>6, Going DEF PutInPool, Offers, LetsGo, HandPlaces
<1>7. ASSUME GiveUpOffer(w) PROVE GoesOn(w)
  BY <1>7, Going DEF GiveUpOffer, GoesOn, HandPlaces, Places, TypeOK
<1>8. ASSUME Destroy(w) PROVE Drops(w)
  <2>1. task[w].vm \in VMs /\ task[w].at \in HandPlaces
    BY <1>8 DEF Destroy, HandPlaces
  <2>2. Freed(task[w].vm) \/ Stuck(task[w].vm)
    BY <1>8, <2>1, Destroys DEF Destroy
  <2>3. \E place \in Places \ HandPlaces : goes(w, place)
    BY <1>8 DEF Destroy, Places, HandPlaces
  <2> QED BY <1>8, <2>1, <2>2, <2>3, Going, Destroys DEF Drops, LetsGo, Destroy
<1> QED BY <1>1, <1>2, <1>3, <1>4, <1>5, <1>6, <1>7, <1>8 DEF Step, Holders

LEMMA StartKinds ==
  ASSUME TypeOK, OneHolder, HandInv, NEW s \in Sets, StartInstance(s) \/ StarterStep(s)
  PROVE  Holders
<1> DEFINE w == Starter(s)
<1>0. w \in Workers /\ Owner(w) = s
  BY WorkersOf
<1> HIDE DEF w
<1>1. ASSUME StartInstance(s) \/ TakeCancelled(s) PROVE GoesOn(w)
  BY <1>0, <1>1, TaskAt, Going DEF w, StartInstance, TakeCancelled, GoesOn, HandPlaces, Places, TypeOK
<1>2. ASSUME TakeFromPool(s) PROVE Takes(w)
  <2> DEFINE v     == Head(pool[s])
             place == IF vms[v].run = "off" THEN "discarding" ELSE "starting"
             new   == [at |-> place, vm |-> v]
  <2>1. v \in VMs
    BY <1>2, PoolGives DEF TakeFromPool
  <2>2. task' = [task EXCEPT ![w] = new] /\ task'[w] = new
    BY <1>0, <1>2 DEF TakeFromPool, w, TypeOK
  <2>3. place \in {"discarding", "starting"}
    OBVIOUS
  <2> HIDE DEF place, v
  <2>4. new \in TaskType /\ new.vm = v /\ new.at \in HandPlaces /\ new.at # "preparing"
    BY <2>1, <2>3 DEF TaskType, Places, HandPlaces
  <2>5. task[w].vm = NoVM
    BY <1>0, <1>2, TaskAt DEF TakeFromPool, w, HandPlaces
  <2> HIDE DEF new
  <2> QED BY <1>0, <1>2, <2>1, <2>2, <2>4, <2>5 DEF Takes, Grabs, TakeFromPool, v
<1>3. ASSUME RunnerListening(s) PROVE Listens(w)
  BY <1>0, <1>3, TaskAt, Going DEF w, RunnerListening, Listens, LetsGo, HandPlaces, Places
<1>4. ASSUME RunnerFails(s) PROVE GoesOn(w)
  <2>1. faults' \in 0 .. Faults
    BY <1>4, LimitAssumption DEF RunnerFails, mayFail, FaultLeft, TypeOK
  <2> QED BY <1>0, <1>4, <2>1, TaskAt, Going DEF w, RunnerFails, GoesOn, HandPlaces, Places
<1> QED BY <1>0, <1>1, <1>2, <1>3, <1>4 DEF StarterStep, Holders

LEMMA EmptyKinds ==
  ASSUME TypeOK, OneHolder, NEW s \in Sets, EmptyPool(s)
  PROVE  Empties(s)
<1>1. Head(pool[s]) \in VMs
  BY PoolGives DEF EmptyPool
<1> QED BY <1>1, Destroys DEF EmptyPool, Empties

LEMMA OtherKinds ==
  ASSUME TypeOK, OneHolder, HandInv, CarriedInv, DiskInv, NEW v \in VMs
  PROVE  /\ Reap(v) => Reaps(v) /\ UNCHANGED stopVars
         /\ RemoveInstance(v) => Removes(v) /\ UNCHANGED stopVars
         /\ Killed(v) \/ Crashes(v) => Quits(v) /\ UNCHANGED stopVars
<1>1. ASSUME Reap(v) PROVE Reaps(v)
  <2>1. vms[v] \in VM /\ release(v, vms[v]) /\ vms[v].run = "off"
    BY <1>1 DEF Reap, TypeOK
  <2>2. Freed(v) /\ vms'[v].run = vms[v].run /\ vms'[v].onDisk = vms[v].onDisk
    BY <2>1, Releases
  <2> QED BY <1>1, <2>1, <2>2 DEF Reap, Reaps, Reaped, Holds
<1>2. RemoveInstance(v) => Removes(v) /\ UNCHANGED stopVars
  BY Removals DEF Removes
<1>3. ASSUME Killed(v) \/ Crashes(v) PROVE Quits(v)
  <2> DEFINE new == [vms[v] EXCEPT !.run = "off"]
  <2>1. vms[v] \in VM /\ vms' = [vms EXCEPT ![v] = new] /\ vms'[v] = new
    BY <1>3 DEF Killed, Crashes, Exits, TypeOK
  <2>2. /\ new \in VM /\ new.run = "off" /\ new.slot = vms[v].slot /\ new.onDisk = vms[v].onDisk
        /\ new.cancelled = vms[v].cancelled /\ new.reaped = vms[v].reaped
    BY <2>1 DEF VM
  <2> HIDE DEF new
  <2>3. faults' \in 0 .. Faults /\ (Cancelled(v) \/ faults' # faults)
    BY <1>3, LimitAssumption DEF Killed, Crashes, mayFail, FaultLeft, TypeOK
  <2> QED BY <1>3, <2>1, <2>2, <2>3 DEF Quits, Alters, Killed, Crashes, Exits
<1> QED BY <1>1, <1>2, <1>3 DEF Reap, Killed, Crashes, Exits

LEMMA StepKinds ==
  ASSUME TypeOK, OneHolder, HandInv, CarriedInv, DiskInv, [Next]_vars PROVE Holders
<1>1. ASSUME NEW s \in Sets, StopStep(s) \/ StopWork(s) \/ CancelRun \/ UNCHANGED vars, ~EmptyPool(s)
      PROVE  UNCHANGED <<free, vms, pool, active, serving, task, faults>>
  BY <1>1 DEF StopStep, StopWork, CancelRun, BeginShutdown, StopPool, PoolEmptied, ShutdownReturns, vars
<1>2. UNCHANGED vars \/ CancelRun => UNCHANGED <<free, vms, pool, active, serving, task, faults>>
  BY DEF vars, CancelRun
<1> QED BY <1>1, <1>2, EmptyKinds, BootKinds, StartKinds, OtherKinds DEF Next, Ended, Holders
\* Who ends contexts.
LEMMA StopMoves ==
  ASSUME [Next]_vars
  PROVE  \/ UNCHANGED stopVars \/ CancelRun
         \/ \E s \in Sets : StopWork(s) \/ BeginShutdown(s) \/ StopPool(s) \/ PoolEmptied(s) \/ ShutdownReturns(s)
<1>1. \A w \in Workers : Step(w) => UNCHANGED stopVars
  BY DEF Step, AcquireSlot, AcquireCancelled, Prepare, PrepareFails, Booted, BootFails, RetryBoot, PutInPool,
         GiveUpOffer, Destroy
<1>2. \A s \in Sets : StartInstance(s) \/ StarterStep(s) \/ EmptyPool(s) => UNCHANGED stopVars
  BY DEF StartInstance, StarterStep, TakeFromPool, TakeCancelled, RunnerListening, RunnerFails, EmptyPool
<1>3. \A v \in VMs : Reap(v) \/ RemoveInstance(v) \/ Killed(v) \/ Crashes(v) => UNCHANGED stopVars
  BY DEF Reap, RemoveInstance, Killed, Crashes, Exits
<1> QED BY <1>1, <1>2, <1>3 DEF Next, Ended, StopStep, vars

LEMMA NextTypes ==
  ASSUME TypeOK, OneHolder, HandInv, CarriedInv, DiskInv, [Next]_vars PROVE TypeOK'
<1> DEFINE Rest == /\ free' \subseteq Slots /\ vms' \in [VMs -> VM]
                   /\ pool' \in [Sets -> Seq(VMs)] /\ \A s \in Sets : Len(pool'[s]) <= PoolSize[s]
                   /\ active' \subseteq VMs /\ serving' \subseteq VMs
                   /\ task' \in [Workers -> TaskType] /\ faults' \in 0 .. Faults
<1>0. /\ free \subseteq Slots /\ vms \in [VMs -> VM]
      /\ pool \in [Sets -> Seq(VMs)] /\ \A s \in Sets : Len(pool[s]) <= PoolSize[s]
      /\ active \subseteq VMs /\ serving \subseteq VMs
      /\ task \in [Workers -> TaskType] /\ faults \in 0 .. Faults
  BY DEF TypeOK, TaskType
<1>1. ASSUME UNCHANGED <<free, vms, pool, active, serving, task, faults>> PROVE Rest
  BY <1>0, <1>1
<1>2. ASSUME NEW w \in Workers, GoesOn(w) \/ Listens(w) PROVE Rest
  BY <1>0, <1>2 DEF GoesOn, Listens, LetsGo
<1>3. ASSUME NEW w \in Workers, Drops(w) PROVE Rest
  <2>1. free' \subseteq Slots /\ vms' \in [VMs -> VM]
    BY <1>0, <1>3, FreedTypes, AltersTypes DEF Drops, LetsGo, Stuck
  <2> QED BY <1>0, <1>3, <2>1 DEF Drops, LetsGo
<1>4. ASSUME NEW w \in Workers, Offers(w) PROVE Rest
  <2> DEFINE s == Owner(w)
  <2>1. s \in Sets /\ pool[s] \in Seq(VMs) /\ Len(pool[s]) < PoolSize[s] /\ task[w].vm \in VMs /\ PoolSize[s] \in Nat
    BY <1>0, <1>4, WorkersOf, PoolSizeAssumption DEF Offers, LetsGo
  <2>2. pool' = [pool EXCEPT ![s] = Append(pool[s], task[w].vm)]
    BY <1>4 DEF Offers
  <2> HIDE DEF s
  <2>3. pool' \in [Sets -> Seq(VMs)] /\ \A t \in Sets : Len(pool'[t]) <= PoolSize[t]
    BY <1>0, <2>1, <2>2, AppendFacts
  <2> QED BY <1>0, <1>4, <2>3 DEF Offers, LetsGo
<1>5. ASSUME NEW w \in Workers, Clones(w) \/ Runs(w) PROVE Rest
  BY <1>0, <1>5, AltersTypes DEF Clones, Runs, Grabs
<1>6. ASSUME NEW s \in Sets, pool[s] # <<>>, pool' = [pool EXCEPT ![s] = Tail(@)]
      PROVE  pool' \in [Sets -> Seq(VMs)] /\ \A t \in Sets : Len(pool'[t]) <= PoolSize[t]
  <2>1. pool[s] \in Seq(VMs) /\ Len(pool[s]) <= PoolSize[s] /\ PoolSize[s] \in Nat
    BY <1>0, PoolSizeAssumption
  <2> QED BY <1>0, <1>6, <2>1, TailFacts
<1>7. ASSUME NEW w \in Workers, Takes(w) PROVE Rest
  BY <1>0, <1>6, <1>7, WorkersOf DEF Takes, Grabs
<1>8. ASSUME NEW s \in Sets, Empties(s) PROVE Rest
  <2>1. Head(pool[s]) \in VMs
    BY <1>8, PoolGives DEF Empties
  <2>2. free' \subseteq Slots /\ vms' \in [VMs -> VM]
    BY <1>0, <1>8, <2>1, FreedTypes, AltersTypes DEF Empties, Stuck
  <2> QED BY <1>0, <1>6, <1>8, <2>2 DEF Empties
<1>9. ASSUME NEW v \in VMs, Reaps(v) PROVE Rest
  BY <1>0, <1>9, FreedTypes DEF Reaps
<1>10. ASSUME NEW v \in VMs, Removes(v) \/ Quits(v) PROVE Rest
  BY <1>0, <1>10, FreedTypes, AltersTypes DEF Removes, Removed, Tried, Quits
<1>11. Rest
  BY <1>1, <1>2, <1>3, <1>4, <1>5, <1>7, <1>8, <1>9, <1>10, StepKinds DEF Holders
<1>12. /\ working' \subseteq Sets /\ stopped' \subseteq Sets /\ running' \in BOOLEAN
       /\ stopper' \in [Sets -> {"none", "removing", "emptying", "joining", "done"}]
  <2>1. CASE UNCHANGED stopVars
    BY <2>1 DEF stopVars, TypeOK
  <2>2. ASSUME NEW s \in Sets, StopWork(s) \/ BeginShutdown(s) \/ StopPool(s) \/ PoolEmptied(s) \/ ShutdownReturns(s)
        PROVE  /\ working' \subseteq Sets /\ stopped' \subseteq Sets /\ running' \in BOOLEAN
               /\ stopper' \in [Sets -> {"none", "removing", "emptying", "joining", "done"}]
    BY <2>2 DEF StopWork, BeginShutdown, StopPool, PoolEmptied, ShutdownReturns, TypeOK
  <2>3. CASE CancelRun
    BY <2>3 DEF CancelRun, TypeOK
  <2> QED BY <2>1, <2>2, <2>3, StopMoves
<1> QED BY <1>11, <1>12 DEF TypeOK, TaskType

-----------------------------------------------------------------------------
(***************************************************************************)
(* Each VM for itself.                                                     *)
(***************************************************************************)

InHand(v) == \E w \in Workers : task[w].vm = v

\* A goroutine has its VM for itself.
HandsOnce == \A w, u \in Workers : task[w].vm = task[u].vm /\ task[w].vm # NoVM => w = u

VMInv(v) ==
    /\ v \in active => ~Reaped(v) /\ ~Pooled(v) /\ ~InHand(v)
    /\ Pooled(v) => ~Reaped(v) /\ ~InHand(v)
    /\ InHand(v) => ~Reaped(v)
    /\ v \in active \/ Pooled(v) \/ InHand(v) => Holds(v) /\ ~vms[v].cancelled
    /\ Holds(v) => v \in active \/ Pooled(v) \/ InHand(v) \/ Reaped(v)
    /\ vms[v].run = "up" => vms[v].onDisk /\ (Holds(v) \/ vms[v].abandoned)
    /\ v \in serving => vms[v].onDisk /\ (v \notin active => ~Holds(v) /\ vms[v].run = "off")

Parts == (\A v \in VMs : VMInv(v)) /\ HandsOnce /\ InPoolsOnce

Whole == OneHolder /\ CarriedInv /\ SlotInv /\ DiskInv /\ SlotWhileRunning

LEMMA WholeToParts == ASSUME TypeOK, Whole PROVE Parts
<1>1. active \subseteq VMs /\ serving \subseteq VMs /\ \A w \in Workers : task[w].vm \in VMs \cup {NoVM}
  BY DEF TypeOK
<1>2. ASSUME NEW v \in VMs
      PROVE  /\ v \in active => ~Reaped(v) /\ ~Pooled(v) /\ ~InHand(v)
             /\ Pooled(v) => ~Reaped(v) /\ ~InHand(v)
             /\ InHand(v) => ~Reaped(v)
  BY NullsAssumption DEF Whole, OneHolder, InHand
<1>3. ASSUME NEW v \in VMs
      PROVE  /\ v \in active \/ Pooled(v) \/ InHand(v) => Holds(v) /\ ~vms[v].cancelled
             /\ Holds(v) => v \in active \/ Pooled(v) \/ InHand(v) \/ Reaped(v)
             /\ vms[v].run = "up" => vms[v].onDisk /\ (Holds(v) \/ vms[v].abandoned)
             /\ v \in serving => vms[v].onDisk /\ (v \notin active => ~Holds(v) /\ vms[v].run = "off")
  BY DEF Whole, CarriedInv, SlotInv, DiskInv, SlotWhileRunning, Carried, InHand
<1>4. \A v \in VMs : VMInv(v)
  BY <1>2, <1>3 DEF VMInv
<1> QED BY <1>4 DEF Parts, Whole, OneHolder, HandsOnce, InPoolsOnce

LEMMA PartsToWhole == ASSUME TypeOK', Parts' PROVE Whole'
<1>1. active' \subseteq VMs /\ serving' \subseteq VMs /\ \A w \in Workers : task'[w].vm \in VMs \cup {NoVM}
  BY DEF TypeOK
<1>2. \A v \in VMs : VMInv(v)'
  BY DEF Parts
<1>3. /\ \A w, u \in Workers : (task'[w].vm = task'[u].vm /\ task'[w].vm # NoVM) => w = u
      /\ \A s, t \in Sets : \A i \in 1 .. Len(pool'[s]), j \in 1 .. Len(pool'[t]) :
            pool'[s][i] = pool'[t][j] => s = t /\ i = j
  BY DEF Parts, HandsOnce, InPoolsOnce
<1>4. /\ \A w \in Workers : task'[w].vm # NoVM =>
            task'[w].vm \notin active' /\ ~Reaped(task[w].vm)' /\ ~Pooled(task[w].vm)'
      /\ \A v \in VMs : ~(v \in active' /\ Reaped(v)') /\ (Pooled(v)' => v \notin active' /\ ~Reaped(v)')
  BY <1>1, <1>2 DEF VMInv, InHand
<1>5. OneHolder'
  BY <1>3, <1>4 DEF OneHolder
<1>6. CarriedInv' /\ SlotInv'
  BY <1>2 DEF VMInv, InHand, CarriedInv, SlotInv, Carried
<1>7. DiskInv' /\ SlotWhileRunning'
  BY <1>1, <1>2 DEF VMInv, DiskInv, SlotWhileRunning
<1> QED BY <1>5, <1>6, <1>7 DEF Whole

\* A VM a step has nothing to do with.
Same(u) ==
    /\ vms'[u] = vms[u] /\ (u \in active' <=> u \in active) /\ (u \in serving' <=> u \in serving)
    /\ (Pooled(u)' <=> Pooled(u)) /\ (InHand(u)' <=> InHand(u))

LEMMA SameKept ==
  ASSUME NEW u \in VMs, VMInv(u), Same(u) PROVE VMInv(u)'
BY DEF VMInv, Same, Holds, Reaped

\* It goes from one holder to another.
Passed(v) ==
    /\ vms'[v] = vms[v] /\ (Pooled(v) \/ InHand(v))
    /\ \/ v \in active' /\ ~Pooled(v)' /\ ~InHand(v)' /\ vms[v].run = "up"
       \/ v \notin active' /\ Pooled(v)' /\ ~InHand(v)'
       \/ v \notin active' /\ ~Pooled(v)' /\ InHand(v)'
    /\ v \in serving' => v \in serving \/ v \in active'

\* Its holder is done with it.
Dropped(v) ==
    /\ Freed(v) \/ Stuck(v)
    /\ Pooled(v) \/ InHand(v)
    /\ v \notin active' /\ ~Pooled(v)' /\ ~InHand(v)' /\ (v \in serving' <=> v \in serving)

LEMMA PassedKept ==
  ASSUME NEW v \in VMs, VMInv(v), Passed(v) PROVE VMInv(v)'
BY DEF VMInv, Passed, Holds, Reaped

LEMMA DroppedKept ==
  ASSUME TypeOK, NEW v \in VMs, VMInv(v), Dropped(v) PROVE VMInv(v)'
<1>1. v \notin active /\ v \notin serving' /\ ~Reaped(v) /\ Holds(v)
  BY DEF VMInv, Dropped
<1>2. CASE Freed(v)
  BY <1>1, <1>2 DEF VMInv, Dropped, Freed, Holds, Reaped
<1>3. CASE Stuck(v)
  <2>1. vms[v].onDisk /\ Holds(v)'
    BY <1>1, <1>3 DEF VMInv, Stuck, Holds
  <2> QED BY <1>1, <1>3, <2>1 DEF VMInv, Dropped, Stuck, Holds, Reaped
<1> QED BY <1>2, <1>3 DEF Dropped

\* How hands change.
LEMMA HandsKept ==
  ASSUME HandsOnce, NEW w \in Workers, NEW old, NEW new, old = task[w].vm, new = task'[w].vm,
         task' = [task EXCEPT ![w] = task'[w]], task \in [Workers -> TaskType],
         \A u \in Workers \ {w} : new # NoVM => task[u].vm # new
  PROVE  /\ HandsOnce'
         /\ \A v \in VMs \ {old, new} : InHand(v)' <=> InHand(v)
         /\ (old # NoVM /\ new # old => ~InHand(old)')
         /\ InHand(old) /\ InHand(new)'
<1>1. \A u \in Workers \ {w} : task'[u] = task[u]
  OBVIOUS
<1>2. HandsOnce'
  BY <1>1 DEF HandsOnce
<1>3. \A v \in VMs \ {old, new} : InHand(v)' <=> InHand(v)
  BY <1>1 DEF InHand
<1>4. old # NoVM /\ new # old => ~InHand(old)'
  BY <1>1 DEF HandsOnce, InHand
<1>5. InHand(old) /\ InHand(new)'
  BY DEF InHand
<1> QED BY <1>2, <1>3, <1>4, <1>5

LEMMA PoolsSame ==
  ASSUME UNCHANGED pool PROVE (\A v : Pooled(v)' <=> Pooled(v)) /\ (InPoolsOnce => InPoolsOnce')
BY DEF Pooled, InPool, InPoolsOnce

LEMMA AltersOthers ==
  ASSUME TypeOK, NEW v \in VMs, Alters(v) PROVE \A u \in VMs \ {v} : vms'[u] = vms[u]
BY DEF Alters, TypeOK

\* Every kind of step keeps what is known of each VM.
LEMMA PartsKept ==
  ASSUME TypeOK, Whole, HandInv, Holders PROVE Parts'
<1>0. /\ Parts /\ HandsOnce /\ InPoolsOnce /\ OneHolder
      /\ task \in [Workers -> TaskType] /\ \A v \in VMs : VMInv(v)
      /\ active \subseteq VMs /\ serving \subseteq VMs
  BY WholeToParts DEF Parts, Whole, TypeOK, TaskType
<1>1. ASSUME HandsOnce', InPoolsOnce', NEW v \in VMs, \A u \in VMs \ {v} : Same(u), VMInv(v)' PROVE Parts'
  BY <1>0, <1>1, SameKept DEF Parts
<1>2. ASSUME HandsOnce', InPoolsOnce', \A u \in VMs : Same(u) PROVE Parts'
  BY <1>0, <1>2, SameKept DEF Parts
<1>3. UNCHANGED task => HandsOnce' /\ (\A v : InHand(v)' <=> InHand(v))
  BY <1>0 DEF HandsOnce, InHand
<1>4. CASE UNCHANGED <<free, vms, pool, active, serving, task, faults>>
  BY <1>0, <1>2, <1>3, <1>4, PoolsSame DEF Same
<1>5. ASSUME NEW w \in Workers, GoesOn(w) PROVE Parts'
  <2>1. HandsOnce' /\ (\A v \in VMs : InHand(v)' <=> InHand(v))
    <3>1. \A u \in Workers : task'[u].vm = task[u].vm
      BY <1>0, <1>5 DEF GoesOn
    <3> QED BY <1>0, <3>1 DEF HandsOnce, InHand
  <2> QED BY <1>0, <1>2, <1>5, <2>1, PoolsSame DEF Same, GoesOn
<1>6. ASSUME NEW w \in Workers, LetsGo(w), NEW v \in VMs, v = task[w].vm
      PROVE  HandsOnce' /\ InHand(v) /\ ~InHand(v)' /\ (\A u \in VMs \ {v} : InHand(u)' <=> InHand(u))
  <2>1. task' = [task EXCEPT ![w] = task'[w]] /\ task'[w].vm = NoVM /\ NoVM \notin VMs
    BY <1>6, NullsAssumption DEF LetsGo
  <2> QED BY <1>0, <1>6, <2>1, HandsKept
<1>7. ASSUME NEW w \in Workers, Grabs(w), NEW v \in VMs, v = task'[w].vm, ~InHand(v)
      PROVE  HandsOnce' /\ InHand(v)' /\ (\A u \in VMs \ {v} : InHand(u)' <=> InHand(u))
  <2>1. task' = [task EXCEPT ![w] = task'[w]] /\ task[w].vm = NoVM /\ NoVM \notin VMs
    BY <1>7, NullsAssumption DEF Grabs
  <2>2. \A u \in Workers : task[u].vm # v
    BY <1>7 DEF InHand
  <2> QED BY <1>0, <1>7, <2>1, <2>2, HandsKept
<1>8. ASSUME NEW w \in Workers, Drops(w) PROVE Parts'
  <2> PICK v \in VMs : v = task[w].vm
    BY <1>8 DEF Drops, LetsGo
  <2>1. LetsGo(w) /\ UNCHANGED <<pool, active, serving>> /\ (Freed(v) \/ Stuck(v))
    BY <1>8 DEF Drops
  <2>2. HandsOnce' /\ InHand(v) /\ ~InHand(v)' /\ (\A u \in VMs \ {v} : InHand(u)' <=> InHand(u))
    BY <1>6, <2>1
  <2>3. \A u \in VMs \ {v} : Same(u)
    BY <2>1, <2>2, PoolsSame, AltersOthers DEF Same, Freed, Stuck
  <2>4. Dropped(v)
    BY <1>0, <2>1, <2>2, PoolsSame DEF Dropped, VMInv
  <2> QED BY <1>0, <1>1, <2>1, <2>2, <2>3, <2>4, DroppedKept, PoolsSame
<1>9. ASSUME NEW w \in Workers, Offers(w) PROVE Parts'
  <2> PICK v \in VMs : v = task[w].vm
    BY <1>9 DEF Offers, LetsGo
  <2> DEFINE s == Owner(w)
  <2>1. LetsGo(w) /\ UNCHANGED <<vms, active, serving>> /\ s \in Sets /\ pool' = [pool EXCEPT ![s] = Append(@, v)]
    BY <1>9, WorkersOf DEF Offers
  <2>2. HandsOnce' /\ InHand(v) /\ ~InHand(v)' /\ (\A u \in VMs \ {v} : InHand(u)' <=> InHand(u))
    BY <1>6, <2>1
  <2> HIDE DEF s
  <2>3. \A u : Pooled(u)' <=> Pooled(u) \/ u = v
    BY <2>1, <2>2, PoolGets
  <2>4. InPoolsOnce'
    BY <1>0, <2>1, <2>2, OnceGets DEF VMInv
  <2>5. (\A u \in VMs \ {v} : Same(u)) /\ Passed(v)
    BY <1>0, <2>1, <2>2, <2>3 DEF Same, Passed, VMInv
  <2> QED BY <1>0, <1>1, <2>2, <2>4, <2>5, PassedKept
<1>10. ASSUME NEW w \in Workers, Listens(w) PROVE Parts'
  <2> PICK v \in VMs : v = task[w].vm
    BY <1>10 DEF Listens, LetsGo
  <2>1. LetsGo(w) /\ UNCHANGED <<vms, pool>> /\ active' = active \cup {v} /\ serving' = serving \cup {v}
        /\ vms[v].run = "up"
    BY <1>10 DEF Listens
  <2>2. HandsOnce' /\ InHand(v) /\ ~InHand(v)' /\ (\A u \in VMs \ {v} : InHand(u)' <=> InHand(u))
    BY <1>6, <2>1
  <2>3. (\A u \in VMs \ {v} : Same(u)) /\ Passed(v)
    BY <1>0, <2>1, <2>2, PoolsSame DEF Same, Passed, VMInv
  <2> QED BY <1>0, <1>1, <2>1, <2>2, <2>3, PassedKept, PoolsSame
<1>11. ASSUME NEW w \in Workers, Takes(w) PROVE Parts'
  <2> DEFINE s == Owner(w)
  <2> PICK v \in VMs : v = task'[w].vm
    BY <1>11 DEF Takes, Grabs
  <2>1. /\ Grabs(w) /\ UNCHANGED <<vms, active, serving>> /\ s \in Sets /\ pool[s] # <<>>
        /\ pool' = [pool EXCEPT ![s] = Tail(@)] /\ v = Head(pool[s])
    BY <1>11, WorkersOf DEF Takes
  <2> HIDE DEF s
  <2>2. Pooled(v) /\ (\A u : Pooled(u)' <=> Pooled(u) /\ u # v)
    BY <1>0, <2>1, PoolGives
  <2>3. ~InHand(v) /\ v \notin active /\ Holds(v)
    BY <1>0, <2>2 DEF VMInv
  <2>4. InPoolsOnce'
    BY <1>0, <2>1, OnceGives
  <2>5. HandsOnce' /\ InHand(v)' /\ (\A u \in VMs \ {v} : InHand(u)' <=> InHand(u))
    BY <1>7, <2>1, <2>3
  <2>6. (\A u \in VMs \ {v} : Same(u)) /\ Passed(v)
    BY <2>1, <2>2, <2>3, <2>5 DEF Same, Passed
  <2> QED BY <1>0, <1>1, <2>4, <2>5, <2>6, PassedKept
<1>12. ASSUME NEW w \in Workers, Clones(w) PROVE Parts'
  <2> PICK v \in VMs : v = task'[w].vm
    BY <1>12 DEF Clones, Grabs
  <2>1. /\ Grabs(w) /\ UNCHANGED <<pool, active, serving>> /\ vms[v] = Blank /\ Alters(v)
        /\ vms'[v].run = "off" /\ ~vms'[v].cancelled /\ ~vms'[v].reaped /\ vms'[v].slot \in Slots
    BY <1>12 DEF Clones, Grabs, TypeOK
  <2>2. ~Holds(v) /\ vms[v].onDisk = FALSE /\ vms'[v].slot # NoSlot
    BY <2>1, BlankType, SlotType DEF Holds
  <2>3. v \notin active /\ ~Pooled(v) /\ ~InHand(v) /\ v \notin serving
    BY <1>0, <2>1, <2>2 DEF VMInv
  <2>4. HandsOnce' /\ InHand(v)' /\ (\A u \in VMs \ {v} : InHand(u)' <=> InHand(u))
    BY <1>7, <2>1, <2>3
  <2>5. \A u \in VMs \ {v} : Same(u)
    BY <2>1, <2>4, PoolsSame, AltersOthers DEF Same
  <2>6. VMInv(v)'
    BY <2>1, <2>2, <2>3, <2>4, PoolsSame DEF VMInv, Holds, Reaped
  <2> QED BY <1>0, <1>1, <2>1, <2>4, <2>5, <2>6, PoolsSame
<1>13. ASSUME NEW w \in Workers, Runs(w) PROVE Parts'
  <2> PICK v \in VMs : v = task[w].vm
    BY <1>13 DEF Runs
  <2>1. /\ UNCHANGED <<pool, active, serving>> /\ Alters(v)
        /\ vms'[v].run = "up" /\ vms'[v].onDisk /\ vms'[v].slot = vms[v].slot
        /\ vms'[v].cancelled = vms[v].cancelled /\ vms'[v].reaped = vms[v].reaped
        /\ \A u \in Workers : task'[u].vm = task[u].vm
    BY <1>0, <1>13 DEF Runs
  <2>2. HandsOnce' /\ InHand(v) /\ (\A u \in VMs : InHand(u)' <=> InHand(u))
    BY <1>0, <2>1 DEF HandsOnce, InHand
  <2>3. \A u \in VMs \ {v} : Same(u)
    BY <2>1, <2>2, PoolsSame, AltersOthers DEF Same
  <2>4. v \notin active /\ v \notin serving /\ Holds(v)
    BY <1>0, <2>1, <2>2 DEF VMInv
  <2>5. VMInv(v)'
    BY <1>0, <2>1, <2>2, <2>4, PoolsSame DEF VMInv, Holds, Reaped
  <2> QED BY <1>0, <1>1, <2>1, <2>2, <2>3, <2>5, PoolsSame
<1>14. ASSUME NEW s \in Sets, Empties(s) PROVE Parts'
  <2>0. Head(pool[s]) \in VMs
    BY <1>0, <1>14, PoolGives DEF Empties
  <2> PICK v \in VMs : v = Head(pool[s])
    BY <2>0
  <2>1. /\ pool[s] # <<>> /\ pool' = [pool EXCEPT ![s] = Tail(@)] /\ (Freed(v) \/ Stuck(v))
        /\ UNCHANGED <<active, serving, task>>
    BY <1>14 DEF Empties
  <2>2. Pooled(v) /\ (\A u : Pooled(u)' <=> Pooled(u) /\ u # v)
    BY <1>0, <2>1, PoolGives
  <2>3. InPoolsOnce'
    BY <1>0, <2>1, OnceGives
  <2>4. \A u \in VMs \ {v} : Same(u)
    BY <1>3, <2>1, <2>2, AltersOthers DEF Same, Freed, Stuck
  <2>5. Dropped(v)
    BY <1>0, <1>3, <2>1, <2>2 DEF Dropped, VMInv
  <2> QED BY <1>0, <1>1, <1>3, <2>1, <2>3, <2>4, <2>5, DroppedKept
<1>15. ASSUME NEW v \in VMs, Reaps(v) PROVE Parts'
  <2>1. UNCHANGED <<pool, active, serving, task>> /\ Freed(v) /\ Reaped(v) /\ vms'[v].run = "off"
        /\ vms'[v].onDisk = vms[v].onDisk /\ Holds(v)
    BY <1>15 DEF Reaps
  <2>2. \A u \in VMs \ {v} : Same(u)
    BY <1>3, <2>1, PoolsSame, AltersOthers DEF Same, Freed
  <2>3. VMInv(v)'
    BY <1>0, <1>3, <2>1, PoolsSame DEF VMInv, Freed, Holds, Reaped
  <2> QED BY <1>0, <1>1, <1>3, <2>1, <2>2, <2>3, PoolsSame
<1>16. ASSUME NEW v \in VMs, Removes(v) PROVE Parts'
  <2>1. /\ UNCHANGED <<pool, task>> /\ v \in serving /\ serving' \subseteq serving /\ serving \subseteq serving' \cup {v}
        /\ Alters(v) /\ (Removed(v) \/ Tried(v))
    BY <1>16 DEF Removes, Tried, Removed, Freed
  <2>2. \A u \in VMs \ {v} : Same(u)
    BY <1>3, <2>1, PoolsSame, AltersOthers DEF Same, Freed, Removed, Tried
  <2>3. VMInv(v)'
    <3>1. CASE v \in active
      <4>1. ~Pooled(v)' /\ ~InHand(v)' /\ ~Reaped(v) /\ Holds(v) /\ ~vms[v].cancelled
        BY <1>0, <1>3, <2>1, <3>1, PoolsSame DEF VMInv
      <4>2. CASE Removed(v)
        BY <1>0, <2>1, <4>1, <4>2 DEF VMInv, Removed, Freed, Holds, Reaped
      <4>3. CASE Tried(v)
        BY <1>0, <2>1, <3>1, <4>1, <4>3 DEF VMInv, Tried, Holds, Reaped
      <4> QED BY <2>1, <4>2, <4>3
    <3>2. CASE v \notin active
      <4>1. /\ ~Pooled(v)' /\ ~InHand(v)' /\ ~Holds(v) /\ vms[v].run = "off" /\ vms[v].onDisk /\ Tried(v)
            /\ v \notin active'
        BY <1>0, <1>3, <2>1, <3>2, PoolsSame DEF VMInv, Removed, Tried
      <4>2. CASE vms'[v] # Blank
        <5>1. vms'[v].run = "off"
          BY <2>1, <4>1 DEF Tried, Alters, VM
        <5> QED BY <2>1, <3>2, <4>1, <4>2, <5>1 DEF VMInv, Tried, Holds, Reaped
      <4>3. CASE vms'[v] = Blank
        <5>1. ~Holds(v)' /\ vms'[v].run = "off" /\ vms'[v].onDisk = FALSE
          BY <4>3, BlankType DEF Holds
        <5> QED BY <3>2, <4>1, <5>1 DEF VMInv, Tried
      <4> QED BY <4>2, <4>3
    <3> QED BY <3>1, <3>2
  <2> QED BY <1>0, <1>1, <1>3, <2>1, <2>2, <2>3, PoolsSame
<1>17. ASSUME NEW v \in VMs, Quits(v) PROVE Parts'
  <2>1. UNCHANGED <<pool, active, serving, task>> /\ Alters(v) /\ vms'[v].run = "off" /\ vms'[v].slot = vms[v].slot
        /\ vms'[v].onDisk = vms[v].onDisk /\ vms'[v].cancelled = vms[v].cancelled /\ vms'[v].reaped = vms[v].reaped
    BY <1>17 DEF Quits
  <2>2. \A u \in VMs \ {v} : Same(u)
    BY <1>3, <2>1, PoolsSame, AltersOthers DEF Same
  <2>3. VMInv(v)'
    BY <1>0, <1>3, <2>1, PoolsSame DEF VMInv, Holds, Reaped
  <2> QED BY <1>0, <1>1, <1>3, <2>1, <2>2, <2>3, PoolsSame
<1> QED BY <1>4, <1>5, <1>8, <1>9, <1>10, <1>11, <1>12, <1>13, <1>14, <1>15, <1>16, <1>17 DEF Holders


-----------------------------------------------------------------------------
(***************************************************************************)
(* The slots.                                                              *)
(***************************************************************************)

\* What changes no slot.
LEMMA SlotsSame ==
  ASSUME SlotsAccounted, UNCHANGED free, \A v \in VMs : vms'[v].slot = vms[v].slot PROVE SlotsAccounted'
<1>1. \A v \in VMs : Holds(v)' <=> Holds(v)
  BY DEF Holds
<1> QED BY <1>1 DEF SlotsAccounted

\* A slot that is given back is free, and was nobody else's.
LEMMA FreedSlots ==
  ASSUME TypeOK, SlotsAccounted, NEW v \in VMs, Freed(v) PROVE SlotsAccounted'
<1>1. /\ free' = free \cup ({vms[v].slot} \ {NoSlot}) /\ vms'[v].slot = NoSlot
      /\ \A u \in VMs \ {v} : vms'[u].slot = vms[u].slot
  BY AltersOthers DEF Freed
<1>2. ASSUME NEW idx \in Slots PROVE idx \in free' \/ \E u \in VMs : vms'[u].slot = idx
  <2>1. idx # NoSlot /\ (idx \in free \/ \E u \in VMs : vms[u].slot = idx)
    BY SlotType DEF SlotsAccounted
  <2> QED BY <1>1, <2>1
<1>3. ASSUME NEW u \in VMs, Holds(u)'
      PROVE  vms'[u].slot \notin free' /\ \A t \in VMs \ {u} : vms'[t].slot # vms'[u].slot
  <2>1. u # v /\ Holds(u) /\ vms'[u].slot = vms[u].slot
    BY <1>1, <1>3 DEF Holds
  <2>2. vms[u].slot \notin free /\ \A t \in VMs \ {u} : vms[t].slot # vms[u].slot
    BY <2>1 DEF SlotsAccounted
  <2> QED BY <1>1, <2>1, <2>2 DEF Holds
<1> QED BY <1>2, <1>3 DEF SlotsAccounted

\* A slot that is taken was free.
LEMMA TakenSlots ==
  ASSUME TypeOK, SlotsAccounted, NEW v \in VMs, vms[v].slot = NoSlot, Alters(v),
         vms'[v].slot \in free, free' = free \ {vms'[v].slot}
  PROVE  SlotsAccounted'
<1>1. \A u \in VMs \ {v} : vms'[u].slot = vms[u].slot
  BY AltersOthers
<1>2. free \subseteq Slots
  BY DEF TypeOK
<1>3. ASSUME NEW idx \in Slots PROVE idx \in free' \/ \E u \in VMs : vms'[u].slot = idx
  <2>1. idx # NoSlot /\ (idx \in free \/ \E u \in VMs : vms[u].slot = idx)
    BY SlotType DEF SlotsAccounted
  <2>2. CASE idx \in free
    BY <2>2
  <2>3. CASE \E u \in VMs : vms[u].slot = idx
    BY <1>1, <2>1, <2>3
  <2> QED BY <2>1, <2>2, <2>3
<1>4. \A u \in VMs : vms[u].slot # vms'[v].slot
  BY <1>2, SlotType DEF SlotsAccounted, Holds
<1>5. ASSUME NEW u \in VMs, Holds(u)'
      PROVE  vms'[u].slot \notin free' /\ \A t \in VMs \ {u} : vms'[t].slot # vms'[u].slot
  <2>1. CASE u = v
    BY <1>1, <1>4, <2>1
  <2>2. CASE u # v
    <3>1. Holds(u) /\ vms'[u].slot = vms[u].slot
      BY <1>1, <1>5, <2>2 DEF Holds
    <3>2. vms[u].slot \notin free /\ \A t \in VMs \ {u} : vms[t].slot # vms[u].slot
      BY <3>1 DEF SlotsAccounted
    <3> QED BY <1>1, <1>4, <3>1, <3>2
  <2> QED BY <2>1, <2>2
<1> QED BY <1>3, <1>5 DEF SlotsAccounted

LEMMA SlotsStep ==
  ASSUME TypeOK, SlotsAccounted, Whole, HandInv, Holders PROVE SlotsAccounted'
<1>0. OneHolder /\ \A v \in VMs : VMInv(v)
  BY WholeToParts DEF Parts, Whole
<1>1. ASSUME UNCHANGED <<free, vms>> PROVE SlotsAccounted'
  BY <1>1, SlotsSame
<1>2. ASSUME NEW v \in VMs, Alters(v), UNCHANGED free, vms'[v].slot = vms[v].slot PROVE SlotsAccounted'
  BY <1>2, SlotsSame, AltersOthers
<1>3. ASSUME NEW v \in VMs, Freed(v) \/ Stuck(v) PROVE SlotsAccounted'
  BY <1>2, <1>3, FreedSlots DEF Stuck
<1>4. ASSUME NEW w \in Workers, Drops(w) PROVE SlotsAccounted'
  BY <1>3, <1>4 DEF Drops, LetsGo
<1>5. ASSUME NEW w \in Workers, Clones(w) PROVE SlotsAccounted'
  BY <1>5, TakenSlots, BlankType DEF Clones, Grabs
<1>6. ASSUME NEW w \in Workers, Runs(w) PROVE SlotsAccounted'
  BY <1>2, <1>6 DEF Runs
<1>7. ASSUME NEW s \in Sets, Empties(s) PROVE SlotsAccounted'
  BY <1>0, <1>3, <1>7, PoolGives DEF Empties
<1>8. ASSUME NEW v \in VMs, Removes(v) PROVE SlotsAccounted'
  <2>1. CASE Tried(v) /\ v \notin active /\ vms'[v] = Blank
    <3>1. vms[v].slot = NoSlot /\ vms'[v].slot = NoSlot
      BY <1>0, <1>8, <2>1, BlankType DEF VMInv, Removes, Holds
    <3> QED BY <1>2, <2>1, <3>1 DEF Tried
  <2> QED BY <1>2, <1>3, <1>8, <2>1 DEF Removes, Removed, Tried
<1>9. ASSUME NEW v \in VMs, Reaps(v) \/ Quits(v) PROVE SlotsAccounted'
  BY <1>2, <1>3, <1>9 DEF Reaps, Quits
<1> QED BY <1>1, <1>4, <1>5, <1>6, <1>7, <1>8, <1>9 DEF Holders, GoesOn, Offers, Listens, Takes

-----------------------------------------------------------------------------
(***************************************************************************)
(* The goroutines, and who ends the pools.                                 *)
(***************************************************************************)

HandOf(w) ==
    /\ task[w].at \in HandPlaces <=> task[w].vm \in VMs
    /\ task[w].at = "preparing" => vms[task[w].vm].run = "off"

\* One goroutine's own step; the VM of the others is not touched by it.
LEMMA HandStep ==
  ASSUME TypeOK, Whole, HandInv, Holders PROVE HandInv'
<1>0. /\ OneHolder /\ HandsOnce /\ (\A v \in VMs : VMInv(v)) /\ (\A w \in Workers : HandOf(w))
      /\ task \in [Workers -> TaskType] /\ NoVM \notin VMs
      /\ \A w \in Workers : task[w].vm \in VMs \cup {NoVM}
  BY WholeToParts, NullsAssumption DEF Parts, Whole, HandInv, HandOf, TypeOK, TaskType
<1> SUFFICES ASSUME NEW w \in Workers PROVE HandOf(w)'
  BY DEF HandInv, HandOf
<1> PICK x \in VMs \cup {NoVM} : x = task[w].vm
  BY <1>0
<1>1. ASSUME task'[w] = task[w], task[w].at = "preparing" => vms'[x].run = "off" PROVE HandOf(w)'
  BY <1>0, <1>1 DEF HandOf
<1>2. ASSUME task'[w] = task[w], UNCHANGED vms PROVE HandOf(w)'
  BY <1>0, <1>1, <1>2 DEF HandOf
<1>3. ASSUME NEW v \in VMs, Alters(v), task'[w] = task[w], x # v \/ vms'[v].run = "off" PROVE HandOf(w)'
  <2>1. task[w].at = "preparing" => vms[x].run = "off" /\ x \in VMs
    BY <1>0 DEF HandOf, HandPlaces
  <2> QED BY <1>1, <1>3, <2>1, AltersOthers
<1>4. ASSUME NEW v \in VMs, Freed(v) \/ Stuck(v), Pooled(v) \/ (\E u \in Workers \ {w} : v = task[u].vm), task'[w] = task[w]
      PROVE HandOf(w)'
  <2>1. x # v
    BY <1>0, <1>4 DEF VMInv, InHand, HandsOnce
  <2> QED BY <1>3, <1>4, <2>1 DEF Freed, Stuck
<1>5. ASSUME task'[w].at \notin HandPlaces, task'[w].vm = NoVM PROVE HandOf(w)'
  BY <1>0, <1>5 DEF HandOf, HandPlaces
<1>6. ASSUME task'[w].at \in HandPlaces \ {"preparing"}, task'[w].vm \in VMs PROVE HandOf(w)'
  BY <1>6 DEF HandOf
<1>7. ASSUME NEW u \in Workers, task' = [task EXCEPT ![u] = task'[u]], u # w PROVE task'[w] = task[w]
  BY <1>0, <1>7
<1>8. ASSUME NEW u \in Workers, GoesOn(u) PROVE HandOf(w)'
  <2>1. CASE u = w
    BY <1>0, <1>8, <2>1 DEF GoesOn, HandOf
  <2> QED BY <1>2, <1>7, <1>8, <2>1 DEF GoesOn
<1>9. ASSUME NEW u \in Workers, Offers(u) \/ Listens(u) PROVE HandOf(w)'
  <2>1. CASE u = w
    BY <1>5, <1>9, <2>1 DEF Offers, Listens, LetsGo
  <2> QED BY <1>2, <1>7, <1>9, <2>1 DEF Offers, Listens, LetsGo
<1>10. ASSUME NEW u \in Workers, Drops(u) PROVE HandOf(w)'
  <2>1. CASE u = w
    BY <1>5, <1>10, <2>1 DEF Drops, LetsGo
  <2> QED BY <1>4, <1>7, <1>10, <2>1 DEF Drops, LetsGo
<1>11. ASSUME NEW u \in Workers, Takes(u) PROVE HandOf(w)'
  <2>1. CASE u = w
    BY <1>6, <1>11, <2>1 DEF Takes, Grabs
  <2> QED BY <1>2, <1>7, <1>11, <2>1 DEF Takes, Grabs
<1>12. ASSUME NEW u \in Workers, Clones(u) PROVE HandOf(w)'
  <2> PICK v \in VMs : v = task'[u].vm
    BY <1>12 DEF Clones, Grabs
  <2>1. vms'[v].run = "off" /\ Alters(v) /\ task'[u].at \in HandPlaces
    BY <1>12 DEF Clones, Grabs
  <2>2. CASE u = w
    BY <2>1, <2>2 DEF HandOf
  <2>3. CASE u # w
    BY <1>3, <1>7, <1>12, <2>1, <2>3 DEF Clones, Grabs
  <2> QED BY <2>2, <2>3
<1>13. ASSUME NEW u \in Workers, Runs(u) PROVE HandOf(w)'
  <2>1. CASE u = w
    BY <1>6, <1>13, <2>1 DEF Runs
  <2>2. CASE u # w
    <3> PICK v \in VMs : v = task[u].vm
      BY <1>13 DEF Runs
    <3>1. x # v
      BY <1>0, <2>2 DEF HandsOnce
    <3> QED BY <1>3, <1>7, <1>13, <2>2, <3>1 DEF Runs
  <2> QED BY <2>1, <2>2
<1>14. ASSUME NEW s \in Sets, Empties(s) PROVE HandOf(w)'
  BY <1>0, <1>4, <1>14, PoolGives DEF Empties
<1>15. ASSUME NEW v \in VMs, Reaps(v) \/ Quits(v) PROVE HandOf(w)'
  BY <1>3, <1>15 DEF Reaps, Quits, Freed
<1>16. ASSUME NEW v \in VMs, Removes(v) PROVE HandOf(w)'
  <2>1. Alters(v) /\ (vms[v].run = "up" \/ vms'[v].run = "off") /\ task'[w] = task[w]
    BY <1>16 DEF Removes, Removed, Tried, Freed, Alters, VM
  <2>2. vms[v].run = "off" \/ x # v
    BY <1>0, <1>16 DEF VMInv, InHand, Removes
  <2> QED BY <1>3, <2>1, <2>2
<1> QED BY <1>2, <1>8, <1>9, <1>10, <1>11, <1>12, <1>13, <1>14, <1>15, <1>16 DEF Holders

LEMMA StopStepInv ==
  ASSUME TypeOK, StopInv, [Next]_vars PROVE StopInv'
<1>1. CASE UNCHANGED stopVars \/ CancelRun
  BY <1>1 DEF StopInv, stopVars, CancelRun
<1>2. ASSUME NEW s \in Sets, StopWork(s) \/ BeginShutdown(s) PROVE StopInv'
  BY <1>2 DEF StopInv, StopWork, BeginShutdown, TypeOK
<1>3. ASSUME NEW s \in Sets, StopPool(s) \/ PoolEmptied(s) \/ ShutdownReturns(s) PROVE StopInv'
  BY <1>3 DEF StopInv, StopPool, PoolEmptied, ShutdownReturns, TypeOK
<1> QED BY <1>1, <1>2, <1>3, StopMoves

-----------------------------------------------------------------------------
(***************************************************************************)
(* The theorems.                                                           *)
(***************************************************************************)

LEMMA InitInv == Init => IInv
<1> SUFFICES ASSUME Init PROVE IInv
  OBVIOUS
<1>1. TypeOK
  BY InitTypes
<1>2. /\ \A v \in VMs : vms[v].slot = NoSlot /\ vms[v].run = "off" /\ ~vms[v].reaped
      /\ \A w \in Workers : task[w].vm = NoVM /\ task[w].at \notin HandPlaces
      /\ \A s \in Sets : Len(pool[s]) = 0
      /\ active = {} /\ serving = {} /\ stopped = {} /\ free = Slots
  BY BlankType DEF Init, At, HandPlaces
<1>3. (\A v : ~Pooled(v)) /\ (\A v \in VMs : ~Holds(v))
  BY <1>2 DEF Pooled, InPool, Holds
<1>4. SlotsAccounted /\ SlotWhileRunning
  BY <1>2, <1>3 DEF SlotsAccounted, SlotWhileRunning
<1>5. OneHolder
  BY <1>2, <1>3 DEF OneHolder
<1>6. HandInv
  BY <1>2, NullsAssumption DEF HandInv, HandPlaces
<1>7. CarriedInv /\ SlotInv /\ DiskInv /\ StopInv
  BY <1>2, <1>3, NullsAssumption DEF CarriedInv, Carried, SlotInv, DiskInv, StopInv
<1> QED BY <1>1, <1>4, <1>5, <1>6, <1>7 DEF IInv

LEMMA NextInv == IInv /\ [Next]_vars => IInv'
<1> SUFFICES ASSUME IInv, [Next]_vars PROVE IInv'
  OBVIOUS
<1>1. TypeOK /\ SlotsAccounted /\ HandInv /\ StopInv /\ Whole /\ OneHolder /\ CarriedInv /\ DiskInv
  BY DEF IInv, Whole
<1>2. Holders /\ TypeOK'
  BY <1>1, StepKinds, NextTypes
<1>3. Whole'
  BY <1>1, <1>2, PartsKept, PartsToWhole
<1>4. SlotsAccounted' /\ HandInv' /\ StopInv'
  BY <1>1, <1>2, SlotsStep, HandStep, StopStepInv
<1> QED BY <1>2, <1>3, <1>4 DEF IInv, Whole

\* Whatever commands fail, VMs crash and contexts end, in any order: one goroutine, pool,
\* table or reaper has each VM that holds a slot (bootVM, fillPool, StartInstance,
\* RemoveInstance, destroyVM and its reaper).
THEOREM Inductive == Spec => []IInv
<1>1. Init => IInv
  BY InitInv
<1>2. IInv /\ [Next]_vars => IInv'
  BY NextInv
<1> QED BY <1>1, <1>2, PTL DEF Spec

\* The slots of the host are kept with their VMs: none is lost, none is given twice, and
\* what runs has one (tartHostCoordinator, releaseVM, destroyVM).
THEOREM SlotsKeptHolds == Spec => []SlotsKept
<1>1. IInv => SlotsKept
  <2> SUFFICES ASSUME IInv PROVE SlotsKept
    OBVIOUS
  <2>1. \A v \in VMs : Holds(v) => HasHolder(v)
    BY DEF IInv, SlotInv, Carried, HasHolder
  <2> QED BY <2>1 DEF IInv, SlotsKept, SlotHasOneHolder
<1> QED BY <1>1, Inductive, PTL

\* A drain of the controller, which ends its work context, never kills the `tart run` of a
\* runner from the warm pool (fillPool gives its VMs a child of poolCtx).
THEOREM DrainSparesWarmRunnersHolds == Spec => DrainSparesWarmRunners
<1>1. ASSUME IInv, [Next]_vars, NEW v \in VMs, vms[v].pooled PROVE ~KilledByDrain(v)
  <2> SUFFICES ASSUME KilledByDrain(v) PROVE FALSE
    OBVIOUS
  <2>1. /\ v \in serving /\ v \in serving' /\ running /\ stopper[vms[v].owner] = "none"
        /\ vms[v].run = "up" /\ vms'[v].run = "off" /\ faults' = faults
    BY DEF KilledByDrain
  <2>2. Whole /\ TypeOK /\ OneHolder /\ HandInv /\ CarriedInv /\ DiskInv /\ StopInv
    BY <1>1 DEF IInv, Whole
  <2>3. VMInv(v) /\ HandsOnce
    BY <2>2, WholeToParts DEF Parts
  <2>4. v \in active /\ ~Pooled(v) /\ ~InHand(v) /\ ~Reaped(v) /\ ~vms[v].cancelled
    BY <2>1, <2>3 DEF VMInv
  <2>5. vms[v].owner \notin stopped
    BY <2>1, <2>2 DEF StopInv
  <2>6. ~Cancelled(v)
    BY <1>1, <2>1, <2>4, <2>5 DEF Cancelled, PoolLive
  <2>7. \A u \in VMs : Alters(u) => u = v
    BY <2>1, <2>2, AltersOthers
  <2>8. Holders
    BY <1>1, <2>2, StepKinds
  <2>9. ASSUME UNCHANGED vms PROVE FALSE
    BY <2>1, <2>9
  <2>10. ASSUME NEW w \in Workers, Drops(w) PROVE FALSE
    <3>1. task[w].vm = v
      BY <2>7, <2>10 DEF Drops, LetsGo, Freed, Stuck
    <3> QED BY <2>4, <3>1 DEF InHand
  <2>11. ASSUME NEW w \in Workers, Clones(w) PROVE FALSE
    <3>1. vms[v] = Blank
      BY <2>7, <2>11 DEF Clones, Grabs
    <3> QED BY <2>1, <3>1, BlankType
  <2>12. ASSUME NEW w \in Workers, Runs(w) PROVE FALSE
    <3>1. vms'[v].run = "up"
      BY <2>7, <2>12 DEF Runs
    <3> QED BY <2>1, <3>1
  <2>13. ASSUME NEW s \in Sets, Empties(s) PROVE FALSE
    <3>1. Head(pool[s]) \in VMs /\ Pooled(Head(pool[s]))
      BY <2>2, <2>13, PoolGives DEF Empties
    <3>2. Head(pool[s]) = v
      BY <2>7, <2>13, <3>1 DEF Empties, Freed, Stuck
    <3> QED BY <2>4, <3>1, <3>2
  <2>14. ASSUME NEW u \in VMs, Reaps(u) \/ Removes(u) \/ Quits(u) PROVE FALSE
    <3>1. u = v
      BY <2>7, <2>14 DEF Reaps, Removes, Removed, Tried, Quits, Freed
    <3> QED BY <2>1, <2>4, <2>6, <2>14, <3>1 DEF Reaps, Removes, Removed, Tried, Quits
  <2> QED BY <2>8, <2>9, <2>10, <2>11, <2>12, <2>13, <2>14 DEF Holders, GoesOn, Offers, Listens, Takes
<1>2. IInv /\ [Next]_vars => [\A v \in VMs : vms[v].pooled => ~KilledByDrain(v)]_vars
  BY <1>1
<1> QED BY <1>2, Inductive, PTL DEF Spec, DrainSparesWarmRunners

============================================================================
