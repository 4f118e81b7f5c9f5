------------------------------ MODULE HostProofs ------------------------------
(***************************************************************************)
(* Proofs about parts that MCHost puts side by side.  A behaviour is about *)
(* one part; the others' variables keep the value 0.                       *)
(***************************************************************************)
EXTENDS MCHost, WellFoundedInduction, SequenceTheorems, FiniteSetTheorems, TLAPS

-----------------------------------------------------------------------------
(***************************************************************************)
(* The health server.                                                      *)
(***************************************************************************)

\* The kinds of fault a probe can be about.
Kinds == {"disconnected", "draining", "degraded"}

LEMMA FaultsFacts ==
  /\ \A x \in Health!Faults : \E n \in controllers, k \in Kinds : x = <<n, k>>
  /\ \A n : /\ (<<n, "disconnected">> \in Health!Faults <=> (n \in controllers /\ ~ready[n]))
            /\ (<<n, "draining">> \in Health!Faults <=> (n \in controllers /\ status[n].draining))
            /\ (<<n, "degraded">> \in Health!Faults <=> (n \in controllers /\ Health!Degraded(status[n])))
<1>1. \A x \in Health!Faults : \E n \in controllers, k \in Kinds : x = <<n, k>>
  BY DEF Health!Faults, Kinds
<1>2. \A n : /\ (<<n, "disconnected">> \in Health!Faults <=> (n \in controllers /\ ~ready[n]))
            /\ (<<n, "draining">> \in Health!Faults <=> (n \in controllers /\ status[n].draining))
            /\ (<<n, "degraded">> \in Health!Faults <=> (n \in controllers /\ Health!Degraded(status[n])))
  <2> DEFINE G == {<<n, "disconnected">> : n \in {m \in controllers : ~ready[m]}}
             D == {<<n, "draining">> : n \in {m \in controllers : status[m].draining}}
             E == {<<n, "degraded">> : n \in {m \in controllers : Health!Degraded(status[m])}}
  <2>1. Health!Faults = G \cup D \cup E
    BY DEF Health!Faults
  <2>2. ASSUME NEW n PROVE <<n, "disconnected">> \in Health!Faults <=> (n \in controllers /\ ~ready[n])
    BY <2>1
  <2>3. ASSUME NEW n PROVE <<n, "draining">> \in Health!Faults <=> (n \in controllers /\ status[n].draining)
    BY <2>1
  <2>4. ASSUME NEW n PROVE <<n, "degraded">> \in Health!Faults <=> (n \in controllers /\ Health!Degraded(status[n]))
    BY <2>1
  <2> QED BY <2>2, <2>3, <2>4
<1> QED BY <1>1, <1>2

-----------------------------------------------------------------------------
HealthStages == {"starting", "registered", "connecting", "listening", "lost", "waiting", "leaving", "done"}

HealthStatus ==
    [draining : BOOLEAN, waiting : BOOLEAN, failing : BOOLEAN, fresh : BOOLEAN,
     target : 0..HealthRunners, count : 0..HealthRunners]

Probes ==
    [at : {"idle", "counters", "draining", "target", "counts"}, left : SUBSET HealthSets, of : SUBSET HealthSets,
     seen : HealthStatus, answer : {"none", "ok", "not ready"}]

HealthTypes ==
    /\ set \in [HealthSets -> HealthStages]
    /\ controllers \subseteq HealthSets
    /\ ready \in [HealthSets -> BOOLEAN]
    /\ status \in [HealthSets -> HealthStatus]
    /\ probe \in Probes

\* A scale set is registered from its registration to the end of its process, and
\* connected only while it has, or had until an error or the end, a session.
Registered ==
    \A n \in HealthSets :
        /\ n \in controllers => set[n] \notin {"starting", "done"}
        /\ set[n] \notin {"starting", "leaving", "done"} => n \in controllers
        /\ ready[n] => set[n] \in {"listening", "lost", "leaving"}

\* The writers wait while a probe reads: the sets it has still to read, and the one it
\* reads, are registered, and all are connected.
Reader ==
    /\ probe.at # "idle" => /\ \A n \in controllers : ready[n]
                            /\ probe.left \subseteq controllers /\ probe.of \subseteq controllers
    /\ probe.at \in {"draining", "target", "counts"} => \E n \in HealthSets : probe.of = {n}
    /\ probe.at \in {"idle", "counters"} => probe.of = {}

\* A fault that has lasted is one now.
Lasting == faulty \subseteq Health!Faults

\* A set the probe is done with has no fault that has lasted; of the one it reads, what
\* it has seen so far shows every such fault.
Unread(n) == n \in probe.left \/ n \in probe.of

SeenFaults ==
    /\ probe.at # "idle" => \A x \in faulty : Unread(x[1])
    /\ \A n \in probe.of :
           /\ probe.at \in {"draining", "target", "counts"} /\ <<n, "degraded">> \in faulty =>
                  probe.seen.failing /\ ~probe.seen.waiting
           /\ probe.at \in {"target", "counts"} /\ <<n, "draining">> \in faulty => probe.seen.draining
           /\ probe.at = "counts" /\ <<n, "degraded">> \in faulty =>
                  probe.seen.fresh /\ status[n].target <= probe.seen.target
    /\ probe.answer = "ok" => faulty = {}

HealthInv == HealthTypes /\ Registered /\ Reader /\ Lasting /\ SeenFaults

-----------------------------------------------------------------------------
LEMMA StatusFacts ==
  ASSUME NEW s \in HealthStatus
  PROVE  /\ s.target \in Int /\ s.count \in Int
         /\ \A b \in BOOLEAN : /\ [s EXCEPT !.draining = b] \in HealthStatus
                               /\ [s EXCEPT !.waiting = b] \in HealthStatus
                               /\ [s EXCEPT !.failing = b] \in HealthStatus
                               /\ [s EXCEPT !.fresh = b] \in HealthStatus
         /\ \A t \in 0..HealthRunners : [s EXCEPT !.target = t] \in HealthStatus
         /\ s.count < HealthRunners => [s EXCEPT !.count = @ + 1] \in HealthStatus
         /\ s.count > 0 => [s EXCEPT !.count = @ - 1] \in HealthStatus
<1>1. HealthRunners \in Nat
  BY HostAssumption DEF Health!HealthAssumption
<1>2. s.target \in 0..HealthRunners /\ s.count \in 0..HealthRunners
  BY DEF HealthStatus
<1>3. s.target \in Int /\ s.count \in Int
  BY <1>1, <1>2
<1>4. ASSUME NEW b \in BOOLEAN
      PROVE  /\ [s EXCEPT !.draining = b] \in HealthStatus
             /\ [s EXCEPT !.waiting = b] \in HealthStatus
             /\ [s EXCEPT !.failing = b] \in HealthStatus
             /\ [s EXCEPT !.fresh = b] \in HealthStatus
  BY DEF HealthStatus
<1>5. ASSUME NEW t \in 0..HealthRunners
      PROVE  [s EXCEPT !.target = t] \in HealthStatus /\ [s EXCEPT !.count = t] \in HealthStatus
  BY DEF HealthStatus
<1>6. s.count < HealthRunners => s.count + 1 \in 0..HealthRunners
  BY <1>1, <1>2
<1>7. s.count > 0 => s.count - 1 \in 0..HealthRunners
  BY <1>1, <1>2
<1> QED BY <1>3, <1>4, <1>5, <1>6, <1>7

LEMMA NoProbeIs ==
  /\ Health!NoProbe = [at |-> "idle", left |-> {}, of |-> {}, seen |-> Health!Calm, answer |-> "none"]
  /\ Health!Calm \in HealthStatus
<1>1. 0 \in 0..HealthRunners
  BY HostAssumption DEF Health!HealthAssumption
<1> QED BY <1>1 DEF Health!NoProbe, Health!Calm, HealthStatus

LEMMA HealthStarts == Health!Init => HealthInv
<1> SUFFICES ASSUME Health!Init PROVE HealthInv
  OBVIOUS
<1>1. PICK t \in 0..HealthRunners :
          status = [n \in HealthSets |-> [Health!Calm EXCEPT !.fresh = TRUE, !.target = t]]
  BY DEF Health!Init
<1>2. status \in [HealthSets -> HealthStatus]
  BY <1>1, NoProbeIs DEF HealthStatus
<1>3. HealthTypes
  BY <1>2, NoProbeIs DEF Health!Init, HealthTypes, HealthStages, Probes
<1>4. Registered /\ Reader /\ Lasting
  BY NoProbeIs DEF Health!Init, Registered, Reader, Lasting
<1>5. SeenFaults
  BY NoProbeIs DEF Health!Init, SeenFaults
<1> QED BY <1>3, <1>4, <1>5 DEF HealthInv

\* What the steps of the scale sets and of their controllers keep: the faults that have
\* lasted only become fewer, and the probe stands.
LEMMA FewerFaults ==
  ASSUME HealthTypes, HealthTypes', Lasting, SeenFaults, Health!StillFaulty, probe' = probe
  PROVE  Lasting' /\ SeenFaults'
<1>1. /\ faulty' \subseteq Health!Faults' /\ faulty' \subseteq faulty
      /\ \A n : <<n, "degraded">> \in faulty' => status'[n].target <= status[n].target
  BY DEF Health!StillFaulty
<1>2. Lasting'
  BY <1>1 DEF Lasting
<1>3. (probe.at # "idle" => \A x \in faulty : Unread(x[1]))'
  BY <1>1 DEF SeenFaults, Unread
<1>4. (probe.answer = "ok" => faulty = {})'
  BY <1>1 DEF SeenFaults
<1>5. ASSUME NEW n \in probe.of
      PROVE  /\ probe.at \in {"draining", "target", "counts"} /\ <<n, "degraded">> \in faulty' =>
                    probe.seen.failing /\ ~probe.seen.waiting
             /\ probe.at \in {"target", "counts"} /\ <<n, "draining">> \in faulty' => probe.seen.draining
  BY <1>1 DEF SeenFaults
<1>6. ASSUME NEW n \in probe.of, probe.at = "counts", <<n, "degraded">> \in faulty'
      PROVE  probe.seen.fresh /\ status'[n].target <= probe.seen.target
  <2>1. probe.seen.fresh /\ status[n].target <= probe.seen.target /\ status'[n].target <= status[n].target
    BY <1>1, <1>6 DEF SeenFaults
  <2>2. n \in HealthSets
    BY DEF HealthTypes, Probes
  <2>3. status[n] \in HealthStatus /\ status'[n] \in HealthStatus /\ probe.seen \in HealthStatus
    BY <2>2 DEF HealthTypes, Probes
  <2>4. status[n].target \in Int /\ status'[n].target \in Int /\ probe.seen.target \in Int
    BY <2>3, StatusFacts
  <2> QED BY <2>1, <2>4
<1>7. (\A n \in probe.of :
           /\ probe.at \in {"draining", "target", "counts"} /\ <<n, "degraded">> \in faulty =>
                  probe.seen.failing /\ ~probe.seen.waiting
           /\ probe.at \in {"target", "counts"} /\ <<n, "draining">> \in faulty => probe.seen.draining
           /\ probe.at = "counts" /\ <<n, "degraded">> \in faulty =>
                  probe.seen.fresh /\ status[n].target <= probe.seen.target)'
  BY <1>5, <1>6
<1> QED BY <1>2, <1>3, <1>4, <1>7 DEF SeenFaults

LEMMA SetsKeep ==
  ASSUME HealthInv, NEW n \in HealthSets,
         \/ Health!RegisterController(n) \/ Health!Disconnect(n) \/ Health!MarkConnected(n)
         \/ Health!ListenFails(n) \/ Health!Leave(n) \/ Health!UnregisterController(n)
  PROVE  HealthInv'
<1> USE DEF HealthInv
<1>1. Health!StillFaulty /\ probe' = probe /\ status' = status
  BY DEF Health!RegisterController, Health!Disconnect, Health!MarkConnected, Health!ListenFails,
         Health!Leave, Health!UnregisterController
<1>3. PICK to \in HealthStages : set' = [set EXCEPT ![n] = to]
  BY DEF Health!RegisterController, Health!Disconnect, Health!MarkConnected, Health!ListenFails,
         Health!Leave, Health!UnregisterController, Health!SetGoes, HealthStages, Health!MarkDisconnected
<1>4. HealthTypes' /\ Registered'
  <2>1. CASE Health!RegisterController(n)
    BY <1>1, <2>1 DEF Health!RegisterController, Health!SetGoes, HealthTypes, Registered, HealthStages
  <2>2. CASE Health!Disconnect(n)
    BY <1>1, <2>2 DEF Health!Disconnect, Health!MarkDisconnected, Health!SetGoes, HealthTypes, Registered, HealthStages
  <2>3. CASE Health!MarkConnected(n)
    BY <1>1, <2>3 DEF Health!MarkConnected, Health!SetGoes, HealthTypes, Registered, HealthStages
  <2>4. CASE Health!ListenFails(n)
    BY <1>1, <2>4 DEF Health!ListenFails, Health!SetGoes, HealthTypes, Registered, HealthStages
  <2>5. CASE Health!Leave(n)
    BY <1>1, <2>5 DEF Health!Leave, Health!SetGoes, HealthTypes, Registered, HealthStages
  <2>6. CASE Health!UnregisterController(n)
    BY <1>1, <2>6 DEF Health!UnregisterController, Health!SetGoes, HealthTypes, Registered, HealthStages
  <2> QED BY <2>1, <2>2, <2>3, <2>4, <2>5, <2>6
<1>5. probe.at = "idle" \/ (controllers' = controllers /\ ready' = ready)
  BY DEF Health!RegisterController, Health!Disconnect, Health!MarkConnected, Health!ListenFails,
         Health!Leave, Health!UnregisterController, Health!NoReader
<1>6. Reader'
  BY <1>1, <1>5 DEF Reader
<1>7. Lasting' /\ SeenFaults'
  BY <1>1, <1>4, FewerFaults
<1> QED BY <1>4, <1>6, <1>7

LEMMA ControllersKeep ==
  ASSUME HealthInv, NEW n \in HealthSets, Health!ControllerChanges(n)
  PROVE  HealthInv'
<1> USE DEF HealthInv
<1>1. PICK to \in HealthStatus : Health!Changed(n, to)
  <2> DEFINE old == status[n]
  <2>1. old \in HealthStatus
    BY DEF HealthTypes
  <2>3. old.waiting \in BOOLEAN /\ old.failing \in BOOLEAN /\ old.fresh \in BOOLEAN
    BY <2>1 DEF HealthStatus
  <2>2. /\ [old EXCEPT !.draining = TRUE] \in HealthStatus
        /\ [old EXCEPT !.waiting = ~@] \in HealthStatus
        /\ [old EXCEPT !.failing = ~@] \in HealthStatus
        /\ [old EXCEPT !.fresh = ~@] \in HealthStatus
        /\ \A t \in 0..HealthRunners : [old EXCEPT !.target = t] \in HealthStatus
        /\ old.count < HealthRunners => [old EXCEPT !.count = @ + 1] \in HealthStatus
        /\ old.count > 0 => [old EXCEPT !.count = @ - 1] \in HealthStatus
    <3> HIDE DEF old
    <3> QED BY <2>1, <2>3, StatusFacts
  <2> QED BY <2>2 DEF Health!ControllerChanges
<1>2. Health!StillFaulty /\ UNCHANGED <<set, controllers, ready, probe>> /\ status' = [status EXCEPT ![n] = to]
  BY <1>1 DEF Health!Changed
<1>3. HealthTypes' /\ Registered' /\ Reader'
  BY <1>2 DEF HealthTypes, Registered, Reader
<1>4. Lasting' /\ SeenFaults'
  BY <1>2, <1>3, FewerFaults
<1> QED BY <1>3, <1>4

-----------------------------------------------------------------------------
(* A probe.                                                                *)

LEMMA ProbeKeeps ==
  ASSUME HealthInv, Health!Probe
  PROVE  HealthInv'
<1> USE DEF HealthInv
<1>1. UNCHANGED <<set, controllers, ready, status>> /\ faulty' = Health!Faults /\ probe.at = "idle"
  BY DEF Health!Probe, Health!NoReader
<1>2. Health!Faults' = Health!Faults
  BY <1>1 DEF Health!Faults
<1>3. Lasting' /\ Registered'
  BY <1>1, <1>2 DEF Lasting, Registered
<1>4. CASE Health!Unready
  <2>1. probe' = [Health!NoProbe EXCEPT !.answer = "not ready"]
    BY <1>4 DEF Health!Probe, Health!Answers
  <2>2. probe' = [at |-> "idle", left |-> {}, of |-> {}, seen |-> Health!Calm, answer |-> "not ready"]
    BY <2>1, NoProbeIs
  <2> QED
    BY <1>1, <1>3, <2>2, NoProbeIs DEF HealthTypes, Reader, SeenFaults, Probes
<1>5. CASE ~Health!Unready
  <2>1. probe' = [at |-> "counters", left |-> controllers, of |-> {}, seen |-> Health!Calm, answer |-> "none"]
    BY <1>5, NoProbeIs DEF Health!Probe
  <2>2. \A n \in controllers : ready[n]
    BY <1>5 DEF Health!Unready
  <2>3. \A x \in Health!Faults : x[1] \in controllers
    BY FaultsFacts
  <2>4. HealthTypes'
    BY <1>1, <2>1, NoProbeIs DEF HealthTypes, Probes
  <2>5. Reader'
    BY <1>1, <2>1, <2>2 DEF Reader
  <2>6. SeenFaults'
    BY <1>1, <2>1, <2>3 DEF SeenFaults, Unread
  <2> QED BY <1>3, <2>4, <2>5, <2>6
<1> QED BY <1>4, <1>5

LEMMA ReadCountersKeeps ==
  ASSUME HealthInv, Health!ReadCounters
  PROVE  HealthInv'
<1> USE DEF HealthInv
<1>1. UNCHANGED <<set, controllers, ready, status, faulty>> /\ probe.at = "counters"
  BY DEF Health!ReadCounters, Health!Reading
<1>2. PICK n \in probe.left :
          probe' = [probe EXCEPT !.at = "draining", !.of = {n}, !.left = @ \ {n},
                                 !.seen = [Health!Calm EXCEPT !.failing = status[n].failing,
                                                       !.waiting = status[n].waiting]]
  BY DEF Health!ReadCounters
<1>3. n \in HealthSets /\ n \in controllers
  BY <1>1 DEF Reader, HealthTypes
<1>4. /\ probe'.at = "draining" /\ probe'.of = {n} /\ probe'.left = probe.left \ {n}
      /\ probe'.answer = probe.answer
      /\ probe'.seen.waiting = status[n].waiting /\ probe'.seen.failing = status[n].failing
      /\ probe' \in Probes
  <2>1. PICK calm \in HealthStatus : calm = Health!Calm
    BY NoProbeIs
  <2>2. status[n].failing \in BOOLEAN /\ status[n].waiting \in BOOLEAN
    BY <1>3 DEF HealthTypes, HealthStatus
  <2>3. PICK seen \in HealthStatus :
            /\ seen = [calm EXCEPT !.failing = status[n].failing, !.waiting = status[n].waiting]
            /\ seen.waiting = status[n].waiting /\ seen.failing = status[n].failing
    <3>1. \A f, w \in BOOLEAN :
              LET seen == [calm EXCEPT !.failing = f, !.waiting = w]
              IN  seen \in HealthStatus /\ seen.waiting = w /\ seen.failing = f
      BY DEF HealthStatus
    <3> QED BY <2>2, <3>1
  <2>4. probe' = [probe EXCEPT !.at = "draining", !.of = {n}, !.left = @ \ {n}, !.seen = seen]
    BY <1>2, <2>1, <2>3
  <2>5. probe \in Probes
    BY DEF HealthTypes
  <2> QED BY <1>3, <2>3, <2>4, <2>5 DEF Probes
<1>5. HealthTypes' /\ Registered'
  BY <1>1, <1>4 DEF HealthTypes, Registered
<1>6. Lasting'
  BY <1>1 DEF Lasting, Health!Faults
<1>7. Reader'
  BY <1>1, <1>3, <1>4 DEF Reader
<1>8. <<n, "degraded">> \in faulty => status[n].failing /\ ~status[n].waiting
  BY FaultsFacts DEF Lasting, Health!Degraded
<1>9. SeenFaults'
  <2>1. \A x \in faulty : x[1] \in probe.left
    BY <1>1 DEF SeenFaults, Reader, Unread
  <2> QED BY <1>1, <1>4, <1>8, <2>1 DEF SeenFaults, Unread
<1> QED BY <1>5, <1>6, <1>7, <1>9

LEMMA ReadDrainingKeeps ==
  ASSUME HealthInv, Health!ReadDraining
  PROVE  HealthInv'
<1> USE DEF HealthInv
<1>1. UNCHANGED <<set, controllers, ready, status, faulty>> /\ probe.at = "draining"
  BY DEF Health!ReadDraining, Health!Reading
<1>2. PICK n \in probe.of : probe' = [probe EXCEPT !.at = "target", !.seen.draining = status[n].draining]
  BY DEF Health!ReadDraining
<1>3. n \in HealthSets /\ n \in controllers /\ probe.of = {n}
  BY <1>1 DEF Reader, HealthTypes
<1>4. /\ probe'.at = "target" /\ probe'.of = {n} /\ probe'.left = probe.left
      /\ probe'.answer = probe.answer
      /\ probe'.seen = [probe.seen EXCEPT !.draining = status[n].draining]
      /\ probe' \in Probes
  BY <1>2, <1>3 DEF HealthTypes, Probes, HealthStatus
<1>5. probe'.seen.draining = status[n].draining /\ probe'.seen.failing = probe.seen.failing
      /\ probe'.seen.waiting = probe.seen.waiting
  BY <1>4 DEF HealthTypes, Probes, HealthStatus
<1>6. HealthTypes' /\ Registered'
  BY <1>1, <1>4 DEF HealthTypes, Registered
<1>7. Lasting'
  BY <1>1 DEF Lasting, Health!Faults
<1>8. Reader'
  BY <1>1, <1>3, <1>4 DEF Reader
<1>9. <<n, "draining">> \in faulty => status[n].draining
  BY FaultsFacts DEF Lasting
<1>10. SeenFaults'
  BY <1>1, <1>3, <1>4, <1>5, <1>9 DEF SeenFaults, Unread
<1> QED BY <1>6, <1>7, <1>8, <1>10

LEMMA ReadTargetKeeps ==
  ASSUME HealthInv, Health!ReadTarget
  PROVE  HealthInv'
<1> USE DEF HealthInv
<1>1. UNCHANGED <<set, controllers, ready, status, faulty>> /\ probe.at = "target"
  BY DEF Health!ReadTarget, Health!Reading
<1>2. PICK n \in probe.of : probe' = [probe EXCEPT !.at = "counts", !.seen.fresh = status[n].fresh,
                                                  !.seen.target = status[n].target]
  BY DEF Health!ReadTarget
<1>3. n \in HealthSets /\ n \in controllers /\ probe.of = {n}
  BY <1>1 DEF Reader, HealthTypes
<1>4. /\ probe'.at = "counts" /\ probe'.of = {n} /\ probe'.left = probe.left
      /\ probe'.answer = probe.answer
      /\ probe'.seen = [probe.seen EXCEPT !.fresh = status[n].fresh, !.target = status[n].target]
      /\ probe' \in Probes
  BY <1>2, <1>3 DEF HealthTypes, Probes, HealthStatus
<1>5. /\ probe'.seen.draining = probe.seen.draining /\ probe'.seen.failing = probe.seen.failing
      /\ probe'.seen.waiting = probe.seen.waiting
      /\ probe'.seen.fresh = status[n].fresh /\ probe'.seen.target = status[n].target
  BY <1>4 DEF HealthTypes, Probes, HealthStatus
<1>6. HealthTypes' /\ Registered'
  BY <1>1, <1>4 DEF HealthTypes, Registered
<1>7. Lasting'
  BY <1>1 DEF Lasting, Health!Faults
<1>8. Reader'
  BY <1>1, <1>3, <1>4 DEF Reader
<1>9. <<n, "degraded">> \in faulty => status[n].fresh
  BY FaultsFacts DEF Lasting, Health!Degraded
<1>10. status[n].target <= probe'.seen.target
  BY <1>3, <1>5 DEF HealthTypes, HealthStatus
<1>11. SeenFaults'
  BY <1>1, <1>3, <1>4, <1>5, <1>9, <1>10 DEF SeenFaults, Unread
<1> QED BY <1>6, <1>7, <1>8, <1>11

LEMMA ReadCountsKeeps ==
  ASSUME HealthInv, Health!ReadCounts
  PROVE  HealthInv'
<1> USE DEF HealthInv
<1>1. UNCHANGED <<set, controllers, ready, status, faulty>> /\ probe.at = "counts"
  BY DEF Health!ReadCounts, Health!Reading
<1> DEFINE Seen(n) == [probe.seen EXCEPT !.count = status[n].count]
           Bad(n) == Seen(n).draining \/ Health!Degraded(Seen(n))
<1>2. PICK n \in probe.of :
          CASE Bad(n) -> Health!Answers("not ready")
            [] ~Bad(n) /\ probe.left = {} -> Health!Answers("ok")
            [] OTHER -> probe' = [probe EXCEPT !.at = "counters", !.of = {}]
  BY DEF Health!ReadCounts
<1>3. n \in HealthSets /\ n \in controllers /\ probe.of = {n}
  BY <1>1 DEF Reader, HealthTypes
<1>4. Lasting' /\ Registered'
  BY <1>1 DEF Lasting, Registered, Health!Faults
<1>5. ~Bad(n) => \A x \in faulty : x[1] # n
  <2> SUFFICES ASSUME ~Bad(n), NEW x \in faulty, x[1] = n PROVE FALSE
    OBVIOUS
  <2>1. PICK m \in controllers, k \in Kinds : x = <<m, k>>
    BY FaultsFacts DEF Lasting
  <2>2. x = <<n, k>> /\ k \in Kinds /\ x \in Health!Faults
    BY <2>1 DEF Lasting
  <2>3. /\ Seen(n).draining = probe.seen.draining /\ Seen(n).waiting = probe.seen.waiting
        /\ Seen(n).failing = probe.seen.failing /\ Seen(n).fresh = probe.seen.fresh
        /\ Seen(n).target = probe.seen.target /\ Seen(n).count = status[n].count
    BY DEF HealthTypes, Probes, HealthStatus
  <2>4. CASE k = "disconnected"
    BY <1>1, <2>2, <2>4, FaultsFacts DEF Reader
  <2>5. CASE k = "draining"
    BY <1>1, <1>3, <2>2, <2>3, <2>5 DEF SeenFaults
  <2>6. CASE k = "degraded"
    <3>1. status[n].count < status[n].target
      BY <2>2, <2>6, FaultsFacts DEF Health!Degraded
    <3>2. probe.seen.failing /\ ~probe.seen.waiting /\ probe.seen.fresh
          /\ status[n].target <= probe.seen.target
      BY <1>1, <1>3, <2>2, <2>6 DEF SeenFaults
    <3>3. status[n].count \in Int /\ status[n].target \in Int /\ probe.seen.target \in Int
      <4>1. status[n] \in HealthStatus /\ probe.seen \in HealthStatus
        BY <1>3 DEF HealthTypes, Probes
      <4> QED BY <4>1, StatusFacts
    <3>4. status[n].count < probe.seen.target
      BY <3>1, <3>2, <3>3
    <3> QED BY <2>3, <3>2, <3>4 DEF Health!Degraded
  <2> QED BY <2>2, <2>4, <2>5, <2>6 DEF Kinds
<1>6. \A answer \in {"ok", "not ready"} :
          Health!Answers(answer) =>
              probe' = [at |-> "idle", left |-> {}, of |-> {}, seen |-> Health!Calm, answer |-> answer]
  BY NoProbeIs DEF Health!Answers
<1>7. \A x \in faulty : x[1] \in probe.left \/ x[1] = n
  BY <1>1, <1>3 DEF SeenFaults, Unread
<1>8. CASE Bad(n)
  <2>1. probe' = [at |-> "idle", left |-> {}, of |-> {}, seen |-> Health!Calm, answer |-> "not ready"]
    BY <1>2, <1>6, <1>8
  <2> QED
    BY <1>1, <1>4, <2>1, NoProbeIs DEF HealthTypes, Reader, SeenFaults, Probes
<1>9. CASE ~Bad(n) /\ probe.left = {}
  <2>1. probe' = [at |-> "idle", left |-> {}, of |-> {}, seen |-> Health!Calm, answer |-> "ok"]
    BY <1>2, <1>6, <1>9
  <2>2. faulty = {}
    BY <1>5, <1>7, <1>9
  <2> QED
    BY <1>1, <1>4, <2>1, <2>2, NoProbeIs DEF HealthTypes, Reader, SeenFaults, Probes
<1>10. CASE ~Bad(n) /\ probe.left # {}
  <2>1. probe' = [probe EXCEPT !.at = "counters", !.of = {}]
    BY <1>2, <1>10
  <2>2. /\ probe'.at = "counters" /\ probe'.of = {} /\ probe'.left = probe.left
        /\ probe'.answer = probe.answer /\ probe' \in Probes
    BY <2>1 DEF HealthTypes, Probes
  <2>3. HealthTypes' /\ Reader'
    BY <1>1, <2>2 DEF HealthTypes, Reader
  <2>4. \A x \in faulty : x[1] \in probe.left
    BY <1>5, <1>7, <1>10
  <2>5. SeenFaults'
    BY <1>1, <2>2, <2>4 DEF SeenFaults, Unread
  <2> QED BY <1>4, <2>3, <2>5
<1> QED BY <1>8, <1>9, <1>10

LEMMA HealthKeeps == HealthInv /\ Health!Next => HealthInv'
<1> SUFFICES ASSUME HealthInv, Health!Next PROVE HealthInv'
  OBVIOUS
<1>1. CASE \E n \in HealthSets :
              \/ Health!RegisterController(n) \/ Health!Disconnect(n) \/ Health!MarkConnected(n)
              \/ Health!ListenFails(n) \/ Health!Leave(n) \/ Health!UnregisterController(n)
  BY <1>1, SetsKeep
<1>2. CASE \E n \in HealthSets : Health!ControllerChanges(n)
  BY <1>2, ControllersKeep
<1>3. CASE Health!Probe
  BY <1>3, ProbeKeeps
<1>4. CASE Health!ReadCounters
  BY <1>4, ReadCountersKeeps
<1>5. CASE Health!ReadDraining
  BY <1>5, ReadDrainingKeeps
<1>6. CASE Health!ReadTarget
  BY <1>6, ReadTargetKeeps
<1>7. CASE Health!ReadCounts
  BY <1>7, ReadCountsKeeps
<1> QED BY <1>1, <1>2, <1>3, <1>4, <1>5, <1>6, <1>7 DEF Health!Next

-----------------------------------------------------------------------------
LEMMA HealthIsTold == HealthInv => Health!TypeOK /\ Health!LastingFaultShows /\ Health!EndpointsAgree
<1> SUFFICES ASSUME HealthInv PROVE Health!TypeOK /\ Health!LastingFaultShows /\ Health!EndpointsAgree
  OBVIOUS
<1> USE DEF HealthInv
<1>1. Health!LastingFaultShows
  BY DEF Health!LastingFaultShows, SeenFaults
<1>2. probe.at = "idle" \/ Cardinality(probe.of) <= 1
  <2>1. CASE probe.of = {}
    BY <2>1, FS_EmptySet
  <2>2. CASE probe.of # {}
    <3>1. PICK n \in HealthSets : probe.of = {n}
      BY <2>2 DEF Reader, HealthTypes, Probes
    <3> QED BY <3>1, FS_Singleton
  <2> QED BY <2>1, <2>2
<1>3. Health!TypeOK
  <2>1. Health!Cardinality(probe.of) = Cardinality(probe.of)
    BY DEF Health!Cardinality, Cardinality
  <2>2. probe.at = "idle" \/ Health!Cardinality(probe.of) <= 1
    BY <1>2, <2>1
  <2>3. \A n \in HealthSets : ready[n] => set[n] \in {"listening", "lost", "leaving"}
    BY DEF Registered
  <2>4. probe.answer \in {"none", "ok", "not ready"}
    BY DEF HealthTypes, Probes
  <2>5. controllers = {n \in HealthSets : set[n] \notin {"starting", "done"}}
                      \ {n \in HealthSets : set[n] = "leaving" /\ n \notin controllers}
    BY DEF HealthTypes, Registered
  <2> QED BY <2>2, <2>3, <2>4, <2>5 DEF Health!TypeOK
<1>4. ASSUME controllers # {} PROVE Health!Healthz <=> Health!Readyz
  <2>1. ASSUME Health!Healthz PROVE Health!Faults = {}
    <3> SUFFICES ASSUME NEW x \in Health!Faults PROVE FALSE
      OBVIOUS
    <3>1. PICK n \in controllers, k \in Kinds : x = <<n, k>>
      BY FaultsFacts
    <3>2. ready[n] /\ ~status[n].draining /\ ~Health!Degraded(status[n])
      BY <2>1, <3>1 DEF Health!Healthz
    <3> QED BY <3>1, <3>2, FaultsFacts DEF Kinds
  <2>2. ASSUME Health!Faults = {} PROVE Health!Healthz
    BY <2>2, FaultsFacts DEF Health!Healthz
  <2> QED BY <1>4, <2>1, <2>2 DEF Health!Readyz
<1> QED BY <1>1, <1>3, <1>4 DEF Health!EndpointsAgree

\* A scale set that is disconnected, draining, or short of runners after failed starts
\* from the beginning of a probe of /readyz to its end makes the answer 503, though the
\* status of a controller is read in four pieces (RuntimeStatus) and others change it
\* in between - unless it is short of runners only and its target rises during the
\* probe; and /healthz never disagrees with /readyz about registered sets.
THEOREM FaultsAreToldHolds == Spec => []FaultsAreTold
<1> DEFINE Inv == part = "health" => HealthInv
<1>1. Init => Inv
  BY HealthStarts DEF Init
<1>2. Inv /\ [Next]_vars => Inv'
  <2> SUFFICES ASSUME Inv, [Next]_vars, part' = "health" PROVE HealthInv'
    OBVIOUS
  <2>1. CASE UNCHANGED vars
    <3>1. part' = part /\ UNCHANGED <<set, controllers, ready, status, probe, faulty>>
      BY <2>1 DEF vars, health
    <3>2. Health!Faults' = Health!Faults
      BY <3>1 DEF Health!Faults
    <3> QED BY <3>1, <3>2 DEF HealthInv, HealthTypes, Registered, Reader, Lasting, SeenFaults, Unread
  <2>2. CASE Next
    <3>1. part = "health" /\ Health!Next
      BY <2>2 DEF Next
    <3> QED BY <3>1, HealthKeeps
  <2> QED BY <2>1, <2>2
<1>3. Inv => FaultsAreTold
  BY HealthIsTold DEF FaultsAreTold
<1> QED BY <1>1, <1>2, <1>3, PTL DEF Spec

-----------------------------------------------------------------------------
(***************************************************************************)
(* Numbers: every set of them has a least one.                             *)
(***************************************************************************)

LEMMA LeastNumber ==
  ASSUME NEW T \in SUBSET Nat, T # {}
  PROVE  \E n \in T : \A m \in T : n <= m
<1>1. \A R, S, U : IsWellFoundedOn(R, S) /\ U \subseteq S /\ U # {}
                   => \E x \in U : \A y \in U : ~ (<<y, x>> \in R)
  BY WFMin
<1>2. IsWellFoundedOn({p \in Nat \X Nat : p[1] < p[2]}, Nat)
  BY NatLessThanWellFounded DEF OpToRel
<1>3. PICK n \in T : \A m \in T : ~(<<m, n>> \in {p \in Nat \X Nat : p[1] < p[2]})
  BY <1>1, <1>2
<1>4. \A m \in T : ~(m < n)
  BY <1>3
<1> QED BY <1>4

\* A set with 0, and with the successor of each number it has below n, has all up to n.
LEMMA UpTo ==
  ASSUME NEW n \in Nat, NEW S, 0 \in S, \A i \in 1..n : i - 1 \in S => i \in S
  PROVE  \A i \in 0..n : i \in S
<1> DEFINE T == {i \in 0..n : i \notin S}
<1> SUFFICES ASSUME T # {} PROVE FALSE
  OBVIOUS
<1>1. PICK k \in T : \A m \in T : k <= m
  <2>1. T \in SUBSET Nat
    OBVIOUS
  <2> HIDE DEF T
  <2> QED BY <2>1, LeastNumber
<1>2. k \in 1..n /\ k - 1 \in 0..n /\ ~(k <= k - 1)
  BY <1>1
<1>3. k - 1 \in S
  BY <1>1, <1>2
<1> QED BY <1>1, <1>2, <1>3

-----------------------------------------------------------------------------
(***************************************************************************)
(* The log: its length is that of its records and of what writes that      *)
(* failed left behind.                                                     *)
(***************************************************************************)

LogRecord == [id : Int, length : LogLengths]

LogState == [there : BOOLEAN, records : Seq(LogRecord), torn : Nat]

\* The sums that Bytes forms, one per number of records.
Sums(f, g) ==
    /\ g = [i \in 0..Len(f.records) |-> g[i]]
    /\ g[0] = f.torn
    /\ \A i \in 1..Len(f.records) : g[i] = g[i - 1] + f.records[i].length

LEMMA Lengthy ==
  ASSUME NEW f \in LogState
  PROVE  /\ Len(f.records) \in Nat
         /\ \A i \in 1..Len(f.records) : f.records[i] \in LogRecord /\ f.records[i].length \in Nat \ {0}
         /\ f.torn \in Nat
<1>1. f.records \in Seq(LogRecord) /\ f.torn \in Nat
  BY DEF LogState
<1>2. LogLengths \subseteq Nat \ {0}
  BY HostAssumption DEF Log!LogAssumption
<1>3. Len(f.records) \in Nat /\ \A i \in 1..Len(f.records) : f.records[i] \in LogRecord
  BY <1>1, LenProperties, ElementOfSeq
<1> QED BY <1>1, <1>2, <1>3 DEF LogRecord

LEMMA SumsExist ==
  ASSUME NEW f \in LogState
  PROVE  \E g : g = [i \in 0..Len(f.records) |->
                        IF i = 0 THEN f.torn ELSE g[i - 1] + f.records[i].length]
<1> DEFINE n == Len(f.records)
           step(x, i) == x + f.records[i].length
           goes(g, k) == g = [i \in 0..k |-> IF i = 0 THEN f.torn ELSE step(g[i - 1], i)]
           P == {k \in 0..n : \E g : goes(g, k)}
<1>0. n \in Nat
  BY Lengthy
<1>1. 0 \in P
  <2>1. goes([i \in 0..0 |-> f.torn], 0)
    OBVIOUS
  <2>2. 0 \in 0..n
    BY <1>0
  <2> HIDE DEF goes
  <2> QED BY <2>1, <2>2
<1>2. ASSUME NEW k \in 1..n, k - 1 \in P PROVE k \in P
  <2>1. PICK g : goes(g, k - 1)
    BY <1>2
  <2> DEFINE h == [i \in 0..k |-> IF i = k THEN step(g[k - 1], k) ELSE g[i]]
  <2>2. ASSUME NEW i \in 0..k PROVE h[i] = IF i = 0 THEN f.torn ELSE step(h[i - 1], i)
    <3>1. CASE i = k
      <4>1. h[i] = step(g[k - 1], k) /\ h[k - 1] = g[k - 1] /\ i # 0
        BY <1>0, <3>1
      <4> HIDE DEF h, step
      <4> QED BY <3>1, <4>1
    <3>2. CASE i # k /\ i # 0
      <4>1. h[i] = g[i] /\ h[i - 1] = g[i - 1] /\ i \in 0..(k - 1)
        BY <1>0, <3>2
      <4> HIDE DEF h, step
      <4>2. g[i] = step(g[i - 1], i)
        BY <2>1, <3>2, <4>1
      <4> QED BY <3>2, <4>1, <4>2
    <3>3. CASE i = 0 /\ i # k
      <4>1. h[i] = g[i] /\ i \in 0..(k - 1)
        BY <1>0, <3>3
      <4> HIDE DEF h, step
      <4> QED BY <2>1, <3>3, <4>1
    <3> QED BY <3>1, <3>2, <3>3
  <2>3. goes(h, k)
    <3>1. h = [i \in 0..k |-> h[i]]
      OBVIOUS
    <3> HIDE DEF h, step
    <3> QED BY <2>2, <3>1
  <2>4. k \in 0..n
    BY <1>0
  <2> HIDE DEF goes, h
  <2> QED BY <2>3, <2>4
<1> HIDE DEF goes
<1>3. \A i \in 0..n : i \in P
  BY <1>0, <1>1, <1>2, UpTo
<1>4. n \in 0..n
  BY <1>0
<1>5. \E g : goes(g, n)
  BY <1>3, <1>4, Zenon
<1> QED BY <1>5 DEF goes

LEMMA BytesIsSum ==
  ASSUME NEW f \in LogState
  PROVE  \E g : Sums(f, g) /\ Log!Bytes(f) = g[Len(f.records)]
<1> DEFINE upTo[i \in 0..Len(f.records)] ==
               IF i = 0 THEN f.torn ELSE upTo[i - 1] + f.records[i].length
<1>1. Log!Bytes(f) = upTo[Len(f.records)]
  BY DEF Log!Bytes
<1>2. upTo = [i \in 0..Len(f.records) |-> IF i = 0 THEN f.torn ELSE upTo[i - 1] + f.records[i].length]
  BY SumsExist, Zenon
<1> HIDE DEF upTo
<1>3. Len(f.records) \in Nat
  BY Lengthy
<1>4. Sums(f, upTo)
  <2>1. upTo = [i \in 0..Len(f.records) |-> upTo[i]]
    BY <1>2
  <2>2. upTo[0] = f.torn
    BY <1>2, <1>3
  <2>3. \A i \in 1..Len(f.records) : upTo[i] = upTo[i - 1] + f.records[i].length
    BY <1>2, <1>3
  <2> QED BY <2>1, <2>2, <2>3 DEF Sums
<1> QED BY <1>1, <1>4

LEMMA SumsGrow ==
  ASSUME NEW f \in LogState, NEW g, Sums(f, g)
  PROVE  \A i \in 0..Len(f.records) : g[i] \in Nat /\ g[i] >= f.torn
<1> DEFINE n == Len(f.records)
           S == {i \in 0..n : g[i] \in Nat /\ g[i] >= f.torn}
<1>1. n \in Nat /\ f.torn \in Nat
  BY Lengthy
<1>2. 0 \in S
  BY <1>1 DEF Sums
<1>3. ASSUME NEW i \in 1..n, i - 1 \in S PROVE i \in S
  <2>1. g[i] = g[i - 1] + f.records[i].length /\ f.records[i].length \in Nat
    BY Lengthy DEF Sums
  <2>2. i \in 0..n /\ g[i - 1] \in Nat /\ g[i - 1] >= f.torn
    BY <1>1, <1>3
  <2>3. PICK a \in Nat : a = g[i - 1]
    BY <2>2
  <2>4. PICK b \in Nat : b = f.records[i].length
    BY <2>1
  <2>5. PICK t \in Nat : t = f.torn
    BY <1>1
  <2>6. g[i] = a + b /\ a >= t
    BY <2>1, <2>2, <2>3, <2>4, <2>5
  <2>7. a + b \in Nat /\ a + b >= t
    BY <2>6
  <2>8. g[i] \in Nat /\ g[i] >= f.torn
    BY <2>5, <2>6, <2>7
  <2> QED BY <2>2, <2>8
<1> HIDE DEF S
<1>4. \A i \in 0..n : i \in S
  BY <1>1, <1>2, <1>3, UpTo
<1> QED BY <1>4 DEF S

\* Two files of which one starts with the records of the other: the sums agree there, but
\* for what was torn.
LEMMA SumsAgree ==
  ASSUME NEW f \in LogState, NEW e \in LogState, NEW g, NEW h, Sums(f, g), Sums(e, h), NEW d \in Nat,
         e.torn = f.torn + d, Len(f.records) <= Len(e.records),
         \A i \in 1..Len(f.records) : e.records[i] = f.records[i]
  PROVE  \A i \in 0..Len(f.records) : h[i] = g[i] + d
<1> DEFINE n == Len(f.records)
           S == {i \in 0..n : h[i] = g[i] + d}
<1>1. n \in Nat /\ Len(e.records) \in Nat
  BY Lengthy
<1>2. 0 \in S
  BY <1>1 DEF Sums
<1>3. ASSUME NEW i \in 1..n, i - 1 \in S PROVE i \in S
  <2>1. i \in 0..n /\ i - 1 \in 0..n /\ i \in 1..Len(e.records)
    BY <1>1
  <2>2. g[i] = g[i - 1] + f.records[i].length /\ h[i] = h[i - 1] + f.records[i].length
    BY <2>1 DEF Sums
  <2>3. PICK a \in Nat : a = f.records[i].length
    BY Lengthy
  <2>4. PICK b \in Nat : b = g[i - 1]
    BY <2>1, SumsGrow
  <2>5. h[i - 1] = b + d
    BY <1>3, <2>4
  <2>6. h[i] = g[i] + d
    BY <2>2, <2>3, <2>4, <2>5
  <2> QED BY <2>1, <2>6
<1> HIDE DEF S
<1>4. \A i \in 0..n : i \in S
  BY <1>1, <1>2, <1>3, UpTo
<1> QED BY <1>4 DEF S

\* What Bytes is of an empty file, of one with another record, and of one with a fragment.
LEMMA BytesOf ==
  ASSUME NEW f \in LogState
  PROVE  /\ Log!Bytes(f) \in Nat
         /\ f.records = <<>> => Log!Bytes(f) = f.torn
         /\ Log!Bytes(f) = 0 => f.records = <<>> /\ f.torn = 0
         /\ \A e \in LogState : e.records = f.records /\ e.torn = f.torn => Log!Bytes(e) = Log!Bytes(f)
<1>1. PICK g : Sums(f, g) /\ Log!Bytes(f) = g[Len(f.records)]
  BY BytesIsSum
<1>2. Len(f.records) \in Nat /\ Len(f.records) \in 0..Len(f.records)
  BY Lengthy
<1>3. Log!Bytes(f) \in Nat /\ Log!Bytes(f) >= f.torn
  BY <1>1, <1>2, SumsGrow
<1>4. ASSUME f.records = <<>> PROVE Log!Bytes(f) = f.torn
  BY <1>1, <1>4 DEF Sums
<1>5. ASSUME Log!Bytes(f) = 0 PROVE f.records = <<>> /\ f.torn = 0
  <2>1. f.torn = 0
    BY <1>3, <1>5, Lengthy
  <2>2. ASSUME f.records # <<>> PROVE FALSE
    <3>1. Len(f.records) \in 1..Len(f.records)
      <4>1. f.records \in Seq(LogRecord)
        BY DEF LogState
      <4>2. Len(f.records) # 0
        BY <2>2, <4>1, EmptySeq
      <4> QED BY <1>2, <4>2
    <3>2. PICK b \in Nat \ {0} : b = f.records[Len(f.records)].length
      BY <3>1, Lengthy
    <3>3. PICK a \in Nat : a = g[Len(f.records) - 1]
      BY <1>1, <1>2, <3>1, SumsGrow
    <3>4. g[Len(f.records)] = a + b
      BY <1>1, <3>1, <3>2, <3>3 DEF Sums
    <3>5. a + b # 0
      BY <3>2, <3>3
    <3> QED BY <1>1, <1>5, <3>4, <3>5
  <2> QED BY <2>1, <2>2
<1>6. ASSUME NEW e \in LogState, e.records = f.records, e.torn = f.torn PROVE Log!Bytes(e) = Log!Bytes(f)
  <2>1. PICK h : Sums(e, h) /\ Log!Bytes(e) = h[Len(e.records)]
    BY BytesIsSum
  <2>2. e.torn = f.torn + 0 /\ Len(f.records) <= Len(e.records)
    BY <1>2, <1>6, Lengthy
  <2>3. h[Len(f.records)] = g[Len(f.records)] + 0
    BY <1>1, <1>2, <1>6, <2>1, <2>2, SumsAgree
  <2> QED BY <1>1, <1>3, <1>6, <2>1, <2>3
<1> QED BY <1>3, <1>4, <1>5, <1>6

LEMMA BytesAdded ==
  ASSUME NEW f \in LogState, NEW e \in LogState
  PROVE  /\ \A r \in LogRecord :
                e.records = Append(f.records, r) /\ e.torn = f.torn => Log!Bytes(e) = Log!Bytes(f) + r.length
         /\ \A d \in Nat :
                e.records = f.records /\ e.torn = f.torn + d => Log!Bytes(e) = Log!Bytes(f) + d
<1>1. PICK g : Sums(f, g) /\ Log!Bytes(f) = g[Len(f.records)]
  BY BytesIsSum
<1>2. PICK h : Sums(e, h) /\ Log!Bytes(e) = h[Len(e.records)]
  BY BytesIsSum
<1>3. Len(f.records) \in Nat /\ Len(f.records) \in 0..Len(f.records) /\ f.records \in Seq(LogRecord)
  BY Lengthy DEF LogState
<1>4. ASSUME NEW r \in LogRecord, e.records = Append(f.records, r), e.torn = f.torn
      PROVE  Log!Bytes(e) = Log!Bytes(f) + r.length
  <2>1. /\ Len(e.records) = Len(f.records) + 1
        /\ \A i \in 1..Len(f.records) : e.records[i] = f.records[i]
        /\ e.records[Len(f.records) + 1] = r
    BY <1>3, <1>4, AppendProperties
  <2>2. e.torn = f.torn + 0 /\ Len(f.records) <= Len(e.records)
    BY <1>3, <1>4, <2>1, Lengthy
  <2>3. h[Len(f.records)] = g[Len(f.records)] + 0
    BY <1>1, <1>2, <1>3, <2>1, <2>2, SumsAgree
  <2>4. Len(e.records) \in 1..Len(e.records) /\ Len(e.records) - 1 = Len(f.records)
    BY <1>3, <2>1
  <2>5. h[Len(e.records)] = h[Len(f.records)] + r.length
    BY <1>2, <2>1, <2>4 DEF Sums
  <2>6. Log!Bytes(f) \in Nat
    BY BytesOf
  <2> QED BY <1>1, <1>2, <2>3, <2>5, <2>6
<1>5. ASSUME NEW d \in Nat, e.records = f.records, e.torn = f.torn + d
      PROVE  Log!Bytes(e) = Log!Bytes(f) + d
  <2>1. Len(f.records) <= Len(e.records)
    BY <1>3, <1>5
  <2>2. h[Len(f.records)] = g[Len(f.records)] + d
    BY <1>1, <1>2, <1>3, <1>5, <2>1, SumsAgree
  <2> QED BY <1>1, <1>2, <1>5, <2>2
<1> QED BY <1>4, <1>5

-----------------------------------------------------------------------------
(* Sequences and their suffixes.                                           *)

Ends(s, t) ==
    /\ Len(s) <= Len(t)
    /\ \A i \in 1..Len(s) : s[i] = t[(Len(t) - Len(s)) + i]

LEMMA EndsIsSuffix ==
  ASSUME NEW S, NEW s \in Seq(S), NEW t \in Seq(S), Ends(s, t)
  PROVE  Log!IsSuffix(s, t)
<1>1. Len(s) \in Nat /\ Len(t) \in Nat /\ Len(s) <= Len(t)
  BY LenProperties DEF Ends
<1> DEFINE rs == [i \in 1..Len(s) |-> s[(Len(s) - i) + 1]]
           rt == [i \in 1..Len(t) |-> t[(Len(t) - i) + 1]]
<1>2. rs \in Seq(S) /\ Len(rs) = Len(s)
  <2>1. \A i \in 1..Len(s) : (Len(s) - i) + 1 \in 1..Len(s)
    BY <1>1
  <2>2. \A i \in 1..Len(s) : rs[i] \in S
    BY <2>1, ElementOfSeq
  <2> QED BY <1>1, <2>2
<1>3. rt \in Seq(S) /\ Len(rt) = Len(t)
  <2>1. \A i \in 1..Len(t) : (Len(t) - i) + 1 \in 1..Len(t)
    BY <1>1
  <2>2. \A i \in 1..Len(t) : rt[i] \in S
    BY <2>1, ElementOfSeq
  <2> QED BY <1>1, <2>2
<1>4. \A i \in 1..Len(s) : rs[i] = rt[i]
  <2> TAKE i \in 1..Len(s)
  <2>1. (Len(s) - i) + 1 \in 1..Len(s) /\ i \in 1..Len(t)
    BY <1>1
  <2>2. s[(Len(s) - i) + 1] = t[(Len(t) - Len(s)) + ((Len(s) - i) + 1)]
    BY <2>1 DEF Ends
  <2>3. (Len(t) - Len(s)) + ((Len(s) - i) + 1) = (Len(t) - i) + 1
    BY <1>1
  <2> QED BY <2>1, <2>2, <2>3
<1> HIDE DEF rs, rt
<1>5. SubSeq(rs, 1, Len(rs)) = SubSeq(rt, 1, Len(rs))
  <2>1. \A i \in 1..Len(rs) : rs[i] \in S /\ rt[i] \in S /\ rs[i] = rt[i]
    <3> TAKE i \in 1..Len(rs)
    <3>1. i \in 1..Len(s) /\ i \in 1..Len(rt)
      BY <1>1, <1>2, <1>3
    <3> QED BY <1>2, <1>3, <1>4, <3>1, ElementOfSeq
  <2>2. SubSeq(rs, 1, Len(rs)) = [i \in 1..Len(rs) |-> rs[i]]
    BY <1>1, <1>2, <2>1
  <2>3. SubSeq(rt, 1, Len(rs)) = [i \in 1..Len(rs) |-> rt[i]]
    BY <1>1, <1>2, <2>1
  <2> QED BY <2>1, <2>2, <2>3
<1>6. Log!IsPrefix(rs, rt)
  BY <1>1, <1>2, <1>3, <1>5 DEF Log!IsPrefix
<1>7. rs = Log!Reverse(s) /\ rt = Log!Reverse(t)
  BY DEF rs, rt, Log!Reverse
<1> QED BY <1>6, <1>7 DEF Log!IsSuffix

LEMMA AppendBehind ==
  ASSUME NEW S, NEW a \in Seq(S), NEW s \in Seq(S), NEW r \in S
  PROVE  a \o Append(s, r) = Append(a \o s, r)
<1>1. Len(a) \in Nat /\ Len(s) \in Nat /\ Len(a \o s) = Len(a) + Len(s)
  BY LenProperties, ConcatProperties
<1> QED BY <1>1

\* The second of two sequences of which together they are the end, and both with one more.
LEMMA EndsKept ==
  ASSUME NEW S, NEW a \in Seq(S), NEW s \in Seq(S), NEW t \in Seq(S), NEW r \in S, Ends(a \o s, t)
  PROVE  Ends(s, t) /\ Ends(a \o Append(s, r), Append(t, r))
<1>1. Len(a) \in Nat /\ Len(s) \in Nat /\ Len(t) \in Nat /\ Len(a \o s) = Len(a) + Len(s)
  BY LenProperties, ConcatProperties
<1>2. \A i \in 1..Len(s) : s[i] = (a \o s)[Len(a) + i]
  BY <1>1, ConcatProperties
<1>3. Ends(s, t)
  <2>1. Len(s) <= Len(t)
    BY <1>1 DEF Ends
  <2>2. ASSUME NEW i \in 1..Len(s) PROVE s[i] = t[(Len(t) - Len(s)) + i]
    <3>1. Len(a) + i \in 1..Len(a \o s)
      BY <1>1
    <3>2. (a \o s)[Len(a) + i] = t[(Len(t) - Len(a \o s)) + (Len(a) + i)]
      BY <3>1 DEF Ends
    <3>3. (Len(t) - Len(a \o s)) + (Len(a) + i) = (Len(t) - Len(s)) + i
      BY <1>1
    <3> QED BY <1>2, <3>2, <3>3
  <2> QED BY <2>1, <2>2 DEF Ends
<1>4. Ends(a \o Append(s, r), Append(t, r))
  <2> DEFINE u == a \o s
  <2>1. a \o Append(s, r) = Append(u, r)
    BY AppendBehind
  <2>2. u \in Seq(S)
    BY ConcatProperties
  <2> HIDE DEF u
  <2>3. Len(Append(u, r)) = Len(u) + 1 /\ Len(Append(t, r)) = Len(t) + 1 /\ Len(u) \in Nat
    BY <2>2, AppendProperties, LenProperties
  <2>4. Len(u) <= Len(t) /\ \A i \in 1..Len(u) : u[i] = t[(Len(t) - Len(u)) + i]
    BY DEF Ends, u
  <2>5. ASSUME NEW i \in 1..Len(u) + 1
        PROVE  Append(u, r)[i] = Append(t, r)[((Len(t) + 1) - (Len(u) + 1)) + i]
    <3>1. ((Len(t) + 1) - (Len(u) + 1)) + i = (Len(t) - Len(u)) + i
      BY <1>1, <2>3
    <3>2. CASE i = Len(u) + 1
      <4>1. (Len(t) - Len(u)) + i = Len(t) + 1
        BY <1>1, <2>3, <3>2
      <4>2. Append(u, r)[Len(u) + 1] = r /\ Append(t, r)[Len(t) + 1] = r
        BY <2>2, AppendProperties
      <4> QED BY <3>1, <3>2, <4>1, <4>2
    <3>3. CASE i # Len(u) + 1
      <4>1. i \in 1..Len(u) /\ (Len(t) - Len(u)) + i \in 1..Len(t)
        BY <1>1, <2>3, <2>4, <3>3
      <4>2. Append(u, r)[i] = u[i] /\ Append(t, r)[(Len(t) - Len(u)) + i] = t[(Len(t) - Len(u)) + i]
        BY <2>2, <4>1, AppendProperties
      <4> QED BY <2>4, <3>1, <4>1, <4>2
    <3> QED BY <3>2, <3>3
  <2>6. Len(Append(u, r)) <= Len(Append(t, r))
    BY <1>1, <2>3, <2>4
  <2> QED BY <2>1, <2>3, <2>5, <2>6 DEF Ends
<1> QED BY <1>3, <1>4

-----------------------------------------------------------------------------
(***************************************************************************)
(* The log's inductive invariant.                                          *)
(***************************************************************************)

LogSteps == {"idle", "close", "unlink", "rename", "open", "rename back", "reopen", "write", "dead"}

LogTypes ==
    /\ log \in LogState /\ backup \in LogState
    /\ ~log.there => log = Log!Absent
    /\ ~backup.there => backup = Log!Absent
    /\ handle \in {"open", "closed", "nil"} /\ attached \in BOOLEAN /\ size \in Nat /\ at \in LogSteps
    /\ accepted \in Seq(LogRecord) /\ removed \in BOOLEAN /\ stranded \in BOOLEAN /\ records \in Nat
    /\ at \notin {"idle", "dead"} => record \in LogRecord
    /\ at \in {"unlink", "rename", "open", "rename back", "reopen", "dead"} => handle = "nil"
    /\ handle = "open" /\ attached => log.there

\* The next record may not fit behind so many bytes.
FullWith(bytes) == \E n \in LogLengths : bytes + n > LogSize

\* Where a Write is and what it has left of the log; w.size stands for the log, or for
\* the one just renamed, and exactly until a rotation has found no way back.
LogPlace ==
    /\ at # "dead" => attached /\ Log!Bytes(log) <= size
    /\ at \in {"unlink", "rename"} => log.there
    /\ at \in {"close", "unlink", "rename"} => FullWith(size)
    /\ at \in {"open", "rename back"} => ~log.there /\ Log!Bytes(backup) <= size
    /\ at = "write" /\ handle = "open" => size = 0 \/ size + record.length <= LogSize
    /\ ~stranded /\ at \in LogSteps \ {"dead", "open", "rename back"} => size = Log!Bytes(log)
    /\ ~stranded /\ at \in {"open", "rename back"} => size = Log!Bytes(backup)

Bounded(f) == Log!Bytes(f) <= LogSize \/ (Len(f.records) = 1 /\ f.torn = 0)

LogContents ==
    /\ Bounded(log) /\ Bounded(backup)
    /\ Ends(Log!OnDisk, accepted)
    /\ stranded \/ Log!OnDisk = accepted \/ FullWith(Log!Bytes(backup) + Log!Bytes(log))

LogInv == LogTypes /\ (~removed => LogPlace /\ LogContents)

-----------------------------------------------------------------------------
LEMMA LogContentsKept ==
  ASSUME LogContents, UNCHANGED <<log, backup, accepted, stranded>>
  PROVE  LogContents'
<1>1. Log!OnDisk' = Log!OnDisk
  BY DEF Log!OnDisk
<1>2. Bounded(log)' /\ Bounded(backup)'
  BY DEF LogContents, Bounded
<1>3. FullWith(Log!Bytes(backup) + Log!Bytes(log))' <=> FullWith(Log!Bytes(backup) + Log!Bytes(log))
  OBVIOUS
<1> QED BY <1>1, <1>2, <1>3 DEF LogContents

LEMMA LogConstants ==
  /\ LogSize \in Nat \ {0} /\ LogLengths \subseteq Nat \ {0}
  /\ Log!Absent \in LogState /\ Log!Empty \in LogState
  /\ Log!Bytes(Log!Absent) = 0 /\ Log!Bytes(Log!Empty) = 0
<1>1. LogSize \in Nat \ {0} /\ LogLengths \subseteq Nat \ {0}
  BY HostAssumption DEF Log!LogAssumption
<1>2. Log!Absent \in LogState /\ Log!Empty \in LogState
  BY DEF Log!Absent, Log!Empty, LogState
<1>3. Log!Absent.records = <<>> /\ Log!Absent.torn = 0 /\ Log!Empty.records = <<>> /\ Log!Empty.torn = 0
  BY DEF Log!Absent, Log!Empty
<1> QED BY <1>1, <1>2, <1>3, BytesOf

\* Opening creates the log and changes nothing that it holds.
LEMMA OpenedSame ==
  ASSUME NEW f \in LogState, ~f.there => f = Log!Absent
  PROVE  /\ Log!Opened(f) \in LogState /\ Log!Opened(f).there
         /\ Log!Opened(f).records = f.records /\ Log!Opened(f).torn = f.torn
         /\ Log!Bytes(Log!Opened(f)) = Log!Bytes(f)
<1>1. CASE f.there
  BY <1>1 DEF Log!Opened, Log!Exists
<1>2. CASE ~f.there
  <2>1. Log!Opened(f) = Log!Empty /\ f = Log!Absent
    BY <1>2 DEF Log!Opened, Log!Exists
  <2>2. Log!Empty.there /\ Log!Empty.records = Log!Absent.records /\ Log!Empty.torn = Log!Absent.torn
    BY DEF Log!Empty, Log!Absent
  <2> QED BY <2>1, <2>2, LogConstants
<1> QED BY <1>1, <1>2

LEMMA LogStarts == Log!Init => LogInv
<1> SUFFICES ASSUME Log!Init PROVE LogInv
  OBVIOUS
<1>1. /\ log = Log!Absent /\ backup = Log!Absent /\ handle = "nil" /\ attached = FALSE /\ size = 0
      /\ at = "dead" /\ accepted = <<>> /\ removed = FALSE /\ stranded = FALSE /\ records = 0
  BY DEF Log!Init
<1>2. Log!OnDisk = <<>>
  BY <1>1 DEF Log!OnDisk, Log!Absent
<1>3. LogTypes
  <2>1. <<>> \in Seq(LogRecord)
    OBVIOUS
  <2> QED BY <1>1, <2>1, LogConstants DEF LogTypes, LogSteps
<1>4. LogPlace
  BY <1>1 DEF LogPlace
<1>5. Ends(<<>>, <<>>)
  BY DEF Ends
<1>6. LogContents
  BY <1>1, <1>2, <1>5, LogConstants DEF LogContents, Bounded
<1> QED BY <1>3, <1>4, <1>6 DEF LogInv

-----------------------------------------------------------------------------
LEMMA OpenLogFileKeeps ==
  ASSUME LogInv, Log!OpenLogFile
  PROVE  LogInv'
<1>1. /\ log' = Log!Opened(log) /\ size' = Log!Bytes(Log!Opened(log)) /\ handle' = "open" /\ attached' = TRUE
      /\ at' = "idle" /\ UNCHANGED <<backup, record, accepted, removed, stranded, records>>
  BY DEF Log!OpenLogFile, Log!StartSize, Log!history, Log!budgets
<1>2. /\ Log!Opened(log) \in LogState /\ Log!Opened(log).there
      /\ Log!Opened(log).records = log.records /\ Log!Opened(log).torn = log.torn
      /\ Log!Bytes(Log!Opened(log)) = Log!Bytes(log) /\ Log!Bytes(log) \in Nat
  BY OpenedSame, BytesOf DEF LogInv, LogTypes
<1>3. LogTypes'
  BY <1>1, <1>2 DEF LogInv, LogTypes, LogSteps
<1>4. LogPlace'
  BY <1>1, <1>2 DEF LogPlace
<1>5. Log!OnDisk' = Log!OnDisk
  BY <1>1, <1>2 DEF Log!OnDisk
<1>6. ASSUME ~removed PROVE LogContents'
  BY <1>1, <1>2, <1>5, <1>6 DEF LogInv, LogContents, Bounded
<1> QED BY <1>1, <1>3, <1>4, <1>6 DEF LogInv

LEMMA WriteKeeps ==
  ASSUME LogInv, Log!Write
  PROVE  LogInv'
<1>1. /\ at = "idle" /\ records' = records + 1
      /\ UNCHANGED <<log, backup, handle, attached, size, accepted, removed, stranded>>
      /\ at' = CASE handle = "nil" -> "idle"
                 [] handle # "nil" /\ Log!NeedsRotation(record') -> "close"
                 [] OTHER -> "write"
  BY DEF Log!Write, Log!disk, Log!history
<1>2. record' \in LogRecord
  <2>1. PICK n \in LogLengths : record' = [id |-> records + 1, length |-> n]
    BY DEF Log!Write
  <2>2. records + 1 \in Int
    BY DEF Log!Write, LogInv, LogTypes
  <2> QED BY <2>1, <2>2 DEF LogRecord
<1>3. record'.length \in LogLengths
  BY <1>2 DEF LogRecord
<1>4. LogTypes'
  BY <1>1, <1>2 DEF LogInv, LogTypes, LogSteps
<1>5. ASSUME ~removed PROVE LogPlace'
  <2>1. LogPlace /\ size \in Nat /\ record'.length \in Nat
    BY <1>3, <1>5, LogConstants DEF LogInv, LogTypes
  <2>2. at' \in {"idle", "close", "write"}
    BY <1>1
  <2>3. at' = "close" => FullWith(size)
    BY <1>1, <1>3 DEF Log!NeedsRotation, FullWith
  <2>4. at' = "write" => size = 0 \/ size + record'.length <= LogSize
    BY <1>1, <2>1, LogConstants DEF Log!NeedsRotation
  <2> QED BY <1>1, <2>1, <2>2, <2>3, <2>4 DEF LogPlace, LogSteps, FullWith
<1>6. ASSUME ~removed PROVE LogContents'
  BY <1>1, <1>6 DEF LogInv, LogContents, Bounded, Log!OnDisk
<1> QED BY <1>1, <1>4, <1>5, <1>6 DEF LogInv

LEMMA CloseOldKeeps ==
  ASSUME LogInv, Log!CloseOld
  PROVE  LogInv'
<1>1. /\ at = "close" /\ UNCHANGED <<log, backup, attached, size, record, accepted, removed, stranded, records>>
      /\ \/ handle = "open" /\ handle' = "nil" /\ at' = "unlink"
         \/ handle = "open" /\ handle' = "closed" /\ at' = "idle"
         \/ handle = "closed" /\ at' = "idle" /\ handle' = handle
  BY DEF Log!CloseOld, Log!disk, Log!history
<1>2. LogTypes'
  BY <1>1 DEF LogInv, LogTypes, LogSteps
<1>3. ASSUME ~removed PROVE LogPlace'
  BY <1>1, <1>3 DEF LogInv, LogTypes, LogPlace, LogSteps, FullWith
<1>4. ASSUME ~removed PROVE LogContents'
  BY <1>1, <1>4 DEF LogInv, LogContents, Bounded, Log!OnDisk
<1> QED BY <1>1, <1>2, <1>3, <1>4 DEF LogInv

LEMMA UnlinkBackupKeeps ==
  ASSUME LogInv, Log!UnlinkBackup
  PROVE  LogInv'
<1>1. /\ at = "unlink" /\ at' = "rename" /\ backup' \in {backup, Log!Absent}
      /\ UNCHANGED <<log, handle, attached, size, record, accepted, removed, stranded, records>>
  BY DEF Log!UnlinkBackup, Log!history
<1>2. LogTypes'
  BY <1>1, LogConstants DEF LogInv, LogTypes, LogSteps
<1>3. ASSUME ~removed PROVE LogPlace'
  BY <1>1, <1>3 DEF LogInv, LogPlace, LogSteps, FullWith
<1>4. ASSUME ~removed PROVE LogContents'
  <2>1. LogContents /\ LogPlace
    BY <1>4 DEF LogInv
  <2>2. CASE backup' = backup
    BY <1>1, <2>1, <2>2 DEF LogContents, Bounded, Log!OnDisk
  <2>3. CASE backup' = Log!Absent
    <3>1. Log!OnDisk' = log.records
      <4>1. Log!OnDisk' = <<>> \o log.records /\ log.records \in Seq(LogRecord)
        BY <1>1, <2>3 DEF Log!OnDisk, Log!Absent, LogInv, LogTypes, LogState
      <4> QED BY <4>1
    <3>2. Ends(log.records, accepted)
      <4>1. /\ log.records \in Seq(LogRecord) /\ backup.records \in Seq(LogRecord)
            /\ accepted \in Seq(LogRecord) /\ record \in LogRecord
            /\ Ends(backup.records \o log.records, accepted)
        BY <1>1, <2>1 DEF LogContents, Log!OnDisk, LogInv, LogTypes, LogState
      <4> QED BY <4>1, EndsKept
    <3>3. stranded \/ FullWith(Log!Bytes(backup)' + Log!Bytes(log)')
      <4>1. Log!Bytes(backup)' = 0 /\ Log!Bytes(log)' = Log!Bytes(log) /\ Log!Bytes(log) \in Nat
        BY <1>1, <2>3, LogConstants, BytesOf DEF LogInv, LogTypes
      <4>2. ~stranded => size = Log!Bytes(log) /\ FullWith(size)
        BY <1>1, <2>1 DEF LogPlace, LogSteps
      <4> QED BY <4>1, <4>2 DEF FullWith
    <3>4. Bounded(log)' /\ Bounded(backup)'
      BY <1>1, <2>1, <2>3, LogConstants DEF LogContents, Bounded
    <3> QED BY <1>1, <3>1, <3>2, <3>3, <3>4 DEF LogContents
  <2> QED BY <1>1, <2>2, <2>3
<1> QED BY <1>1, <1>2, <1>3, <1>4 DEF LogInv

LEMMA RenameKeeps ==
  ASSUME LogInv, Log!Rename
  PROVE  LogInv'
<1>1. /\ at = "rename" /\ UNCHANGED <<handle, attached, size, record, accepted, removed, stranded, records>>
      /\ \/ log.there /\ backup' = log /\ log' = Log!Absent /\ at' = "open"
         \/ ~log.there /\ at' = "open" /\ UNCHANGED <<log, backup>>
         \/ at' = "reopen" /\ UNCHANGED <<log, backup>>
  BY DEF Log!Rename, Log!RenameFails, Log!Exists, Log!disk, Log!history
<1>2. LogTypes'
  BY <1>1, LogConstants DEF LogInv, LogTypes, LogSteps, Log!Absent
<1>3. ASSUME ~removed PROVE LogPlace' /\ LogContents'
  <2>1. LogContents /\ LogPlace
    BY <1>3 DEF LogInv
  <2>2. CASE at' = "reopen" /\ UNCHANGED <<log, backup>>
    <3>1. LogPlace'
      BY <1>1, <2>1, <2>2 DEF LogPlace, LogSteps
    <3>2. LogContents'
      BY <1>1, <2>1, <2>2 DEF LogContents, Bounded, Log!OnDisk
    <3> QED BY <3>1, <3>2
  <2>3. CASE log.there /\ backup' = log /\ log' = Log!Absent /\ at' = "open"
    <3>1. /\ Log!Bytes(backup)' = Log!Bytes(log) /\ Log!Bytes(log)' = 0 /\ Log!Bytes(log) \in Nat
          /\ size \in Nat /\ ~log'.there
      BY <2>3, LogConstants, BytesOf DEF LogInv, LogTypes, Log!Absent
    <3>2. LogPlace'
      BY <1>1, <2>1, <2>3, <3>1 DEF LogPlace, LogSteps
    <3>3. Log!OnDisk' = log.records
      <4>1. Log!OnDisk' = log.records \o <<>> /\ log.records \in Seq(LogRecord)
        BY <1>1, <2>3 DEF Log!OnDisk, Log!Absent, LogInv, LogTypes, LogState
      <4> QED BY <4>1
    <3>4. Ends(log.records, accepted)
      <4>1. /\ log.records \in Seq(LogRecord) /\ backup.records \in Seq(LogRecord)
            /\ accepted \in Seq(LogRecord) /\ record \in LogRecord
            /\ Ends(backup.records \o log.records, accepted)
        BY <1>1, <2>1 DEF LogContents, Log!OnDisk, LogInv, LogTypes, LogState
      <4> QED BY <4>1, EndsKept
    <3>5. stranded \/ FullWith(Log!Bytes(backup)' + Log!Bytes(log)')
      <4>1. ~stranded => size = Log!Bytes(log) /\ FullWith(size)
        BY <1>1, <2>1 DEF LogPlace, LogSteps
      <4> QED BY <3>1, <4>1 DEF FullWith
    <3>6. Bounded(log)' /\ Bounded(backup)'
      BY <2>1, <2>3, LogConstants DEF LogContents, Bounded
    <3> QED BY <1>1, <3>2, <3>3, <3>4, <3>5, <3>6 DEF LogContents
  <2>4. log.there
    BY <1>1, <2>1 DEF LogPlace
  <2> QED BY <1>1, <2>2, <2>3, <2>4
<1> QED BY <1>1, <1>2, <1>3 DEF LogInv

LEMMA OpenNewKeeps ==
  ASSUME LogInv, Log!OpenNew
  PROVE  LogInv'
<1>1. /\ at = "open" /\ UNCHANGED <<backup, record, accepted, removed, stranded, records>>
      /\ \/ log' = Log!Empty /\ size' = 0 /\ handle' = "open" /\ attached' = TRUE /\ at' = "write"
         \/ at' = "rename back" /\ UNCHANGED <<log, size, handle, attached>>
  BY DEF Log!OpenNew, Log!history
<1>2. LogTypes'
  <2>1. Log!Empty.there
    BY DEF Log!Empty
  <2>2. log' \in LogState /\ (~log'.there => log' = Log!Absent)
    BY <1>1, <2>1, LogConstants DEF LogInv, LogTypes
  <2>3. handle = "nil" /\ record \in LogRecord /\ size \in Nat /\ attached \in BOOLEAN
    BY <1>1 DEF LogInv, LogTypes
  <2>a. attached' \in BOOLEAN
    <3>1. attached' = TRUE \/ attached' = attached
      BY <1>1
    <3> QED BY <2>3, <3>1, Zenon
  <2>b. size' \in Nat
    <3>1. size' = 0 \/ size' = size
      BY <1>1
    <3> QED BY <2>3, <3>1
  <2>4. attached' \in BOOLEAN /\ size' \in Nat
    BY <2>a, <2>b
  <2>5. /\ handle' \in {"open", "nil"} /\ at' \in {"write", "rename back"} /\ record' \in LogRecord
        /\ at' = "rename back" => handle' = "nil"
        /\ handle' = "open" => log'.there
    BY <1>1, <2>1, <2>3
  <2> QED BY <1>1, <2>2, <2>4, <2>5 DEF LogInv, LogTypes, LogSteps
<1>3. ASSUME ~removed PROVE LogPlace' /\ LogContents'
  <2>1. LogContents /\ LogPlace
    BY <1>3 DEF LogInv
  <2>2. CASE at' = "rename back" /\ UNCHANGED <<log, size, handle, attached>>
    <3>1. LogPlace'
      BY <1>1, <2>1, <2>2 DEF LogPlace, LogSteps
    <3>2. LogContents'
      BY <1>1, <2>1, <2>2 DEF LogContents, Bounded, Log!OnDisk
    <3> QED BY <3>1, <3>2
  <2>3. CASE log' = Log!Empty /\ size' = 0 /\ handle' = "open" /\ attached' = TRUE /\ at' = "write"
    <3>1. log = Log!Absent
      BY <1>1, <2>1 DEF LogPlace, LogInv, LogTypes
    <3>2. Log!Bytes(log)' = 0 /\ Log!Bytes(log) = 0
      BY <2>3, <3>1, LogConstants
    <3>3. LogPlace'
      BY <1>1, <2>3, <3>2 DEF LogPlace, LogSteps
    <3>4. Log!OnDisk' = Log!OnDisk
      BY <1>1, <2>3, <3>1 DEF Log!OnDisk, Log!Absent, Log!Empty
    <3>a. Bounded(backup)'
      BY <1>1, <2>1 DEF LogContents, Bounded
    <3>b. Bounded(log)'
      BY <3>2, LogConstants DEF Bounded
    <3>5. Bounded(log)' /\ Bounded(backup)'
      BY <3>a, <3>b
    <3>6. LogContents'
      BY <1>1, <2>1, <3>2, <3>4, <3>5 DEF LogContents
    <3> QED BY <3>3, <3>6
  <2> QED BY <1>1, <2>2, <2>3
<1> QED BY <1>1, <1>2, <1>3 DEF LogInv

LEMMA RenameBackKeeps ==
  ASSUME LogInv, Log!RenameBack
  PROVE  LogInv'
<1>1. /\ at = "rename back" /\ at' = "reopen"
      /\ UNCHANGED <<handle, attached, size, record, accepted, removed, records>>
      /\ stranded' = (stranded \/ ~log'.there)
      /\ \/ backup.there /\ log' = backup /\ backup' = Log!Absent
         \/ UNCHANGED <<log, backup>>
  BY DEF Log!RenameBack, Log!Exists, Log!disk
<1>2. LogTypes'
  BY <1>1, LogConstants DEF LogInv, LogTypes, LogSteps, Log!Absent
<1>3. ASSUME ~removed PROVE LogPlace' /\ LogContents'
  <2>1. LogContents /\ LogPlace
    BY <1>3 DEF LogInv
  <2>2. log = Log!Absent /\ ~log.there
    BY <1>1, <2>1 DEF LogPlace, LogInv, LogTypes
  <2>3. CASE UNCHANGED <<log, backup>>
    <3>1. stranded'
      BY <1>1, <2>2, <2>3
    <3>2. LogPlace'
      BY <1>1, <2>1, <2>3, <3>1 DEF LogPlace, LogSteps
    <3>3. LogContents'
      BY <1>1, <2>1, <2>3, <3>1 DEF LogContents, Bounded, Log!OnDisk
    <3> QED BY <3>2, <3>3
  <2>4. CASE backup.there /\ log' = backup /\ backup' = Log!Absent
    <3>1. stranded' = stranded
      BY <1>1, <2>4 DEF LogInv, LogTypes
    <3>2. /\ Log!Bytes(log)' = Log!Bytes(backup) /\ Log!Bytes(backup)' = 0 /\ Log!Bytes(log) = 0
          /\ Log!Bytes(backup) \in Nat
      BY <2>2, <2>4, LogConstants, BytesOf DEF LogInv, LogTypes
    <3>3. LogPlace'
      BY <1>1, <2>1, <3>1, <3>2 DEF LogPlace, LogSteps
    <3>4. Log!OnDisk' = Log!OnDisk
      <4>1. Log!OnDisk' = <<>> \o backup.records /\ Log!OnDisk = backup.records \o <<>>
        BY <2>2, <2>4 DEF Log!OnDisk, Log!Absent
      <4>2. backup.records \in Seq(LogRecord)
        BY DEF LogInv, LogTypes, LogState
      <4> QED BY <4>1, <4>2
    <3>5. Bounded(log)' /\ Bounded(backup)'
      BY <2>1, <2>4, <3>2, LogConstants DEF LogContents, Bounded
    <3>6. (Log!Bytes(backup) + Log!Bytes(log))' = Log!Bytes(backup) + Log!Bytes(log)
      BY <3>2
    <3>7. LogContents'
      BY <1>1, <2>1, <3>1, <3>4, <3>5, <3>6 DEF LogContents
    <3> QED BY <3>3, <3>7
  <2> QED BY <1>1, <2>3, <2>4
<1> QED BY <1>1, <1>2, <1>3 DEF LogInv

LEMMA ReopenKeeps ==
  ASSUME LogInv, Log!Reopen
  PROVE  LogInv'
<1>1. /\ at = "reopen" /\ at' = "idle" /\ UNCHANGED <<backup, size, record, accepted, removed, stranded, records>>
      /\ \/ log' = Log!Opened(log) /\ handle' = "open" /\ attached' = TRUE
         \/ UNCHANGED <<log, handle, attached>>
  BY DEF Log!Reopen, Log!history
<1>2. /\ Log!Opened(log) \in LogState /\ Log!Opened(log).there
      /\ Log!Opened(log).records = log.records /\ Log!Opened(log).torn = log.torn
      /\ Log!Bytes(Log!Opened(log)) = Log!Bytes(log) /\ Log!Bytes(log) \in Nat
  BY OpenedSame, BytesOf DEF LogInv, LogTypes
<1>3. LogTypes'
  BY <1>1, <1>2 DEF LogInv, LogTypes, LogSteps
<1>4. log'.records = log.records /\ log'.torn = log.torn /\ Log!Bytes(log)' = Log!Bytes(log)
  BY <1>1, <1>2
<1>5. ASSUME ~removed PROVE LogPlace'
  BY <1>1, <1>4, <1>5 DEF LogInv, LogPlace, LogSteps
<1>6. ASSUME ~removed PROVE LogContents'
  <2>1. Log!OnDisk' = Log!OnDisk
    BY <1>1, <1>4 DEF Log!OnDisk
  <2> QED BY <1>1, <1>4, <1>6, <2>1 DEF LogInv, LogContents, Bounded
<1> QED BY <1>1, <1>3, <1>5, <1>6 DEF LogInv

LEMMA CrashKeeps ==
  ASSUME LogInv, Log!Crash \/ Log!RemoveLog
  PROVE  LogInv'
<1>1. CASE Log!Crash
  <2>1. /\ at' = "dead" /\ handle' = "nil" /\ attached' = FALSE
        /\ UNCHANGED <<log, backup, size, record, accepted, removed, stranded, records>>
    BY <1>1 DEF Log!Crash, Log!disk, Log!history
  <2>2. LogTypes'
    BY <2>1 DEF LogInv, LogTypes, LogSteps
  <2>3. ~removed => LogPlace' /\ LogContents'
    BY <2>1 DEF LogInv, LogPlace, LogContents, Bounded, Log!OnDisk
  <2> QED BY <2>1, <2>2, <2>3 DEF LogInv
<1>2. CASE Log!RemoveLog
  <2>1. /\ removed' = TRUE /\ log' = Log!Absent /\ attached' = FALSE
        /\ UNCHANGED <<backup, handle, size, at, record, accepted, stranded, records>>
    BY <1>2 DEF Log!RemoveLog
  <2>2. LogTypes'
    BY <2>1, LogConstants DEF LogInv, LogTypes
  <2> QED BY <2>1, <2>2 DEF LogInv
<1> QED BY <1>1, <1>2

\* The record goes behind what the log holds and behind what has been accepted, or leaves
\* a fragment, or nothing.
LEMMA WriteRecordKeeps ==
  ASSUME LogInv, Log!WriteRecord
  PROVE  LogInv'
<1> DEFINE Add(whole, torn) == [there |-> TRUE, records |-> whole, torn |-> torn]
           Grown(whole, torn) == [there |-> TRUE, records |-> log.records \o whole, torn |-> log.torn + torn]
<1>1. /\ at = "write" /\ at' = "idle"
      /\ UNCHANGED <<backup, handle, attached, record, removed, stranded, records>>
  BY DEF Log!WriteRecord
<1>2. record \in LogRecord /\ record.length \in Nat \ {0}
  <2>1. record \in LogRecord
    BY <1>1 DEF LogInv, LogTypes
  <2> QED BY <2>1, LogConstants DEF LogRecord
<1>3. \/ /\ handle = "open" /\ size' = size + Log!Bytes(Add(<<record>>, 0))
         /\ log' = IF attached THEN Grown(<<record>>, 0) ELSE log
         /\ accepted' = IF attached THEN accepted \o <<record>> ELSE accepted
      \/ \E torn \in {0, 1} :
            /\ handle = "open" /\ size' = size + Log!Bytes(Add(<<>>, torn)) /\ accepted' = accepted
            /\ log' = IF attached THEN Grown(<<>>, torn) ELSE log
      \/ UNCHANGED <<log, size, accepted>>
  BY DEF Log!WriteRecord, Log!Grow
<1>4. /\ log \in LogState /\ backup \in LogState /\ size \in Nat /\ accepted \in Seq(LogRecord)
      /\ log.records \in Seq(LogRecord) /\ backup.records \in Seq(LogRecord) /\ log.torn \in Nat
      /\ attached \in BOOLEAN
  BY DEF LogInv, LogTypes, LogState
<1>5. /\ Log!Bytes(Add(<<>>, 0)) = 0 /\ Log!Bytes(Add(<<>>, 1)) = 1
      /\ Log!Bytes(Add(<<record>>, 0)) = record.length
  <2>1. Add(<<>>, 0) \in LogState /\ Add(<<>>, 1) \in LogState
    BY DEF LogState
  <2>2. <<record>> \in Seq(LogRecord) /\ <<record>> = Append(<<>>, record)
    BY <1>2
  <2>3. Add(<<record>>, 0) \in LogState
    BY <2>2 DEF LogState
  <2>4. Log!Bytes(Add(<<>>, 0)) = 0 /\ Log!Bytes(Add(<<>>, 1)) = 1
    BY <2>1, BytesOf
  <2>5. Log!Bytes(Add(<<record>>, 0)) = Log!Bytes(Add(<<>>, 0)) + record.length
    <3>1. /\ Add(<<record>>, 0).records = Append(Add(<<>>, 0).records, record)
          /\ Add(<<record>>, 0).torn = Add(<<>>, 0).torn
      BY <2>2
    <3> HIDE DEF Add
    <3> QED BY <1>2, <2>1, <2>3, <3>1, BytesAdded
  <2> QED BY <1>2, <2>4, <2>5
<1>6. /\ Append(log.records, record) \in Seq(LogRecord) /\ log.records \o <<record>> = Append(log.records, record)
      /\ Append(accepted, record) \in Seq(LogRecord) /\ accepted \o <<record>> = Append(accepted, record)
      /\ log.records \o <<>> = log.records
  BY <1>2, <1>4
\* The three outcomes, for a log that is attached.
<1> DEFINE Rec(rs, t) == [there |-> TRUE, records |-> rs, torn |-> t]
           Whole == /\ handle = "open" /\ attached /\ size' = size + record.length
                    /\ log' = Rec(Append(log.records, record), log.torn)
                    /\ accepted' = Append(accepted, record)
           Torn(n) == /\ handle = "open" /\ attached /\ size' = size + n /\ accepted' = accepted
                      /\ log' = Rec(log.records, log.torn + n)
           Same == UNCHANGED <<log, accepted>> /\ size' \in Nat /\ (attached => size' = size)
<1>7. Whole \/ Torn(0) \/ Torn(1) \/ Same
  <2>1. CASE attached
    <3>2. \A whole, torn : Grown(whole, torn) = Rec(log.records \o whole, log.torn + torn)
      OBVIOUS
    <3>3. log.torn + 0 = log.torn
      BY <1>4
    <3> HIDE DEF Grown, Add, Rec
    <3>4. Grown(<<record>>, 0) = Rec(Append(log.records, record), log.torn)
      BY <1>6, <3>2, <3>3
    <3>5. Grown(<<>>, 0) = Rec(log.records, log.torn + 0) /\ Grown(<<>>, 1) = Rec(log.records, log.torn + 1)
      BY <1>6, <3>2
    <3> QED BY <1>3, <1>4, <1>5, <1>6, <2>1, <3>4, <3>5
  <2>2. CASE ~attached
    <3> HIDE DEF Grown, Add
    <3> QED BY <1>2, <1>3, <1>4, <1>5, <2>2
  <2> QED BY <2>1, <2>2
<1> HIDE DEF Add, Grown
<1>8. CASE Whole
  <2>1. /\ log' \in LogState /\ log'.there = log.there /\ log'.records = Append(log.records, record)
        /\ log'.torn = log.torn /\ log.there
    <3>1. log.there
      BY <1>8 DEF LogInv, LogTypes
    <3> QED BY <1>4, <1>6, <1>8, <3>1 DEF LogState
  <2>2. Log!Bytes(log') = Log!Bytes(log) + record.length /\ Log!Bytes(log) \in Nat
    BY <1>2, <1>4, <2>1, BytesAdded, BytesOf
  <2>3. LogTypes'
    BY <1>1, <1>2, <1>4, <1>6, <1>8, <2>1 DEF LogInv, LogTypes, LogSteps
  <2>4. ASSUME ~removed PROVE LogPlace' /\ LogContents'
    <3>1. LogPlace /\ LogContents
      BY <2>4 DEF LogInv
    <3>2. Log!Bytes(log) <= size /\ (~stranded => size = Log!Bytes(log))
      BY <1>1, <3>1 DEF LogPlace, LogSteps
    <3>3. LogPlace'
      BY <1>1, <1>2, <1>4, <1>8, <2>2, <3>2 DEF LogPlace, LogSteps
    <3>4. Bounded(log')
      <4>1. CASE size = 0
        <5>1. log.records = <<>> /\ log.torn = 0
          BY <1>4, <2>2, <3>2, <4>1, BytesOf
        <5> QED BY <1>2, <2>1, <5>1 DEF Bounded
      <4>2. CASE size + record.length <= LogSize
        BY <1>2, <1>4, <2>2, <3>2, <4>2, LogConstants DEF Bounded
      <4> QED BY <1>1, <1>8, <3>1, <4>1, <4>2 DEF LogPlace
    <3>5. Log!OnDisk' = backup.records \o Append(log.records, record)
      BY <1>1, <2>1 DEF Log!OnDisk
    <3>6. Ends(backup.records \o Append(log.records, record), Append(accepted, record))
      <4>1. Ends(backup.records \o log.records, accepted)
        BY <3>1 DEF LogContents, Log!OnDisk
      <4> QED BY <1>2, <1>4, <4>1, EndsKept
    <3>7. Log!OnDisk = accepted => Log!OnDisk' = accepted'
      <4>1. Log!OnDisk' = Append(backup.records \o log.records, record)
        <5>1. \A a, s \in Seq(LogRecord) : \A r \in LogRecord : a \o Append(s, r) = Append(a \o s, r)
          BY AppendBehind
        <5>2. record \in LogRecord /\ backup.records \in Seq(LogRecord) /\ log.records \in Seq(LogRecord)
          BY <1>2, <1>4
        <5>3. backup.records \o Append(log.records, record) = Append(backup.records \o log.records, record)
          BY <5>1, <5>2, Zenon
        <5> QED BY <3>5, <5>3
      <4> QED BY <1>8, <4>1 DEF Log!OnDisk
    <3>8. FullWith(Log!Bytes(backup) + Log!Bytes(log)) => FullWith(Log!Bytes(backup) + Log!Bytes(log'))
      <4>1. Log!Bytes(backup) \in Nat
        BY <1>4, BytesOf
      <4>2. \A n \in LogLengths : n \in Nat
        BY LogConstants
      <4> QED BY <1>2, <2>2, <4>1, <4>2, LogConstants DEF FullWith
    <3>9. Bounded(backup)
      BY <3>1 DEF LogContents
    <3>10. LogContents'
      BY <1>1, <1>8, <3>1, <3>4, <3>5, <3>6, <3>7, <3>8, <3>9 DEF LogContents, Bounded
    <3> QED BY <3>3, <3>10
  <2> QED BY <1>1, <2>3, <2>4 DEF LogInv
<1>9. ASSUME NEW n \in {0, 1}, Torn(n) PROVE LogInv'
  <2>1. /\ log' \in LogState /\ log'.there = log.there /\ log'.records = log.records
        /\ log'.torn = log.torn + n /\ log.there
    <3>1. log.there
      BY <1>9 DEF LogInv, LogTypes
    <3>2. log' = Rec(log.records, log.torn + n) /\ n \in Nat
      BY <1>9
    <3> QED BY <1>4, <3>1, <3>2 DEF LogState
  <2>2. Log!Bytes(log') = Log!Bytes(log) + n /\ Log!Bytes(log) \in Nat
    <3>1. n \in Nat
      OBVIOUS
    <3> HIDE DEF Torn
    <3> QED BY <1>4, <2>1, <3>1, BytesAdded, BytesOf
  <2>3. LogTypes'
    BY <1>1, <1>2, <1>4, <1>9, <2>1 DEF LogInv, LogTypes, LogSteps
  <2>4. ASSUME ~removed PROVE LogPlace' /\ LogContents'
    <3>1. LogPlace /\ LogContents
      BY <2>4 DEF LogInv
    <3>2. Log!Bytes(log) <= size /\ (~stranded => size = Log!Bytes(log))
      BY <1>1, <3>1 DEF LogPlace, LogSteps
    <3>3. LogPlace'
      BY <1>1, <1>2, <1>4, <1>9, <2>2, <3>2 DEF LogPlace, LogSteps
    <3>4. Bounded(log')
      <4>1. CASE size = 0
        BY <1>4, <1>9, <2>2, <3>2, <4>1, LogConstants DEF Bounded
      <4>2. CASE size + record.length <= LogSize
        BY <1>2, <1>4, <1>9, <2>2, <3>2, <4>2, LogConstants DEF Bounded
      <4> QED BY <1>1, <1>9, <3>1, <4>1, <4>2 DEF LogPlace
    <3>5. Log!OnDisk' = Log!OnDisk
      BY <1>1, <2>1 DEF Log!OnDisk
    <3>6. FullWith(Log!Bytes(backup) + Log!Bytes(log)) => FullWith(Log!Bytes(backup) + Log!Bytes(log'))
      <4>1. Log!Bytes(backup) \in Nat
        BY <1>4, BytesOf
      <4>2. \A k \in LogLengths : k \in Nat
        BY LogConstants
      <4> QED BY <1>9, <2>2, <4>1, <4>2, LogConstants DEF FullWith
    <3>7. Bounded(backup)
      BY <3>1 DEF LogContents
    <3>8. LogContents'
      BY <1>1, <1>9, <3>1, <3>4, <3>5, <3>6, <3>7 DEF LogContents, Bounded
    <3> QED BY <3>3, <3>8
  <2> QED BY <1>1, <2>3, <2>4 DEF LogInv
<1>10. CASE Same
  <2>1. LogTypes'
    BY <1>1, <1>10 DEF LogInv, LogTypes, LogSteps
  <2>2. ASSUME ~removed PROVE LogPlace' /\ LogContents'
    <3>1. LogPlace /\ LogContents /\ attached
      BY <1>1, <2>2 DEF LogInv, LogPlace
    <3>2. LogPlace'
      BY <1>1, <1>10, <3>1 DEF LogPlace, LogSteps
    <3>3. LogContents'
      BY <1>1, <1>10, <3>1, LogContentsKept
    <3> QED BY <3>2, <3>3
  <2> QED BY <1>1, <2>1, <2>2 DEF LogInv
<1> QED BY <1>7, <1>8, <1>9, <1>10

LEMMA LogKeeps == LogInv /\ Log!Next => LogInv'
BY OpenLogFileKeeps, WriteKeeps, CloseOldKeeps, UnlinkBackupKeeps, RenameKeeps, OpenNewKeeps,
   RenameBackKeeps, ReopenKeeps, WriteRecordKeeps, CrashKeeps DEF Log!Next

\* The log and its backup stay within their limit and hold the records accepted last,
\* all of them until a file has filled up, for every limit, every length of records and
\* any number of calls of Write and rotate that fail, crashes and restarts; a rotation
\* that could be neither finished nor undone is the one exception (rotate, logfile.go).
THEOREM LogIsKeptHolds == Spec => []LogIsKept
<1> DEFINE Inv == part = "log" => LogInv
<1>1. Init => Inv
  BY LogStarts DEF Init
<1>2. Inv /\ [Next]_vars => Inv'
  <2> SUFFICES ASSUME Inv, [Next]_vars, part' = "log" PROVE LogInv'
    OBVIOUS
  <2>1. CASE UNCHANGED vars
    <3>1. /\ part' = part
          /\ UNCHANGED <<log, backup, handle, attached, size, at, record, accepted, removed, stranded, records>>
      BY <2>1 DEF vars, logs
    <3>2. LogTypes'
      BY <3>1 DEF LogInv, LogTypes
    <3>3. ASSUME ~removed PROVE LogPlace' /\ LogContents'
      <4>1. LogPlace'
        BY <3>1, <3>3 DEF LogInv, LogPlace
      <4>2. LogContents'
        BY <3>1, <3>3, LogContentsKept DEF LogInv
      <4> QED BY <4>1, <4>2
    <3> QED BY <3>1, <3>2, <3>3 DEF LogInv
  <2>2. CASE Next
    <3>1. part = "log" /\ Log!Next
      BY <2>2 DEF Next
    <3> QED BY <3>1, LogKeeps
  <2> QED BY <2>1, <2>2
<1>3. Inv => LogIsKept
  <2> SUFFICES ASSUME LogInv PROVE Log!TypeOK /\ Log!SizeBounded /\ Log!LastRecordsKept
    BY DEF LogIsKept
  <2>1. Log!TypeOK
    BY DEF LogInv, LogTypes, LogSteps, Log!TypeOK, Log!Exists
  <2>2. Log!SizeBounded
    BY DEF LogInv, LogContents, Bounded, Log!SizeBounded
  <2>3. ~removed => Log!IsSuffix(Log!OnDisk, accepted)
    <3>1. Log!OnDisk \in Seq(LogRecord) /\ accepted \in Seq(LogRecord)
      BY ConcatProperties DEF LogInv, LogTypes, LogState, Log!OnDisk
    <3> QED BY <3>1, EndsIsSuffix DEF LogInv, LogContents
  <2>4. Log!LastRecordsKept
    BY <2>3 DEF LogInv, LogContents, FullWith, Log!LastRecordsKept
  <2> QED BY <2>1, <2>2, <2>4
<1> QED BY <1>1, <1>2, <1>3, PTL DEF Spec

-----------------------------------------------------------------------------
(***************************************************************************)
(* The reports about failed runners.  The two directories differ in what   *)
(* prune has to leave and in nothing else.                                 *)
(***************************************************************************)
Failures == {"readiness", "exited"}

Saving == {"collect", "save", "write", "rename"}

ReportSteps == Saving \cup {"none", "prune", "remove"}

ReportEntry ==
    [phase : {"absent", "up", "removing", "gone"}, why : Failures \cup {"none", "idle"},
     reason : Failures \cup {"none"}, collected : BOOLEAN]

Report == [of : ReportRunners, reason : Failures, size : ReportSizes, mod : Nat]

ReportTypes ==
    /\ runner \in [ReportRunners -> ReportEntry]
    /\ cleanup \in [ReportRunners -> ReportSteps]
    /\ claimed \in [ReportRunners -> Failures \cup {"none"}]
    /\ files \subseteq Report /\ IsFiniteSet(files)
    /\ now \in Nat /\ failed \in Nat
    /\ \A f \in files : f.mod <= now

\* A Save has the lock from its temporary file to its prune.
SaveInv ==
    \A n \in ReportRunners :
        /\ cleanup[n] \in {"write", "rename", "prune"} <=> mutex = n
        /\ cleanup[n] \in {"write", "rename"} => n \in temps

\* What a cleanup works on is being removed, and a claim is made once, of a failure.
EntryInv ==
    \A n \in ReportRunners :
        /\ cleanup[n] # "none" => runner[n].phase = "removing"
        /\ runner[n].collected => runner[n].phase \in {"removing", "gone"} /\ runner[n].why \in Failures
        /\ runner[n].why \in Failures => runner[n].reason \in Failures
        /\ cleanup[n] \in Saving => runner[n].collected /\ claimed[n] \in Failures

\* A report is written in the one pass that claimed its runner.
FilesInv ==
    /\ \A f \in files : runner[f.of].collected /\ cleanup[f.of] \notin Saving
    /\ \A f, g \in files : f.of = g.of => f = g

ReportInv == ReportTypes /\ SaveInv /\ EntryInv /\ FilesInv

-----------------------------------------------------------------------------
LEMMA ReportsStart == Reports!Init => ReportInv
<1> SUFFICES ASSUME Reports!Init PROVE ReportInv
  OBVIOUS
<1>1. Reports!Absent \in ReportEntry /\ Reports!Absent.phase = "absent" /\ ~Reports!Absent.collected
      /\ Reports!Absent.why = "none"
  BY DEF Reports!Absent, Reports!Entry, ReportEntry
<1>2. Reports!Nobody \notin ReportRunners
  BY HostAssumption DEF Reports!NobodyAssumption
<1>3. ReportTypes
  BY <1>1, FS_EmptySet DEF Reports!Init, ReportTypes, ReportSteps
<1>4. SaveInv
  BY <1>2 DEF Reports!Init, SaveInv
<1>5. EntryInv
  BY <1>1 DEF Reports!Init, EntryInv, Saving, Failures
<1>6. FilesInv
  BY DEF Reports!Init, FilesInv
<1> QED BY <1>3, <1>4, <1>5, <1>6 DEF ReportInv

\* What an event does to the entry of its runner.
LEMMA EntryEdits ==
  ASSUME ReportTypes, NEW n \in ReportRunners
  PROVE  /\ Reports!Start(n) => /\ ~runner[n].collected
                                /\ runner' \in [ReportRunners -> ReportEntry]
                                /\ \A m \in ReportRunners \ {n} : runner'[m] = runner[m]
                                /\ runner'[n].phase = "up" /\ ~runner'[n].collected
                                /\ runner'[n].why = "none" /\ runner[n].phase = "absent"
         /\ Reports!ReadinessFails(n) \/ Reports!Exits(n) =>
                /\ runner' \in [ReportRunners -> ReportEntry]
                /\ \A m \in ReportRunners \ {n} : runner'[m] = runner[m]
                /\ runner'[n].phase = "removing" /\ runner'[n].collected = runner[n].collected
                /\ runner'[n].why \in Failures /\ runner'[n].reason \in Failures
         /\ Reports!Retires(n) =>
                /\ runner' \in [ReportRunners -> ReportEntry]
                /\ \A m \in ReportRunners \ {n} : runner'[m] = runner[m]
                /\ runner'[n].phase = "removing" /\ runner'[n].collected = runner[n].collected
                /\ runner'[n].why = "idle" /\ runner[n].phase = "up"
<1>1. runner \in [ReportRunners -> ReportEntry] /\ runner[n] \in ReportEntry
  BY DEF ReportTypes
<1>2. ASSUME Reports!Start(n)
      PROVE  /\ ~runner[n].collected
             /\ runner' \in [ReportRunners -> ReportEntry]
             /\ \A m \in ReportRunners \ {n} : runner'[m] = runner[m]
             /\ runner'[n].phase = "up" /\ ~runner'[n].collected
             /\ runner'[n].why = "none" /\ runner[n].phase = "absent"
  <2>1. Reports!Up = [phase |-> "up", why |-> "none", reason |-> "none", collected |-> FALSE]
    BY DEF Reports!Up, Reports!Entry
  <2>2. Reports!Up \in ReportEntry
    BY <2>1 DEF ReportEntry
  <2>3. runner' = [runner EXCEPT ![n] = Reports!Up] /\ runner[n] = Reports!Absent
    BY <1>2 DEF Reports!Start
  <2>4. runner[n].phase = "absent" /\ ~runner[n].collected
    BY <2>3 DEF Reports!Absent, Reports!Entry
  <2> QED BY <1>1, <2>1, <2>2, <2>3, <2>4
<1>3. ASSUME Reports!ReadinessFails(n) \/ Reports!Exits(n)
      PROVE  /\ runner' \in [ReportRunners -> ReportEntry]
             /\ \A m \in ReportRunners \ {n} : runner'[m] = runner[m]
             /\ runner'[n].phase = "removing" /\ runner'[n].collected = runner[n].collected
             /\ runner'[n].why \in Failures /\ runner'[n].reason \in Failures
  BY <1>1, <1>3 DEF Reports!ReadinessFails, Reports!Exits, ReportEntry, Failures
<1>4. ASSUME Reports!Retires(n)
      PROVE  /\ runner' \in [ReportRunners -> ReportEntry]
             /\ \A m \in ReportRunners \ {n} : runner'[m] = runner[m]
             /\ runner'[n].phase = "removing" /\ runner'[n].collected = runner[n].collected
             /\ runner'[n].why = "idle" /\ runner[n].phase = "up"
  BY <1>1, <1>4 DEF Reports!Retires, ReportEntry, Failures
<1> QED BY <1>2, <1>3, <1>4

\* The events of a runner.
LEMMA EventsKeep ==
  ASSUME ReportInv, NEW n \in ReportRunners,
         Reports!Start(n) \/ Reports!ReadinessFails(n) \/ Reports!Exits(n) \/ Reports!Retires(n)
  PROVE  ReportInv'
<1>1. UNCHANGED <<cleanup, claimed, mutex, files, temps, now, failed>>
  BY DEF Reports!Start, Reports!ReadinessFails, Reports!Exits, Reports!Retires, Reports!store,
         Reports!budgets
<1>2. /\ runner' \in [ReportRunners -> ReportEntry]
      /\ \A m \in ReportRunners \ {n} : runner'[m] = runner[m]
      /\ runner'[n].collected = runner[n].collected
      /\ \/ runner'[n].phase = "up" /\ ~runner[n].collected /\ runner'[n].why = "none"
            /\ runner[n].phase = "absent"
         \/ runner'[n].phase = "removing" /\ runner'[n].why \in Failures /\ runner'[n].reason \in Failures
         \/ runner'[n].phase = "removing" /\ runner'[n].why = "idle" /\ runner[n].phase = "up"
  <2>1. ReportTypes
    BY DEF ReportInv
  <2>2. CASE Reports!Start(n)
    <3>1. /\ runner' \in [ReportRunners -> ReportEntry]
          /\ \A m \in ReportRunners \ {n} : runner'[m] = runner[m]
          /\ ~runner'[n].collected /\ ~runner[n].collected
          /\ runner'[n].phase = "up" /\ runner'[n].why = "none" /\ runner[n].phase = "absent"
      BY <2>1, <2>2, EntryEdits
    <3>2. runner[n].collected \in BOOLEAN /\ runner'[n].collected \in BOOLEAN
      BY <2>1, <3>1 DEF ReportTypes, ReportEntry
    <3>3. runner'[n].collected = runner[n].collected
      BY <3>1, <3>2, Zenon
    <3> QED BY <3>1, <3>3
  <2>3. CASE Reports!ReadinessFails(n) \/ Reports!Exits(n)
    BY <2>1, <2>3, EntryEdits
  <2>4. CASE Reports!Retires(n)
    BY <2>1, <2>4, EntryEdits
  <2> QED BY <2>2, <2>3, <2>4
<1>3. ReportTypes'
  BY <1>1, <1>2 DEF ReportInv, ReportTypes
<1>4. SaveInv'
  BY <1>1 DEF ReportInv, SaveInv
<1>5. EntryInv'
  <2> SUFFICES ASSUME NEW m \in ReportRunners
               PROVE  /\ cleanup'[m] # "none" => runner'[m].phase = "removing"
                      /\ runner'[m].collected => runner'[m].phase \in {"removing", "gone"} /\ runner'[m].why \in Failures
                      /\ runner'[m].why \in Failures => runner'[m].reason \in Failures
                      /\ cleanup'[m] \in Saving => runner'[m].collected /\ claimed'[m] \in Failures
    BY DEF EntryInv
  <2>1. CASE m = n
    BY <1>1, <1>2, <2>1 DEF ReportInv, EntryInv, Failures
  <2>2. CASE m # n
    BY <1>1, <1>2, <2>2 DEF ReportInv, EntryInv
  <2> QED BY <2>1, <2>2
<1>6. FilesInv'
  <2>1. \A f \in files : f.of \in ReportRunners
    BY DEF ReportInv, ReportTypes, Report
  <2>2. \A m \in ReportRunners : runner[m].collected => runner'[m].collected
    BY <1>2
  <2> QED BY <1>1, <2>1, <2>2 DEF ReportInv, FilesInv
<1> QED BY <1>3, <1>4, <1>5, <1>6 DEF ReportInv

\* A step of the cleanup of n that writes no report keeps what it may keep; only its stage,
\* its claim and the lock change.
LEMMA CleanupKeeps ==
  ASSUME ReportInv, NEW n \in ReportRunners, NEW next \in ReportSteps,
         cleanup[n] # "none", cleanup' = [cleanup EXCEPT ![n] = next],
         UNCHANGED <<runner, claimed, now>>, failed' \in Nat, files' \subseteq files, SaveInv',
         next \in Saving => cleanup[n] \in Saving
  PROVE  ReportInv'
<1>1. ReportTypes'
  BY FS_Subset DEF ReportInv, ReportTypes
<1>2. /\ cleanup'[n] = next
      /\ \A m \in ReportRunners \ {n} : cleanup'[m] = cleanup[m]
  BY DEF ReportInv, ReportTypes
<1>3. EntryInv'
  <2> SUFFICES ASSUME NEW m \in ReportRunners
               PROVE  /\ cleanup'[m] # "none" => runner[m].phase = "removing"
                      /\ runner[m].collected => runner[m].phase \in {"removing", "gone"} /\ runner[m].why \in Failures
                      /\ runner[m].why \in Failures => runner[m].reason \in Failures
                      /\ cleanup'[m] \in Saving => runner[m].collected /\ claimed[m] \in Failures
    BY DEF EntryInv
  <2>1. CASE m = n
    BY <1>2, <2>1 DEF ReportInv, EntryInv
  <2>2. CASE m # n
    BY <1>2, <2>2 DEF ReportInv, EntryInv
  <2> QED BY <2>1, <2>2
<1>4. FilesInv'
  <2>1. \A f \in files : f.of \in ReportRunners
    BY DEF ReportInv, ReportTypes, Report
  <2>2. \A m \in ReportRunners : cleanup'[m] \in Saving => cleanup[m] \in Saving
    BY <1>2
  <2> QED BY <2>1, <2>2 DEF ReportInv, FilesInv
<1> QED BY <1>1, <1>3, <1>4 DEF ReportInv

\* Who has the lock of the store after a step of the cleanup of n.
LEMMA LockKept ==
  ASSUME ReportInv, NEW n \in ReportRunners, NEW next \in ReportSteps,
         cleanup' = [cleanup EXCEPT ![n] = next],
         \/ mutex' = mutex /\ (next \in {"write", "rename", "prune"} <=> mutex = n)
         \/ mutex = Reports!Nobody /\ mutex' = n /\ next \in {"write", "rename", "prune"}
         \/ mutex = n /\ mutex' = Reports!Nobody /\ next \notin {"write", "rename", "prune"},
         temps' \ {n} = temps \ {n}, next \in {"write", "rename"} => n \in temps'
  PROVE  SaveInv'
<1>1. Reports!Nobody \notin ReportRunners
  BY HostAssumption DEF Reports!NobodyAssumption
<1>2. /\ cleanup'[n] = next
      /\ \A m \in ReportRunners \ {n} : cleanup'[m] = cleanup[m]
  BY DEF ReportInv, ReportTypes
<1>3. ASSUME NEW m \in ReportRunners
      PROVE  /\ cleanup'[m] \in {"write", "rename", "prune"} <=> mutex' = m
             /\ cleanup'[m] \in {"write", "rename"} => m \in temps'
  <2>1. CASE m = n
    BY <1>1, <1>2, <2>1
  <2>2. CASE m # n
    BY <1>1, <1>2, <2>2 DEF ReportInv, SaveInv
  <2> QED BY <2>1, <2>2
<1> QED BY <1>3 DEF SaveInv

-----------------------------------------------------------------------------
LEMMA ClaimKeeps ==
  ASSUME ReportInv, NEW n \in ReportRunners, Reports!ClaimDiagnostics(n) PROVE ReportInv'
<1>1. /\ runner[n].phase = "removing" /\ cleanup[n] = "none"
      /\ UNCHANGED <<mutex, files, temps, now, failed>>
  BY DEF Reports!ClaimDiagnostics, Reports!store, Reports!budgets
<1>2. /\ runner \in [ReportRunners -> ReportEntry] /\ claimed \in [ReportRunners -> Failures \cup {"none"}]
      /\ cleanup \in [ReportRunners -> ReportSteps] /\ runner[n] \in ReportEntry
  BY DEF ReportInv, ReportTypes
<1>3. PICK next \in {"collect", "remove"} : cleanup' = [cleanup EXCEPT ![n] = next]
  BY DEF Reports!ClaimDiagnostics, Reports!Goes
<1>4. mutex # n
  BY <1>1 DEF ReportInv, SaveInv
<1>5. SaveInv'
  BY <1>1, <1>3, <1>4, LockKept DEF ReportSteps, Saving
<1>6. cleanup'[n] = next /\ \A m \in ReportRunners \ {n} : cleanup'[m] = cleanup[m]
  BY <1>2, <1>3
<1>7. CASE next = "remove"
  <2>1. UNCHANGED <<runner, claimed>>
    <3>1. cleanup'[n] # "collect"
      BY <1>6, <1>7
    <3> QED BY <1>2, <3>1 DEF Reports!ClaimDiagnostics, Reports!Goes
  <2>2. ReportTypes'
    BY <1>1, <1>3, <1>7, <2>1 DEF ReportInv, ReportTypes, ReportSteps
  <2>3. EntryInv'
    <3> SUFFICES ASSUME NEW m \in ReportRunners
                 PROVE  /\ cleanup'[m] # "none" => runner[m].phase = "removing"
                        /\ runner[m].collected => runner[m].phase \in {"removing", "gone"} /\ runner[m].why \in Failures
                        /\ runner[m].why \in Failures => runner[m].reason \in Failures
                        /\ cleanup'[m] \in Saving => runner[m].collected /\ claimed[m] \in Failures
      BY <2>1 DEF EntryInv
    <3>1. CASE m = n
      BY <1>1, <1>6, <1>7, <3>1 DEF ReportInv, EntryInv, Saving
    <3>2. CASE m # n
      BY <1>6, <3>2 DEF ReportInv, EntryInv
    <3> QED BY <3>1, <3>2
  <2>4. FilesInv'
    <3>1. \A f \in files : f.of \in ReportRunners
      BY DEF ReportInv, ReportTypes, Report
    <3>2. \A m \in ReportRunners : cleanup'[m] \in Saving => cleanup[m] \in Saving
      BY <1>6, <1>7 DEF Saving
    <3> QED BY <1>1, <2>1, <3>1, <3>2 DEF ReportInv, FilesInv
  <2> QED BY <1>5, <2>2, <2>3, <2>4 DEF ReportInv
<1>8. CASE next = "collect"
  <2>1. /\ ~runner[n].collected /\ runner[n].why \in Failures
        /\ runner' = [runner EXCEPT ![n].collected = TRUE]
        /\ claimed' = [claimed EXCEPT ![n] = runner[n].reason]
    <3>1. cleanup'[n] # "remove"
      BY <1>6, <1>8
    <3> QED BY <1>2, <3>1 DEF Reports!ClaimDiagnostics, Reports!Claimable, Reports!Goes, Failures
  <2>2. runner[n].reason \in Failures
    BY <2>1 DEF ReportInv, EntryInv
  <2>3. /\ runner' \in [ReportRunners -> ReportEntry]
        /\ \A m \in ReportRunners \ {n} : runner'[m] = runner[m]
        /\ runner'[n].phase = runner[n].phase /\ runner'[n].why = runner[n].why
        /\ runner'[n].reason = runner[n].reason /\ runner'[n].collected
    BY <1>2, <2>1 DEF ReportEntry
  <2>4. claimed' \in [ReportRunners -> Failures \cup {"none"}] /\ claimed'[n] \in Failures
        /\ \A m \in ReportRunners \ {n} : claimed'[m] = claimed[m]
    BY <1>2, <2>1, <2>2
  <2>5. ReportTypes'
    BY <1>1, <1>3, <1>8, <2>3, <2>4 DEF ReportInv, ReportTypes, ReportSteps, Saving
  <2>6. EntryInv'
    <3> SUFFICES ASSUME NEW m \in ReportRunners
                 PROVE  /\ cleanup'[m] # "none" => runner'[m].phase = "removing"
                        /\ runner'[m].collected => runner'[m].phase \in {"removing", "gone"} /\ runner'[m].why \in Failures
                        /\ runner'[m].why \in Failures => runner'[m].reason \in Failures
                        /\ cleanup'[m] \in Saving => runner'[m].collected /\ claimed'[m] \in Failures
      BY DEF EntryInv
    <3>1. CASE m = n
      BY <1>1, <2>1, <2>2, <2>3, <2>4, <3>1
    <3>2. CASE m # n
      BY <1>6, <2>3, <2>4, <3>2 DEF ReportInv, EntryInv
    <3> QED BY <3>1, <3>2
  <2>7. FilesInv'
    <3>1. \A f \in files : f.of \in ReportRunners /\ f.of # n
      BY <2>1 DEF ReportInv, ReportTypes, FilesInv, Report
    <3> QED BY <1>1, <1>6, <2>3, <3>1 DEF ReportInv, FilesInv
  <2> QED BY <1>5, <2>5, <2>6, <2>7 DEF ReportInv
<1> QED BY <1>7, <1>8

LEMMA SaveKeeps ==
  ASSUME ReportInv, NEW n \in ReportRunners,
         Reports!CollectDiagnostics(n) \/ Reports!Lock(n) \/ Reports!WriteTemp(n)
  PROVE  ReportInv'
<1>1. cleanup \in [ReportRunners -> ReportSteps] /\ failed \in Nat /\ failed + 1 \in Nat
  BY DEF ReportInv, ReportTypes
<1>2. UNCHANGED <<runner, claimed, now, files>> /\ failed' \in Nat
  BY <1>1 DEF Reports!CollectDiagnostics, Reports!Lock, Reports!WriteTemp, Reports!store, Reports!budgets,
         Reports!SaveFails, Reports!MayFail
<1>3. PICK next \in ReportSteps :
        /\ cleanup' = [cleanup EXCEPT ![n] = next] /\ cleanup[n] \in Saving
        /\ \/ next = "save" /\ cleanup[n] = "collect" /\ UNCHANGED <<mutex, temps>>
           \/ next = "write" /\ mutex = Reports!Nobody /\ mutex' = n /\ temps' = temps \cup {n}
           \/ next = "remove" /\ cleanup[n] = "save" /\ UNCHANGED <<mutex, temps>>
           \/ next = "rename" /\ cleanup[n] = "write" /\ UNCHANGED <<mutex, temps>>
           \/ next = "remove" /\ cleanup[n] = "write" /\ mutex' = Reports!Nobody /\ temps' = temps \ {n}
  <2>1. CASE Reports!CollectDiagnostics(n)
    BY <2>1 DEF Reports!CollectDiagnostics, Reports!Goes, Reports!store, ReportSteps, Saving
  <2>2. CASE Reports!Lock(n)
    BY <2>2 DEF Reports!Lock, Reports!Goes, ReportSteps, Saving
  <2>3. CASE Reports!WriteTemp(n)
    BY <2>3 DEF Reports!WriteTemp, Reports!SaveFails, Reports!Goes, ReportSteps, Saving
  <2> QED BY <2>1, <2>2, <2>3
<1>4. cleanup[n] \in {"write", "rename", "prune"} <=> mutex = n
  BY DEF ReportInv, SaveInv
<1>5. cleanup[n] = "write" => n \in temps
  BY DEF ReportInv, SaveInv
<1>6. SaveInv'
  BY <1>3, <1>4, <1>5, LockKept
<1> QED BY <1>2, <1>3, <1>6, CleanupKeeps DEF Saving

LEMMA RenameKeepsReports ==
  ASSUME ReportInv, NEW n \in ReportRunners, Reports!RenameTemp(n) PROVE ReportInv'
<1>1. /\ cleanup[n] = "rename" /\ cleanup \in [ReportRunners -> ReportSteps]
      /\ failed \in Nat /\ failed + 1 \in Nat /\ mutex = n
      /\ UNCHANGED <<runner, claimed, now>>
  BY DEF ReportInv, ReportTypes, SaveInv, Reports!RenameTemp
<1>2. CASE Reports!SaveFails(n) /\ UNCHANGED files
  <2>1. /\ failed' = failed + 1 /\ cleanup' = [cleanup EXCEPT ![n] = "remove"]
        /\ temps' = temps \ {n} /\ mutex' = Reports!Nobody
    BY <1>2 DEF Reports!SaveFails, Reports!MayFail, Reports!Goes
  <2>2. SaveInv'
    BY <1>1, <2>1, LockKept DEF ReportSteps
  <2> QED BY <1>1, <1>2, <2>1, <2>2, CleanupKeeps DEF ReportSteps, Saving
<1>3. ASSUME NEW b \in ReportSizes, temps' = temps \ {n}, cleanup' = [cleanup EXCEPT ![n] = "prune"],
             UNCHANGED <<mutex, failed>>,
             files' = files \cup {[of |-> n, reason |-> claimed[n], size |-> b, mod |-> now]}
      PROVE  ReportInv'
  <2> DEFINE new == [of |-> n, reason |-> claimed[n], size |-> b, mod |-> now]
  <2>1. runner[n].collected /\ claimed[n] \in Failures /\ now \in Nat
    BY <1>1 DEF ReportInv, ReportTypes, EntryInv, Saving
  <2>2. new \in Report /\ new.of = n /\ new.mod = now
    BY <2>1 DEF Report
  <2>3. \A f \in files : f.of \in ReportRunners /\ f.of # n
    BY <1>1 DEF ReportInv, ReportTypes, FilesInv, Report, Saving
  <2>4. cleanup'[n] = "prune" /\ \A m \in ReportRunners \ {n} : cleanup'[m] = cleanup[m]
    BY <1>1, <1>3
  <2>5. SaveInv'
    BY <1>1, <1>3, LockKept DEF ReportSteps
  <2> HIDE DEF new
  <2>6. files' = files \cup {new}
    BY <1>3 DEF new
  <2>7. ReportTypes'
    <3>1. IsFiniteSet(files')
      BY <2>6, FS_AddElement DEF ReportInv, ReportTypes
    <3>2. files' \subseteq Report /\ \A f \in files' : f.mod <= now
      BY <2>1, <2>2, <2>6 DEF ReportInv, ReportTypes
    <3>3. cleanup' \in [ReportRunners -> ReportSteps]
      BY <1>1, <1>3 DEF ReportSteps
    <3> QED BY <1>1, <1>3, <3>1, <3>2, <3>3 DEF ReportInv, ReportTypes
  <2>8. EntryInv'
    <3> SUFFICES ASSUME NEW m \in ReportRunners
                 PROVE  /\ cleanup'[m] # "none" => runner[m].phase = "removing"
                        /\ runner[m].collected => runner[m].phase \in {"removing", "gone"} /\ runner[m].why \in Failures
                        /\ runner[m].why \in Failures => runner[m].reason \in Failures
                        /\ cleanup'[m] \in Saving => runner[m].collected /\ claimed[m] \in Failures
      BY <1>1 DEF EntryInv
    <3>1. CASE m = n
      BY <1>1, <2>4, <3>1 DEF ReportInv, EntryInv, Saving
    <3>2. CASE m # n
      BY <2>4, <3>2 DEF ReportInv, EntryInv
    <3> QED BY <3>1, <3>2
  <2>9. FilesInv'
    <3>1. \A f \in files' : f \in files \/ f = new
      BY <2>6
    <3>2. \A f \in files' : runner[f.of].collected /\ cleanup'[f.of] \notin Saving
      BY <2>1, <2>2, <2>3, <2>4, <3>1 DEF ReportInv, FilesInv, Saving
    <3>3. \A f, g \in files' : f.of = g.of => f = g
      BY <2>2, <2>3, <3>1 DEF ReportInv, FilesInv
    <3> QED BY <1>1, <3>2, <3>3 DEF FilesInv
  <2> QED BY <2>5, <2>7, <2>8, <2>9 DEF ReportInv
<1> QED BY <1>2, <1>3 DEF Reports!RenameTemp, Reports!Goes

\* The end of a Save, in either directory: prune leaves some of the reports.
PruneStep(n) ==
    /\ cleanup[n] = "prune" /\ cleanup' = [cleanup EXCEPT ![n] = "remove"] /\ mutex' = Reports!Nobody
    /\ files' \subseteq files /\ failed' \in {failed, failed + 1}
    /\ UNCHANGED <<runner, claimed, temps, now>>

LEMMA PruneSteps ==
  ASSUME NEW n \in ReportRunners, Reports!Prune(n) \/ FewReports!Prune(n) PROVE PruneStep(n)
<1>1. Reports!Pruned(files) \subseteq SUBSET files /\ FewReports!Pruned(files) \subseteq SUBSET files
  BY DEF Reports!Pruned, FewReports!Pruned
<1>2. CASE Reports!Prune(n)
  BY <1>1, <1>2 DEF Reports!Prune, Reports!Goes, Reports!MayFail, PruneStep
<1>3. CASE FewReports!Prune(n)
  BY <1>1, <1>3 DEF FewReports!Prune, FewReports!Goes, FewReports!MayFail, FewReports!Nobody,
                    Reports!Nobody, PruneStep
<1> QED BY <1>2, <1>3

LEMMA PruneKeeps ==
  ASSUME ReportInv, NEW n \in ReportRunners, PruneStep(n) PROVE ReportInv'
<1>1. cleanup[n] = "prune" /\ mutex = n /\ failed \in Nat /\ failed + 1 \in Nat
  BY DEF ReportInv, ReportTypes, SaveInv, PruneStep
<1>2. SaveInv'
  BY <1>1, LockKept DEF PruneStep, ReportSteps
<1> QED BY <1>1, <1>2, CleanupKeeps DEF PruneStep, ReportSteps, Saving

LEMMA RemoveKeepsReports ==
  ASSUME ReportInv, NEW n \in ReportRunners, Reports!RemoveInstance(n) PROVE ReportInv'
<1>1. /\ cleanup[n] = "remove" /\ cleanup' = [cleanup EXCEPT ![n] = "none"]
      /\ cleanup \in [ReportRunners -> ReportSteps] /\ runner \in [ReportRunners -> ReportEntry]
      /\ runner[n].phase = "removing" /\ mutex # n
      /\ UNCHANGED <<claimed, mutex, files, temps, now>>
  BY DEF ReportInv, ReportTypes, SaveInv, EntryInv, Reports!RemoveInstance, Reports!Goes, Reports!store
<1>2. SaveInv'
  BY <1>1, LockKept DEF ReportSteps
<1>3. CASE UNCHANGED runner /\ Reports!MayFail
  <2>1. failed' \in Nat
    BY <1>3 DEF Reports!MayFail, ReportInv, ReportTypes
  <2> QED BY <1>1, <1>2, <1>3, <2>1, CleanupKeeps DEF ReportSteps, Saving
<1>4. CASE runner' = [runner EXCEPT ![n].phase = "gone"] /\ UNCHANGED failed
  <2>1. /\ runner' \in [ReportRunners -> ReportEntry]
        /\ \A m \in ReportRunners \ {n} : runner'[m] = runner[m] /\ cleanup'[m] = cleanup[m]
        /\ runner'[n].phase = "gone" /\ runner'[n].why = runner[n].why
        /\ runner'[n].reason = runner[n].reason /\ runner'[n].collected = runner[n].collected
        /\ cleanup'[n] = "none"
    BY <1>1, <1>4 DEF ReportEntry
  <2>2. ReportTypes'
    BY <1>1, <1>4, <2>1 DEF ReportInv, ReportTypes, ReportSteps
  <2>3. EntryInv'
    <3> SUFFICES ASSUME NEW m \in ReportRunners
                 PROVE  /\ cleanup'[m] # "none" => runner'[m].phase = "removing"
                        /\ runner'[m].collected => runner'[m].phase \in {"removing", "gone"} /\ runner'[m].why \in Failures
                        /\ runner'[m].why \in Failures => runner'[m].reason \in Failures
                        /\ cleanup'[m] \in Saving => runner'[m].collected /\ claimed[m] \in Failures
      BY <1>1 DEF EntryInv
    <3>1. CASE m = n
      BY <2>1, <3>1 DEF ReportInv, EntryInv, Saving
    <3>2. CASE m # n
      BY <2>1, <3>2 DEF ReportInv, EntryInv
    <3> QED BY <3>1, <3>2
  <2>4. FilesInv'
    <3>1. \A f \in files : f.of \in ReportRunners
      BY DEF ReportInv, ReportTypes, Report
    <3>2. \A m \in ReportRunners : /\ runner[m].collected => runner'[m].collected
                                   /\ cleanup'[m] \in Saving => cleanup[m] \in Saving
      BY <2>1 DEF Saving
    <3> QED BY <1>1, <3>1, <3>2 DEF ReportInv, FilesInv
  <2> QED BY <1>2, <2>2, <2>3, <2>4 DEF ReportInv
<1> QED BY <1>3, <1>4 DEF Reports!RemoveInstance

LEMMA RestKeeps ==
  ASSUME ReportInv, Reports!Tick \/ Reports!Crash PROVE ReportInv'
<1>1. /\ cleanup \in [ReportRunners -> ReportSteps] /\ runner \in [ReportRunners -> ReportEntry]
      /\ now \in Nat
  BY DEF ReportInv, ReportTypes
<1>2. CASE Reports!Tick
  <2>1. now' = now + 1 /\ UNCHANGED <<runner, cleanup, claimed, mutex, files, temps, failed>>
    BY <1>2 DEF Reports!Tick, Reports!store
  <2>2. ReportTypes'
    <3>1. \A f \in files : f.mod \in Nat /\ f.mod <= now
      BY DEF ReportInv, ReportTypes, Report
    <3>2. \A f \in files : f.mod <= now'
      BY <1>1, <2>1, <3>1
    <3> QED BY <1>1, <2>1, <3>2 DEF ReportInv, ReportTypes
  <2> QED BY <2>1, <2>2 DEF ReportInv, SaveInv, EntryInv, FilesInv
<1>3. CASE Reports!Crash
  <2>1. /\ cleanup' = [n \in ReportRunners |-> "none"] /\ mutex' = Reports!Nobody
        /\ UNCHANGED <<claimed, files, now, failed>>
    BY <1>3 DEF Reports!Crash
  <2>2. ASSUME NEW n \in ReportRunners
        PROVE  /\ runner'[n] \in ReportEntry
               /\ runner'[n].why = runner[n].why /\ runner'[n].reason = runner[n].reason
               /\ runner'[n].collected = runner[n].collected
               /\ runner[n].collected => runner'[n].phase = "gone"
    <3>1. CASE runner[n] = Reports!Absent
      <4>1. runner[n] \in ReportEntry /\ runner'[n] = runner[n]
        BY <1>1, <1>3, <3>1 DEF Reports!Crash
      <4>2. ~runner[n].collected
        BY <3>1 DEF Reports!Absent, Reports!Entry
      <4> QED BY <4>1, <4>2
    <3>2. CASE runner[n] # Reports!Absent
      <4>1. runner[n] \in ReportEntry /\ runner'[n] = [runner[n] EXCEPT !.phase = "gone"]
        BY <1>1, <1>3, <3>2 DEF Reports!Crash
      <4> QED BY <4>1 DEF ReportEntry
    <3> QED BY <3>1, <3>2
  <2>3. runner' \in [ReportRunners -> ReportEntry]
    BY <1>3, <2>2 DEF Reports!Crash
  <2>4. Reports!Nobody \notin ReportRunners
    BY HostAssumption DEF Reports!NobodyAssumption
  <2>5. ReportTypes'
    BY <2>1, <2>3 DEF ReportInv, ReportTypes, ReportSteps
  <2>6. SaveInv'
    BY <2>1, <2>4 DEF SaveInv
  <2>7. EntryInv'
    BY <2>1, <2>2 DEF ReportInv, EntryInv, Saving
  <2>8. FilesInv'
    <3>1. \A f \in files : f.of \in ReportRunners
      BY DEF ReportInv, ReportTypes, Report
    <3> QED BY <2>1, <2>2, <3>1 DEF ReportInv, FilesInv, Saving
  <2> QED BY <2>5, <2>6, <2>7, <2>8 DEF ReportInv
<1> QED BY <1>2, <1>3

\* The steps that the two directories have in common.
ReportStep ==
    \/ \E n \in ReportRunners :
          \/ Reports!Start(n) \/ Reports!ReadinessFails(n) \/ Reports!Exits(n) \/ Reports!Retires(n)
          \/ Reports!ClaimDiagnostics(n) \/ Reports!CollectDiagnostics(n) \/ Reports!Lock(n)
          \/ Reports!WriteTemp(n) \/ Reports!RenameTemp(n) \/ PruneStep(n) \/ Reports!RemoveInstance(n)
    \/ Reports!Tick \/ Reports!Crash

LEMMA SameKinds ==
  /\ FewReports!Tick => Reports!Tick
  /\ FewReports!Crash => Reports!Crash
  /\ \A n \in ReportRunners :
        /\ FewReports!Start(n) => Reports!Start(n)
        /\ FewReports!ReadinessFails(n) => Reports!ReadinessFails(n)
        /\ FewReports!Exits(n) => Reports!Exits(n)
        /\ FewReports!Retires(n) => Reports!Retires(n)
        /\ FewReports!ClaimDiagnostics(n) => Reports!ClaimDiagnostics(n)
        /\ FewReports!CollectDiagnostics(n) => Reports!CollectDiagnostics(n)
        /\ FewReports!RemoveInstance(n) => Reports!RemoveInstance(n)
        /\ FewReports!Lock(n) => Reports!Lock(n)
        /\ FewReports!WriteTemp(n) => Reports!WriteTemp(n)
        /\ FewReports!RenameTemp(n) => Reports!RenameTemp(n)
<1>1. /\ FewReports!Tick => Reports!Tick
      /\ FewReports!Crash => Reports!Crash
  BY DEF FewReports!Tick, Reports!Tick, FewReports!Crash, Reports!Crash, FewReports!store, Reports!store,
         FewReports!Absent, Reports!Absent, FewReports!Entry, Reports!Entry, FewReports!Nobody,
         Reports!Nobody
<1>2. ASSUME NEW n \in ReportRunners
      PROVE  /\ FewReports!Start(n) => Reports!Start(n)
             /\ FewReports!ReadinessFails(n) => Reports!ReadinessFails(n)
             /\ FewReports!Exits(n) => Reports!Exits(n)
             /\ FewReports!Retires(n) => Reports!Retires(n)
  BY DEF FewReports!Start, Reports!Start, FewReports!ReadinessFails, Reports!ReadinessFails,
         FewReports!Exits, Reports!Exits, FewReports!Retires, Reports!Retires,
         FewReports!store, Reports!store, FewReports!budgets, Reports!budgets,
         FewReports!Up, Reports!Up, FewReports!Absent, Reports!Absent, FewReports!Entry, Reports!Entry
<1>3. ASSUME NEW n \in ReportRunners
      PROVE  /\ FewReports!ClaimDiagnostics(n) => Reports!ClaimDiagnostics(n)
             /\ FewReports!CollectDiagnostics(n) => Reports!CollectDiagnostics(n)
             /\ FewReports!RemoveInstance(n) => Reports!RemoveInstance(n)
  BY DEF FewReports!ClaimDiagnostics, Reports!ClaimDiagnostics, FewReports!CollectDiagnostics,
         Reports!CollectDiagnostics, FewReports!RemoveInstance, Reports!RemoveInstance,
         FewReports!Claimable, Reports!Claimable, FewReports!Goes, Reports!Goes,
         FewReports!store, Reports!store, FewReports!budgets, Reports!budgets,
         FewReports!MayFail, Reports!MayFail
<1>4. ASSUME NEW n \in ReportRunners
      PROVE  /\ FewReports!Lock(n) => Reports!Lock(n)
             /\ FewReports!WriteTemp(n) => Reports!WriteTemp(n)
             /\ FewReports!RenameTemp(n) => Reports!RenameTemp(n)
  BY DEF FewReports!Lock, Reports!Lock, FewReports!WriteTemp, Reports!WriteTemp,
         FewReports!RenameTemp, Reports!RenameTemp, FewReports!SaveFails, Reports!SaveFails,
         FewReports!Goes, Reports!Goes, FewReports!MayFail, Reports!MayFail,
         FewReports!Nobody, Reports!Nobody
<1> QED BY <1>1, <1>2, <1>3, <1>4

LEMMA SameSteps == Reports!Next \/ FewReports!Next => ReportStep
<1>1. Reports!Next => ReportStep
  BY PruneSteps DEF Reports!Next, Reports!Cleanup, ReportStep
<1>2. FewReports!Next => ReportStep
  BY SameKinds, PruneSteps DEF FewReports!Next, FewReports!Cleanup, ReportStep
<1> QED BY <1>1, <1>2

LEMMA ReportsKeep == ReportInv /\ ReportStep => ReportInv'
BY EventsKeep, ClaimKeeps, SaveKeeps, RenameKeepsReports, PruneKeeps, RemoveKeepsReports, RestKeeps
   DEF ReportStep

-----------------------------------------------------------------------------
(***************************************************************************)
(* What prune leaves, in a directory for so many files.                    *)
(***************************************************************************)
BytesIn(F) == Cardinality(UNION {{f} \X (1 .. f.size) : f \in F})

NoneNewer(gone, kept) == \A r \in gone, q \in kept : r.mod <= q.mod

TooMuch(F, r, limit) == ~(Cardinality(F) <= limit /\ BytesIn(F) <= ReportBytes) \/ now - r.mod > ReportAge

PrunedTo(F, limit) ==
    {K \in SUBSET F :
        /\ NoneNewer(F \ K, K)
        /\ K = {} \/ \E r \in K : NoneNewer({r}, K) /\ ~TooMuch(K, r, limit)
        /\ K = F \/ \E r \in F \ K : NoneNewer((F \ K) \ {r}, {r}) /\ TooMuch(K \cup {r}, r, limit)}

WithinLimits(K, limit) ==
    /\ Cardinality(K) <= limit /\ BytesIn(K) <= ReportBytes
    /\ \A f \in K : now - f.mod <= ReportAge
    /\ \A f \in files : now - f.mod <= ReportAge => \E g \in K : g.mod >= f.mod

LEMMA OneFits ==
  ASSUME NEW r, r.size \in 1 .. ReportBytes, ReportBytes \in Nat
  PROVE  Cardinality({r}) = 1 /\ BytesIn({r}) <= ReportBytes
<1>1. UNION {{f} \X (1 .. f.size) : f \in {r}} = {r} \X (1 .. r.size)
  OBVIOUS
<1>2. Cardinality({r}) = 1 /\ IsFiniteSet({r})
  BY FS_Singleton
<1>3. PICK k \in Nat : k = r.size /\ 1 <= k /\ k <= ReportBytes
  OBVIOUS
<1>4. IsFiniteSet(1 .. k) /\ Cardinality(1 .. k) = k
  <2>1. IsFiniteSet(1 .. k) /\ Cardinality(1 .. k) = (IF 1 > k THEN 0 ELSE k - 1 + 1)
    BY FS_Interval
  <2> QED BY <1>3, <2>1
<1>5. Cardinality({r} \X (1 .. k)) = 1 * k
  BY <1>2, <1>4, FS_Product
<1>6. Cardinality({r} \X (1 .. k)) <= ReportBytes
  BY <1>3, <1>5
<1> QED BY <1>1, <1>2, <1>3, <1>6 DEF BytesIn

LEMMA NoneFits == Cardinality({}) = 0 /\ BytesIn({}) = 0
<1>1. UNION {{f} \X (1 .. f.size) : f \in {}} = {}
  OBVIOUS
<1> QED BY <1>1, FS_EmptySet DEF BytesIn

LEMMA ReportConstants ==
  /\ ReportFiles \in Nat \ {0} /\ FewFiles \in Nat \ {0} /\ ReportBytes \in Nat /\ ReportAge \in Nat
  /\ ReportSizes \subseteq 1 .. ReportBytes
BY HostAssumption DEF Reports!ReportsAssumption, FewReports!ReportsAssumption

LEMMA PruneKeepsLimits ==
  ASSUME ReportTypes, NEW limit \in Nat \ {0}, NEW K \in PrunedTo(files, limit)
  PROVE  WithinLimits(K, limit)
<1>1. now \in Nat /\ \A f \in files : f.mod \in Nat /\ f.size \in 1 .. ReportBytes
  BY ReportConstants DEF ReportTypes, Report
<1>2. K \subseteq files /\ NoneNewer(files \ K, K)
  BY DEF PrunedTo
<1>3. CASE K = {}
  <2>1. ASSUME NEW f \in files, now - f.mod <= ReportAge PROVE FALSE
    <3>1. PICK r \in files : NoneNewer(files \ {r}, {r}) /\ TooMuch({r}, r, limit)
      BY <1>3, <2>1 DEF PrunedTo
    <3>2. f.mod <= r.mod
      BY <1>1, <3>1 DEF NoneNewer
    <3>3. now - r.mod <= ReportAge
      BY <1>1, <2>1, <3>2, ReportConstants
    <3>4. Cardinality({r}) = 1 /\ BytesIn({r}) <= ReportBytes
      BY <1>1, OneFits, ReportConstants
    <3>5. ~(now - r.mod > ReportAge)
      BY <1>1, <3>3, ReportConstants
    <3>6. Cardinality({r}) <= limit
      BY <3>4
    <3> QED BY <3>1, <3>4, <3>5, <3>6 DEF TooMuch
  <2>2. Cardinality(K) <= limit /\ BytesIn(K) <= ReportBytes
    BY <1>3, NoneFits, ReportConstants
  <2> QED BY <1>3, <2>1, <2>2 DEF WithinLimits
<1>4. CASE K # {}
  <2>1. PICK r \in K : NoneNewer({r}, K) /\ ~TooMuch(K, r, limit)
    BY <1>4 DEF PrunedTo
  <2>2. Cardinality(K) <= limit /\ BytesIn(K) <= ReportBytes /\ ~(now - r.mod > ReportAge)
    BY <2>1 DEF TooMuch
  <2>3. \A f \in K : now - f.mod <= ReportAge
    BY <1>1, <1>2, <2>1, <2>2, ReportConstants DEF NoneNewer
  <2>4. ASSUME NEW f \in files PROVE \E g \in K : g.mod >= f.mod
    <3>1. CASE f \in K
      BY <1>1, <3>1
    <3>2. CASE f \notin K
      BY <1>1, <1>2, <2>1, <3>2 DEF NoneNewer
    <3> QED BY <3>1, <3>2
  <2> QED BY <2>2, <2>3, <2>4 DEF WithinLimits
<1> QED BY <1>3, <1>4

LEMMA ReportsPrune == Reports!Pruned(files) = PrunedTo(files, ReportFiles)
BY DEF Reports!Pruned, PrunedTo, Reports!OldestFirst, NoneNewer, Reports!GoesOn, TooMuch, Reports!Fits,
       Reports!Total, BytesIn, Reports!Cardinality, Cardinality

LEMMA FewReportsPrune == FewReports!Pruned(files) = PrunedTo(files, FewFiles)
BY DEF FewReports!Pruned, PrunedTo, FewReports!OldestFirst, NoneNewer, FewReports!GoesOn, TooMuch,
       FewReports!Fits, FewReports!Total, BytesIn, FewReports!Cardinality, Cardinality

\* Of the steps only a prune without a failure ends a Save in this way.
LEMMA SaveEnds ==
  ASSUME ReportInv, NEW n \in ReportRunners, cleanup[n] = "prune", cleanup'[n] = "remove", failed' = failed
  PROVE  /\ Reports!Next => files' \in Reports!Pruned(files)
         /\ FewReports!Next => files' \in FewReports!Pruned(files)
<1>1. failed \in Nat /\ failed # failed + 1 /\ cleanup \in [ReportRunners -> ReportSteps]
  BY DEF ReportInv, ReportTypes
<1>2. ASSUME NEW m \in ReportRunners, NEW next,
             cleanup[m] # "prune", cleanup' = [cleanup EXCEPT ![m] = next]
      PROVE  FALSE
  BY <1>1, <1>2
<1>3. ASSUME NEW m \in ReportRunners, PruneStep(m) PROVE m = n
  BY <1>1, <1>3 DEF PruneStep
<1>4. ASSUME NEW m \in ReportRunners,
             \/ Reports!Start(m) \/ Reports!ReadinessFails(m) \/ Reports!Exits(m) \/ Reports!Retires(m)
             \/ Reports!ClaimDiagnostics(m) \/ Reports!CollectDiagnostics(m) \/ Reports!Lock(m)
             \/ Reports!WriteTemp(m) \/ Reports!RenameTemp(m) \/ Reports!RemoveInstance(m)
      PROVE  FALSE
  <2>1. CASE UNCHANGED cleanup
    BY <2>1
  <2>2. CASE cleanup[m] # "prune" /\ \E next : cleanup' = [cleanup EXCEPT ![m] = next]
    BY <1>2, <2>2
  <2> QED BY <1>4, <2>1, <2>2 DEF Reports!Start, Reports!ReadinessFails, Reports!Exits, Reports!Retires,
        Reports!ClaimDiagnostics, Reports!CollectDiagnostics, Reports!Lock, Reports!WriteTemp,
        Reports!RenameTemp, Reports!RemoveInstance, Reports!SaveFails, Reports!Goes
<1>5. ~Reports!Tick /\ ~Reports!Crash
  BY DEF Reports!Tick, Reports!Crash
<1>6. ASSUME Reports!Next PROVE files' \in Reports!Pruned(files)
  <2>1. Reports!Prune(n)
    <3>1. PICK m \in ReportRunners : Reports!Prune(m)
      BY <1>4, <1>5, <1>6 DEF Reports!Next, Reports!Cleanup
    <3> QED BY <1>3, <3>1, PruneSteps
  <2> QED BY <1>1, <2>1 DEF Reports!Prune, Reports!MayFail
<1>7. ASSUME FewReports!Next PROVE files' \in FewReports!Pruned(files)
  <2>1. FewReports!Prune(n)
    <3>1. PICK m \in ReportRunners : FewReports!Prune(m)
      BY <1>4, <1>5, <1>7, SameKinds DEF FewReports!Next, FewReports!Cleanup
    <3> QED BY <1>3, <3>1, PruneSteps
  <2> QED BY <1>1, <2>1 DEF FewReports!Prune, FewReports!MayFail
<1> QED BY <1>6, <1>7

\* A runner that failed is reported once and no other, in every state, and a Save
\* that reports success leaves the reports within their three limits and its own or
\* one as new among them (Save and prune of store.go, claimDiagnostics of state.go), for
\* every number of runners, every size and limit, and however many calls fail, removals
\* are retried and processes crash.
THEOREM ReportsAreKeptHolds == Spec => ReportsAreKept
<1> DEFINE Inv == part \in ReportParts => ReportInv
           Kept == part \in ReportParts => Reports!TypeOK /\ Reports!OneReportPerFailure
           Saved == /\ (part = "reports" => Reports!SaveKeepsLimits)
                    /\ (part = "few reports" => FewReports!SaveKeepsLimits)
<1>1. Init => Inv
  BY ReportsStart DEF Init
<1>2. ASSUME Inv, [Next]_vars PROVE Inv'
  <2> SUFFICES ASSUME part' \in ReportParts PROVE ReportInv'
    OBVIOUS
  <2>1. CASE UNCHANGED vars
    <3>1. UNCHANGED <<part, runner, cleanup, claimed, mutex, files, temps, now, failed>>
      BY <2>1 DEF vars, reports
    <3>2. ReportInv
      BY <1>2, <3>1
    <3> QED BY <3>1, <3>2 DEF ReportInv, ReportTypes, SaveInv, EntryInv, FilesInv
  <2>2. CASE Next
    <3>1. part \in ReportParts /\ (Reports!Next \/ FewReports!Next)
      BY <2>2 DEF Next, ReportParts
    <3> QED BY <1>2, <3>1, SameSteps, ReportsKeep
  <2> QED BY <1>2, <2>1, <2>2
<1>3. Inv => Kept
  <2> SUFFICES ASSUME ReportInv PROVE Reports!TypeOK /\ Reports!OneReportPerFailure
    OBVIOUS
  <2>1. Reports!TypeOK
    BY DEF ReportInv, ReportTypes, SaveInv, ReportEntry, Report, Reports!TypeOK
  <2>2. Reports!OneReportPerFailure
    <3>1. \A f \in files : f.of \in ReportRunners /\ f.reason \in Failures
      BY DEF ReportInv, ReportTypes, Report
    <3> QED BY <3>1 DEF ReportInv, FilesInv, EntryInv, Reports!OneReportPerFailure, Failures
  <2> QED BY <2>1, <2>2
<1>4. ASSUME Inv, [Next]_vars PROVE [Saved]_vars
  <2> SUFFICES ASSUME Next, part \in ReportParts PROVE Saved
    BY <1>4 DEF ReportParts
  <2>1. ReportInv /\ ReportTypes
    BY <1>4 DEF ReportInv
  <2>2. ASSUME part = "reports" PROVE Reports!SaveKeepsLimits
    <3> SUFFICES ASSUME NEW n \in ReportRunners, cleanup[n] = "prune", cleanup'[n] = "remove", failed' = failed
                 PROVE  /\ Reports!Cardinality(files') <= ReportFiles /\ Reports!Total(files') <= ReportBytes
                        /\ \A f \in files' : now - f.mod <= ReportAge
                        /\ \A f \in files : f.of = n /\ now - f.mod <= ReportAge =>
                              \E g \in files' : g.mod >= f.mod
      BY DEF Reports!SaveKeepsLimits
    <3>1. Reports!Next
      BY <2>2 DEF Next
    <3>2. files' \in PrunedTo(files, ReportFiles)
      BY <2>1, <3>1, SaveEnds, ReportsPrune
    <3>3. WithinLimits(files', ReportFiles)
      BY <2>1, <3>2, PruneKeepsLimits, ReportConstants
    <3> QED BY <3>3 DEF WithinLimits, Reports!Total, BytesIn, Reports!Cardinality, Cardinality
  <2>3. ASSUME part = "few reports" PROVE FewReports!SaveKeepsLimits
    <3> SUFFICES ASSUME NEW n \in ReportRunners, cleanup[n] = "prune", cleanup'[n] = "remove", failed' = failed
                 PROVE  /\ FewReports!Cardinality(files') <= FewFiles /\ FewReports!Total(files') <= ReportBytes
                        /\ \A f \in files' : now - f.mod <= ReportAge
                        /\ \A f \in files : f.of = n /\ now - f.mod <= ReportAge =>
                              \E g \in files' : g.mod >= f.mod
      BY DEF FewReports!SaveKeepsLimits
    <3>1. FewReports!Next
      BY <2>3 DEF Next
    <3>2. files' \in PrunedTo(files, FewFiles)
      BY <2>1, <3>1, SaveEnds, FewReportsPrune
    <3>3. WithinLimits(files', FewFiles)
      BY <2>1, <3>2, PruneKeepsLimits, ReportConstants
    <3> QED BY <3>3 DEF WithinLimits, FewReports!Total, BytesIn, FewReports!Cardinality, Cardinality
  <2> QED BY <2>2, <2>3
<1> QED BY <1>1, <1>2, <1>3, <1>4, PTL DEF Spec, ReportsAreKept

-----------------------------------------------------------------------------
(***************************************************************************)
(* The cache stores: built once, from the scale sets of the configuration. *)
(***************************************************************************)

SetLists == Seq(Caches!DockerSets \cup Caches!TartSets)

CachesInv ==
    /\ scaleSets \in SetLists
    /\ stores # {} => stores = Caches!DockerStores(scaleSets) \cup Caches!TartStores(scaleSets)

LEMMA CacheConstants == CacheConfigs \subseteq SetLists
BY HostAssumption DEF Caches!CacheAssumption, SetLists

LEMMA SetFacts ==
  ASSUME NEW list \in SetLists
  PROVE  /\ DOMAIN list \in SUBSET Nat
         /\ \A i \in DOMAIN list : list[i] \in Caches!DockerSets \cup Caches!TartSets
         /\ \A ss : ss \in Caches!Range(list) <=> \E i \in DOMAIN list : list[i] = ss
BY DEF SetLists, Caches!Range

LEMMA DockerSetFacts ==
  ASSUME NEW ss \in Caches!DockerSets \cup Caches!TartSets, Caches!IsDocker(ss)
  PROVE  /\ ss.ttl \in Int /\ ss.cacheAge \in Int /\ ss.buildxTTL \in Int /\ ss.sharedAge \in Int
         /\ DOMAIN ss.long \in SUBSET Nat
<1>1. ss \in Caches!DockerSets
  BY DEF Caches!DockerSets, Caches!TartSets, Caches!IsDocker, Caches!IsTart
<1>2. ss.long \in Seq([volume : STRING, budget : Nat, onExceed : STRING])
  BY <1>1 DEF Caches!DockerSets
<1>3. DOMAIN ss.long \in SUBSET Nat
  BY <1>2
<1> QED BY <1>1, <1>3 DEF Caches!DockerSets

LEMMA TartSetFacts ==
  ASSUME NEW ss \in Caches!DockerSets \cup Caches!TartSets, Caches!IsTart(ss)
  PROVE  ss.tartAge \in Int
BY DEF Caches!DockerSets, Caches!TartSets, Caches!IsTart

LEMMA OwnedFacts ==
  ASSUME NEW list \in SetLists, NEW socket
  PROVE  /\ Caches!SetsOn(list, socket) \subseteq DOMAIN list
         /\ Caches!SetsIn(list, socket) \subseteq DOMAIN list
         /\ \A i \in Caches!SetsOn(list, socket) :
               Caches!IsDocker(list[i]) /\ list[i].socket = socket /\ list[i] \in Caches!Range(list)
         /\ \A i \in Caches!SetsIn(list, socket) :
               Caches!IsTart(list[i]) /\ list[i].home = socket /\ list[i] \in Caches!Range(list)
         /\ socket \in Caches!Sockets(list) <=> Caches!SetsOn(list, socket) # {}
         /\ socket \in Caches!Homes(list) <=> Caches!SetsIn(list, socket) # {}
BY DEF SetLists, Caches!Range, Caches!SetsOn, Caches!SetsIn, Caches!Sockets, Caches!Homes

-----------------------------------------------------------------------------
LEMMA FirstIs ==
  ASSUME NEW I \in SUBSET Nat, I # {}
  PROVE  Caches!FirstOf(I) \in I /\ \A j \in I : Caches!FirstOf(I) <= j
<1>1. \E i \in I : \A j \in I : i <= j
  BY LeastNumber
<1> QED BY <1>1 DEF Caches!FirstOf

\* The settings of a store are those of one of the scale sets that own it: of the first that
\* turns the routine sweep on, if one does.
LEMMA SourceIs ==
  ASSUME NEW list, NEW own \in SUBSET Nat, own # {}, NEW on \in SUBSET own
  PROVE  \E i \in own : /\ Caches!SettingsSource(list, own, on) = list[i]
                        /\ on # {} => i \in on /\ \A j \in on : i <= j
<1>1. CASE on = {}
  <2>1. Caches!SettingsSource(list, own, on) = list[Caches!FirstOf(own)]
    BY <1>1 DEF Caches!SettingsSource
  <2> QED BY <1>1, <2>1, FirstIs
<1>2. CASE on # {}
  <2>1. Caches!SettingsSource(list, own, on) = list[Caches!FirstOf(on)]
    BY <1>2 DEF Caches!SettingsSource
  <2>2. on \in SUBSET Nat
    OBVIOUS
  <2>3. Caches!FirstOf(on) \in on /\ \A j \in on : Caches!FirstOf(on) <= j
    BY <1>2, <2>2, FirstIs
  <2> QED BY <2>1, <2>3
<1> QED BY <1>1, <1>2

-----------------------------------------------------------------------------
\* The stores of a daemon, by name.
PruneSource(list, socket) ==
    Caches!SettingsSource(list, Caches!SetsOn(list, socket),
                          Caches!PruneEnabled(list, Caches!SetsOn(list, socket)))

PruneOn(list, socket) == Caches!PruneEnabled(list, Caches!SetsOn(list, socket))

GarbageOf(list, socket) ==
    Caches!Garbage(socket, PruneOn(list, socket), Caches!Or(PruneSource(list, socket).ttl, 7))

LayersOf(list, socket) ==
    Caches!BuildCache(socket, PruneOn(list, socket), Caches!Or(PruneSource(list, socket).cacheAge, 8))

Mounting(list, socket, v) == {i \in Caches!SetsOn(list, socket) : v \in Caches!Mounted(list[i])}

CacheOf(list, socket, v) ==
    Caches!CacheStore(socket, Caches!Mount(list[Caches!FirstOf(Mounting(list, socket, v))], v))

LEMMA DockerKinds ==
  ASSUME NEW list, NEW s
  PROVE  s \in Caches!DockerStores(list) <=>
            \E socket \in Caches!Sockets(list) :
               \/ s = GarbageOf(list, socket)
               \/ s = LayersOf(list, socket)
               \/ s = Caches!BuildxStore(list, socket)
               \/ \E v \in Caches!SharedVolumes(list, socket) : s = Caches!SharedStore(list, socket, v)
               \/ \E v \in Caches!CacheVolumes(list, socket) : s = CacheOf(list, socket, v)
<1>1. ASSUME NEW socket
      PROVE  Caches!PruneStores(list, socket) = {GarbageOf(list, socket), LayersOf(list, socket)}
  BY DEF Caches!PruneStores, GarbageOf, LayersOf, PruneOn, PruneSource
<1>2. ASSUME NEW socket
      PROVE  Caches!CacheVolumeStores(list, socket) =
                {CacheOf(list, socket, v) : v \in Caches!CacheVolumes(list, socket)}
  BY DEF Caches!CacheVolumeStores, CacheOf, Mounting
<1> QED BY <1>1, <1>2 DEF Caches!DockerStores, Caches!SharedStores

\* What each kind of store says of itself.
LEMMA GarbageSays ==
  ASSUME NEW list, NEW socket
  PROVE  LET s == GarbageOf(list, socket)
         IN  /\ s.socket = socket /\ s.name = "docker-garbage" /\ s.kind = "garbage"
             /\ s.volume = "none" /\ s.ttl = Caches!Or(PruneSource(list, socket).ttl, 7)
BY DEF GarbageOf, Caches!Garbage, Caches!NoVolume

LEMMA LayersSay ==
  ASSUME NEW list, NEW socket
  PROVE  LET s == LayersOf(list, socket)
         IN  /\ s.socket = socket /\ s.name = "docker-build-cache" /\ s.kind = "cache"
             /\ s.volume = "none" /\ s.ttl = Caches!Or(PruneSource(list, socket).cacheAge, 8)
BY DEF LayersOf, Caches!BuildCache, Caches!NoVolume

LEMMA BuildxSays ==
  ASSUME NEW list, NEW socket
  PROVE  LET s == Caches!BuildxStore(list, socket)
         IN  /\ s.socket = socket /\ s.name = "buildx" /\ s.kind = "garbage" /\ s.volume = "none"
BY DEF Caches!BuildxStore, Caches!NoVolume

LEMMA SharedSays ==
  ASSUME NEW list, NEW socket, NEW v
  PROVE  LET s == Caches!SharedStore(list, socket, v)
             age == Caches!SharedSource(list, socket, v).sharedAge
         IN  /\ s.socket = socket /\ s.name = "shared-volume" /\ s.kind = "scratch" /\ s.volume = v
             /\ s.ttl = age /\ (s.enabled <=> age > 0)
BY DEF Caches!SharedStore

LEMMA MountIs ==
  ASSUME NEW ss, DOMAIN ss.long \in SUBSET Nat, NEW v
  PROVE  Caches!Mount(ss, v).volume = v
<1> DEFINE long == {j \in DOMAIN ss.long : ss.long[j].volume = v}
<1>1. CASE long = {}
  BY <1>1 DEF Caches!Mount
<1>2. CASE long # {}
  <2>1. Caches!FirstOf(long) \in long
    <3>1. long \in SUBSET Nat
      OBVIOUS
    <3> HIDE DEF long
    <3> QED BY <1>2, <3>1, FirstIs
  <2>2. Caches!Mount(ss, v) = ss.long[Caches!FirstOf(long)]
    BY <1>2 DEF Caches!Mount
  <2>3. ss.long[Caches!FirstOf(long)].volume = v
    BY <2>1
  <2> QED BY <2>2, <2>3
<1> QED BY <1>1, <1>2

LEMMA CacheSays ==
  ASSUME NEW list \in SetLists, NEW socket, NEW v \in Caches!CacheVolumes(list, socket)
  PROVE  LET s == CacheOf(list, socket, v)
         IN  s.socket = socket /\ s.name = "cache-volume" /\ s.kind = "cache" /\ s.volume = v
<1> DEFINE I == Mounting(list, socket, v)
           m == Caches!Mount(list[Caches!FirstOf(I)], v)
<1>1. I # {} /\ I \in SUBSET DOMAIN list
  BY OwnedFacts DEF Mounting, Caches!CacheVolumes
<1>2. Caches!FirstOf(I) \in I
  BY <1>1, SetFacts, FirstIs
<1>3. Caches!FirstOf(I) \in DOMAIN list /\ Caches!IsDocker(list[Caches!FirstOf(I)])
  BY <1>1, <1>2, OwnedFacts DEF Mounting
<1>4. m.volume = v
  BY <1>3, SetFacts, DockerSetFacts, MountIs
<1>5. CacheOf(list, socket, v) = Caches!CacheStore(socket, m)
  BY DEF CacheOf
<1> HIDE DEF m
<1> QED BY <1>4, <1>5 DEF Caches!CacheStore

LEMMA TartSays ==
  ASSUME NEW list, NEW home
  PROVE  LET s == Caches!TartStore(list, home)
         IN  s.home = home /\ s.name = "tart-cache"
BY DEF Caches!TartStore

\* The stores of daemons and of homes are told apart by their name.
LEMMA StoresByName ==
  ASSUME NEW list \in SetLists, stores = Caches!DockerStores(list) \cup Caches!TartStores(list)
  PROVE  /\ Caches!DockerBuilt = Caches!DockerStores(list)
         /\ Caches!TartBuilt = Caches!TartStores(list)
<1>1. \A s \in Caches!DockerStores(list) : s.name # "tart-cache"
  BY DockerKinds, GarbageSays, LayersSay, BuildxSays, SharedSays, CacheSays
<1>2. \A s \in Caches!TartStores(list) : s.name = "tart-cache"
  BY TartSays DEF Caches!TartStores
<1> QED BY <1>1, <1>2 DEF Caches!DockerBuilt, Caches!TartBuilt

-----------------------------------------------------------------------------
(* Each property, of the stores of any list of scale sets.                 *)

LEMMA OneStoreEachHolds == CachesInv => Caches!OneStoreEach
<1> SUFFICES ASSUME CachesInv, Caches!Built PROVE Caches!OneStoreEach
  BY DEF Caches!OneStoreEach
<1>1. scaleSets \in SetLists /\ Caches!DockerBuilt = Caches!DockerStores(scaleSets)
      /\ Caches!TartBuilt = Caches!TartStores(scaleSets)
  BY StoresByName DEF CachesInv, Caches!Built, Caches!NotBuilt
<1>2. ASSUME NEW a \in Caches!DockerBuilt, NEW b \in Caches!DockerBuilt,
             a.socket = b.socket, a.name = b.name, a.volume = b.volume
      PROVE  a = b
  <2>1. PICK p \in Caches!Sockets(scaleSets) :
               \/ a = GarbageOf(scaleSets, p)
               \/ a = LayersOf(scaleSets, p)
               \/ a = Caches!BuildxStore(scaleSets, p)
               \/ \E v \in Caches!SharedVolumes(scaleSets, p) : a = Caches!SharedStore(scaleSets, p, v)
               \/ \E v \in Caches!CacheVolumes(scaleSets, p) : a = CacheOf(scaleSets, p, v)
    BY <1>1, DockerKinds
  <2>2. PICK q \in Caches!Sockets(scaleSets) :
               \/ b = GarbageOf(scaleSets, q)
               \/ b = LayersOf(scaleSets, q)
               \/ b = Caches!BuildxStore(scaleSets, q)
               \/ \E v \in Caches!SharedVolumes(scaleSets, q) : b = Caches!SharedStore(scaleSets, q, v)
               \/ \E v \in Caches!CacheVolumes(scaleSets, q) : b = CacheOf(scaleSets, q, v)
    BY <1>1, DockerKinds
  <2>3. p = q
    BY <1>1, <1>2, <2>1, <2>2, GarbageSays, LayersSay, BuildxSays, SharedSays, CacheSays
  <2>4. CASE a = GarbageOf(scaleSets, p)
    BY <1>1, <1>2, <2>2, <2>3, <2>4, GarbageSays, LayersSay, BuildxSays, SharedSays, CacheSays
  <2>5. CASE a = LayersOf(scaleSets, p)
    BY <1>1, <1>2, <2>2, <2>3, <2>5, GarbageSays, LayersSay, BuildxSays, SharedSays, CacheSays
  <2>6. CASE a = Caches!BuildxStore(scaleSets, p)
    BY <1>1, <1>2, <2>2, <2>3, <2>6, GarbageSays, LayersSay, BuildxSays, SharedSays, CacheSays
  <2>7. ASSUME NEW v \in Caches!SharedVolumes(scaleSets, p), a = Caches!SharedStore(scaleSets, p, v)
        PROVE  a = b
    BY <1>1, <1>2, <2>2, <2>3, <2>7, GarbageSays, LayersSay, BuildxSays, SharedSays, CacheSays
  <2>8. ASSUME NEW v \in Caches!CacheVolumes(scaleSets, p), a = CacheOf(scaleSets, p, v)
        PROVE  a = b
    BY <1>1, <1>2, <2>2, <2>3, <2>8, GarbageSays, LayersSay, BuildxSays, SharedSays, CacheSays
  <2> QED BY <2>1, <2>4, <2>5, <2>6, <2>7, <2>8
<1>3. ASSUME NEW a \in Caches!TartBuilt, NEW b \in Caches!TartBuilt, a.home = b.home
      PROVE  a = b
  BY <1>1, <1>3, TartSays DEF Caches!TartStores
<1>4. ASSUME NEW ss \in Caches!Range(scaleSets), Caches!IsDocker(ss)
      PROVE  /\ \A v \in Caches!Mounted(ss) : \E s \in Caches!DockerBuilt :
                   s.socket = ss.socket /\ s.name = "cache-volume" /\ s.volume = v
             /\ ss.shared # "none" => \E s \in Caches!DockerBuilt :
                   s.socket = ss.socket /\ s.name = "shared-volume" /\ s.volume = ss.shared
  <2>1. PICK i \in DOMAIN scaleSets : scaleSets[i] = ss
    BY <1>1, <1>4, SetFacts
  <2>2. i \in Caches!SetsOn(scaleSets, ss.socket)
    BY <1>4, <2>1 DEF Caches!SetsOn
  <2>3. ss.socket \in Caches!Sockets(scaleSets)
    BY <1>1, <2>2, OwnedFacts
  <2>4. ASSUME NEW v \in Caches!Mounted(ss)
        PROVE  \E s \in Caches!DockerBuilt :
                  s.socket = ss.socket /\ s.name = "cache-volume" /\ s.volume = v
    <3>1. v \in Caches!CacheVolumes(scaleSets, ss.socket)
      BY <2>1, <2>2, <2>4 DEF Caches!CacheVolumes
    <3>2. CacheOf(scaleSets, ss.socket, v) \in Caches!DockerBuilt
      BY <1>1, <2>3, <3>1, DockerKinds
    <3> QED BY <1>1, <3>1, <3>2, CacheSays
  <2>5. ASSUME ss.shared # "none"
        PROVE  \E s \in Caches!DockerBuilt :
                  s.socket = ss.socket /\ s.name = "shared-volume" /\ s.volume = ss.shared
    <3>1. ss.shared \in Caches!SharedVolumes(scaleSets, ss.socket)
      BY <2>1, <2>2, <2>5 DEF Caches!SharedVolumes, Caches!NoVolume
    <3>2. Caches!SharedStore(scaleSets, ss.socket, ss.shared) \in Caches!DockerBuilt
      BY <1>1, <2>3, <3>1, DockerKinds
    <3> QED BY <3>2, SharedSays
  <2> QED BY <2>4, <2>5
<1>5. ASSUME NEW s \in Caches!DockerBuilt, s.volume # "none"
      PROVE  \E ss \in Caches!Range(scaleSets) :
                /\ Caches!IsDocker(ss) /\ ss.socket = s.socket
                /\ IF s.kind = "scratch" THEN s.volume = ss.shared ELSE s.volume \in Caches!Mounted(ss)
  <2>1. PICK p \in Caches!Sockets(scaleSets) :
               \/ s = GarbageOf(scaleSets, p)
               \/ s = LayersOf(scaleSets, p)
               \/ s = Caches!BuildxStore(scaleSets, p)
               \/ \E v \in Caches!SharedVolumes(scaleSets, p) : s = Caches!SharedStore(scaleSets, p, v)
               \/ \E v \in Caches!CacheVolumes(scaleSets, p) : s = CacheOf(scaleSets, p, v)
    BY <1>1, DockerKinds
  <2>2. ASSUME NEW v \in Caches!SharedVolumes(scaleSets, p), s = Caches!SharedStore(scaleSets, p, v)
        PROVE  \E i \in Caches!SetsOn(scaleSets, p) : scaleSets[i].shared = s.volume /\ s.kind = "scratch"
                                                      /\ s.socket = p
    BY <2>2, SharedSays DEF Caches!SharedVolumes
  <2>3. ASSUME NEW v \in Caches!CacheVolumes(scaleSets, p), s = CacheOf(scaleSets, p, v)
        PROVE  \E i \in Caches!SetsOn(scaleSets, p) : s.volume \in Caches!Mounted(scaleSets[i])
                                                      /\ s.kind = "cache" /\ s.socket = p
    BY <1>1, <2>3, CacheSays DEF Caches!CacheVolumes
  <2>4. (\E v \in Caches!SharedVolumes(scaleSets, p) : s = Caches!SharedStore(scaleSets, p, v))
        \/ (\E v \in Caches!CacheVolumes(scaleSets, p) : s = CacheOf(scaleSets, p, v))
    BY <1>5, <2>1, GarbageSays, LayersSay, BuildxSays
  <2> QED BY <1>1, <2>2, <2>3, <2>4, OwnedFacts
<1> QED BY <1>2, <1>3, <1>4, <1>5 DEF Caches!OneStoreEach, Caches!NoVolume

LEMMA RetentionIsConfiguredHolds == CachesInv => Caches!RetentionIsConfigured
<1> SUFFICES ASSUME CachesInv, Caches!Built, NEW s \in Caches!DockerBuilt, s.kind = "scratch"
    PROVE  LET ages == {ss.sharedAge : ss \in {x \in Caches!Range(scaleSets) :
                        Caches!IsDocker(x) /\ x.socket = s.socket /\ x.shared = s.volume /\ x.sharedAge > 0}}
           IN  IF ages = {} THEN s.ttl <= 0 /\ ~s.enabled ELSE s.ttl \in ages /\ s.enabled
  BY DEF Caches!RetentionIsConfigured
<1>1. scaleSets \in SetLists /\ Caches!DockerBuilt = Caches!DockerStores(scaleSets)
  BY StoresByName DEF CachesInv, Caches!Built, Caches!NotBuilt
<1>2a. PICK p \in Caches!Sockets(scaleSets) :
          \E v \in Caches!SharedVolumes(scaleSets, p) : s = Caches!SharedStore(scaleSets, p, v)
  BY <1>1, DockerKinds, GarbageSays, LayersSay, BuildxSays, CacheSays
<1>2. PICK v \in Caches!SharedVolumes(scaleSets, p) : s = Caches!SharedStore(scaleSets, p, v)
  BY <1>2a
<1> DEFINE naming == {i \in Caches!SetsOn(scaleSets, p) : scaleSets[i].shared = v}
           on == {i \in naming : scaleSets[i].sharedAge > 0}
           age == Caches!SharedSource(scaleSets, p, v).sharedAge
           users == {x \in Caches!Range(scaleSets) :
                        Caches!IsDocker(x) /\ x.socket = p /\ x.shared = v /\ x.sharedAge > 0}
<1>3. s.socket = p /\ s.volume = v /\ s.ttl = age /\ (s.enabled <=> age > 0)
  BY <1>2, SharedSays
<1>4. naming # {} /\ naming \in SUBSET Nat /\ on \in SUBSET naming
  BY <1>1, SetFacts, OwnedFacts DEF Caches!SharedVolumes
<1>5. PICK i \in naming : /\ Caches!SharedSource(scaleSets, p, v) = scaleSets[i]
                          /\ on # {} => i \in on
  <2>1. Caches!SharedSource(scaleSets, p, v) = Caches!SettingsSource(scaleSets, naming, on)
    BY DEF Caches!SharedSource
  <2> HIDE DEF naming, on
  <2> QED BY <1>4, <2>1, SourceIs
<1>6. age \in Int
  BY <1>1, <1>5, SetFacts, OwnedFacts, DockerSetFacts
<1>7. \A j \in on : scaleSets[j] \in users
  BY <1>1, OwnedFacts
<1>8. \A x \in users : \E j \in on : scaleSets[j] = x
  BY <1>1, SetFacts DEF Caches!SetsOn
<1>9. CASE on = {}
  <2>1. ~(age > 0)
    BY <1>5, <1>9
  <2>2. users = {}
    BY <1>8, <1>9
  <2> QED BY <1>3, <1>6, <2>1, <2>2
<1>10. CASE on # {}
  <2>1. scaleSets[i] \in users /\ age = scaleSets[i].sharedAge /\ age > 0
    BY <1>5, <1>7, <1>10
  <2> QED BY <1>3, <2>1
<1> QED BY <1>9, <1>10

LEMMA DockerSourceIs ==
  ASSUME NEW list \in SetLists, NEW socket \in Caches!Sockets(list),
         NEW on \in SUBSET Caches!SetsOn(list, socket)
  PROVE  \E ss \in Caches!Range(list) :
            /\ Caches!SettingsSource(list, Caches!SetsOn(list, socket), on) = ss
            /\ Caches!IsDocker(ss) /\ ss.socket = socket
            /\ ss.ttl \in Int /\ ss.cacheAge \in Int /\ ss.buildxTTL \in Int
<1>1. Caches!SetsOn(list, socket) \in SUBSET Nat /\ Caches!SetsOn(list, socket) # {}
  BY SetFacts, OwnedFacts
<1>2. PICK i \in Caches!SetsOn(list, socket) :
          Caches!SettingsSource(list, Caches!SetsOn(list, socket), on) = list[i]
  BY <1>1, SourceIs
<1>3. list[i] \in Caches!Range(list) /\ Caches!IsDocker(list[i]) /\ list[i].socket = socket
      /\ list[i] \in Caches!DockerSets \cup Caches!TartSets
  BY <1>2, SetFacts, OwnedFacts
<1> QED BY <1>2, <1>3, DockerSetFacts

LEMMA TartSourceIs ==
  ASSUME NEW list \in SetLists, NEW home \in Caches!Homes(list)
  PROVE  Caches!TartStore(list, home).ttl > 0
<1> DEFINE own == Caches!SetsIn(list, home)
           on == Caches!CleanupEnabled(list, own)
<1>1. own \in SUBSET Nat /\ own # {} /\ on \in SUBSET own
  BY SetFacts, OwnedFacts DEF Caches!CleanupEnabled
<1>2. PICK i \in own : Caches!SettingsSource(list, own, on) = list[i]
  BY <1>1, SourceIs
<1>3. list[i].tartAge \in Int
  BY <1>2, SetFacts, OwnedFacts, TartSetFacts
<1>4. Caches!TartStore(list, home).ttl = Caches!OrPositive(list[i].tartAge, 9)
  BY <1>2 DEF Caches!TartStore
<1> QED BY <1>3, <1>4 DEF Caches!OrPositive

LEMMA GuardHasSettingsHolds == CachesInv => Caches!GuardHasSettings
<1> SUFFICES ASSUME CachesInv, Caches!Built PROVE Caches!GuardHasSettings
  BY DEF Caches!GuardHasSettings
<1>1. /\ scaleSets \in SetLists /\ Caches!DockerBuilt = Caches!DockerStores(scaleSets)
      /\ Caches!TartBuilt = Caches!TartStores(scaleSets)
      /\ stores = Caches!DockerStores(scaleSets) \cup Caches!TartStores(scaleSets)
  BY StoresByName DEF CachesInv, Caches!Built, Caches!NotBuilt
<1>2. ASSUME NEW s \in Caches!DockerBuilt, s.name = "docker-garbage"
      PROVE  /\ s.ttl # 0
             /\ s.ttl < 0 => \E ss \in Caches!Range(scaleSets) :
                                Caches!IsDocker(ss) /\ ss.socket = s.socket /\ ss.ttl = s.ttl
  <2>1. PICK p \in Caches!Sockets(scaleSets) : s = GarbageOf(scaleSets, p)
    BY <1>1, <1>2, DockerKinds, LayersSay, BuildxSays, SharedSays, CacheSays
  <2>2. PruneOn(scaleSets, p) \in SUBSET Caches!SetsOn(scaleSets, p)
    BY DEF PruneOn, Caches!PruneEnabled
  <2>3. PICK ss \in Caches!Range(scaleSets) :
            /\ PruneSource(scaleSets, p) = ss /\ Caches!IsDocker(ss) /\ ss.socket = p
            /\ ss.ttl \in Int
    BY <1>1, <2>2, DockerSourceIs DEF PruneSource, PruneOn
  <2>4. s.socket = p /\ s.ttl = Caches!Or(ss.ttl, 7)
    BY <2>1, <2>3, GarbageSays
  <2> QED BY <2>3, <2>4 DEF Caches!Or
<1>3. ASSUME NEW s \in Caches!DockerBuilt, s.name = "docker-build-cache"
      PROVE  /\ s.ttl # 0
             /\ s.ttl < 0 => \E ss \in Caches!Range(scaleSets) :
                                Caches!IsDocker(ss) /\ ss.socket = s.socket /\ ss.cacheAge = s.ttl
  <2>1. PICK p \in Caches!Sockets(scaleSets) : s = LayersOf(scaleSets, p)
    BY <1>1, <1>3, DockerKinds, GarbageSays, BuildxSays, SharedSays, CacheSays
  <2>2. PruneOn(scaleSets, p) \in SUBSET Caches!SetsOn(scaleSets, p)
    BY DEF PruneOn, Caches!PruneEnabled
  <2>3. PICK ss \in Caches!Range(scaleSets) :
            /\ PruneSource(scaleSets, p) = ss /\ Caches!IsDocker(ss) /\ ss.socket = p
            /\ ss.cacheAge \in Int
    BY <1>1, <2>2, DockerSourceIs DEF PruneSource, PruneOn
  <2>4. s.socket = p /\ s.ttl = Caches!Or(ss.cacheAge, 8)
    BY <2>1, <2>3, LayersSay
  <2> QED BY <2>3, <2>4 DEF Caches!Or
<1>4. ASSUME NEW s \in stores, s.name \in {"tart-cache", "buildx"}
      PROVE  s.ttl > 0
  <2>1. CASE s \in Caches!TartStores(scaleSets)
    BY <1>1, <2>1, TartSourceIs DEF Caches!TartStores
  <2>2. CASE s \in Caches!DockerStores(scaleSets)
    <3>1. PICK p \in Caches!Sockets(scaleSets) : s = Caches!BuildxStore(scaleSets, p)
      BY <1>1, <1>4, <2>2, DockerKinds, GarbageSays, LayersSay, SharedSays, CacheSays
    <3> DEFINE own == Caches!SetsOn(scaleSets, p)
               on == {i \in own : scaleSets[i].buildx}
    <3>2. PICK ss : Caches!SettingsSource(scaleSets, own, on) = ss /\ ss.buildxTTL \in Int
      <4>1. on \in SUBSET own
        OBVIOUS
      <4> HIDE DEF on
      <4> QED BY <1>1, <4>1, DockerSourceIs
    <3>3. s.ttl = Caches!OrPositive(ss.buildxTTL, 10)
      BY <3>1, <3>2 DEF Caches!BuildxStore
    <3> QED BY <3>2, <3>3 DEF Caches!OrPositive
  <2> QED BY <1>1, <2>1, <2>2
<1> QED BY <1>2, <1>3, <1>4 DEF Caches!GuardHasSettings

LEMMA HomeKeepsImagesHolds == CachesInv => Caches!HomeKeepsImages
<1> SUFFICES ASSUME CachesInv, Caches!Built,
                    NEW ss \in Caches!Range(scaleSets), Caches!IsTart(ss),
                    NEW s \in Caches!TartBuilt, s.home = ss.home
    PROVE  ss.image \in s.keep
  BY DEF Caches!HomeKeepsImages
<1>1. scaleSets \in SetLists /\ Caches!TartBuilt = Caches!TartStores(scaleSets)
  BY StoresByName DEF CachesInv, Caches!Built, Caches!NotBuilt
<1>2. PICK i \in DOMAIN scaleSets : scaleSets[i] = ss
  BY <1>1, SetFacts
<1>3. s = Caches!TartStore(scaleSets, ss.home)
  BY <1>1, TartSays DEF Caches!TartStores
<1>4. i \in Caches!SetsIn(scaleSets, ss.home)
  BY <1>2 DEF Caches!SetsIn
<1>5. Caches!TartStore(scaleSets, ss.home).keep = {scaleSets[j].image : j \in Caches!SetsIn(scaleSets, ss.home)}
  BY DEF Caches!TartStore
<1> QED BY <1>2, <1>3, <1>4, <1>5

\* What an earlier part of the list says of its owners is what the whole list says.
LEMMA PartOfList ==
  ASSUME NEW list \in SetLists, NEW n \in 1..(Len(list) - 1)
  PROVE  LET some == SubSeq(list, 1, n)
         IN  /\ some \in SetLists
             /\ DOMAIN some = {i \in DOMAIN list : i <= n}
             /\ \A i \in DOMAIN some : some[i] = list[i]
BY DEF SetLists

LEMMA FirstStays ==
  ASSUME NEW I \in SUBSET Nat, NEW n \in Nat, {i \in I : i <= n} # {}
  PROVE  Caches!FirstOf({i \in I : i <= n}) = Caches!FirstOf(I)
<1> DEFINE J == {i \in I : i <= n}
<1>1. I # {} /\ J # {} /\ J \in SUBSET Nat
  OBVIOUS
<1>2. PICK a \in Nat : a = Caches!FirstOf(I) /\ a \in I /\ \A j \in I : a <= j
  BY <1>1, FirstIs
<1>3. PICK b \in Nat : b = Caches!FirstOf(J) /\ b \in I /\ b <= n /\ \A j \in J : b <= j
  <2>1. Caches!FirstOf(J) \in J /\ \A j \in J : Caches!FirstOf(J) <= j
    <3> HIDE DEF J
    <3> QED BY <1>1, FirstIs
  <2> QED BY <2>1
<1>4. a <= b
  BY <1>2, <1>3
<1>5. b <= a
  <2>1. a <= n
    BY <1>2, <1>3, <1>4
  <2> QED BY <1>2, <1>3, <2>1
<1>6. a = b
  BY <1>2, <1>3, <1>4, <1>5
<1> QED BY <1>2, <1>3, <1>6

LEMMA EarlierSetsDecideHolds == CachesInv => Caches!EarlierSetsDecide
<1> SUFFICES ASSUME CachesInv, Caches!Built, NEW n \in 1..(Len(scaleSets) - 1)
    PROVE  LET some == SubSeq(scaleSets, 1, n)
           IN  /\ \A socket \in Caches!Sockets(some) :
                     Caches!PruneEnabled(some, Caches!SetsOn(some, socket)) # {} =>
                         Caches!PruneStores(some, socket) \subseteq Caches!DockerBuilt
               /\ \A home \in Caches!Homes(some) :
                     Caches!CleanupEnabled(some, Caches!SetsIn(some, home)) # {} =>
                         \E s \in Caches!TartBuilt :
                            s.home = home /\ s.ttl = Caches!TartStore(some, home).ttl
  BY DEF Caches!EarlierSetsDecide
<1> DEFINE some == SubSeq(scaleSets, 1, n)
<1>1. scaleSets \in SetLists /\ Caches!DockerBuilt = Caches!DockerStores(scaleSets)
      /\ Caches!TartBuilt = Caches!TartStores(scaleSets)
  BY StoresByName DEF CachesInv, Caches!Built, Caches!NotBuilt
<1>2. /\ some \in SetLists
      /\ DOMAIN some = {i \in DOMAIN scaleSets : i <= n}
      /\ \A i \in DOMAIN some : some[i] = scaleSets[i]
  BY <1>1, PartOfList
<1>3. n \in Nat
  OBVIOUS
<1> HIDE DEF some
<1>4. ASSUME NEW socket \in Caches!Sockets(some), PruneOn(some, socket) # {}
      PROVE  Caches!PruneStores(some, socket) \subseteq Caches!DockerBuilt
  <2>1. PruneOn(some, socket) = {i \in PruneOn(scaleSets, socket) : i <= n}
    BY <1>2 DEF PruneOn, Caches!PruneEnabled, Caches!SetsOn
  <2>2. PruneOn(scaleSets, socket) \subseteq Caches!SetsOn(scaleSets, socket)
        /\ PruneOn(some, socket) \subseteq DOMAIN some
    BY DEF PruneOn, Caches!PruneEnabled, Caches!SetsOn
  <2>3. PruneOn(scaleSets, socket) \in SUBSET Nat /\ PruneOn(scaleSets, socket) # {}
    BY <1>1, <1>4, <2>1, <2>2, SetFacts, OwnedFacts
  <2>4. Caches!FirstOf(PruneOn(some, socket)) = Caches!FirstOf(PruneOn(scaleSets, socket))
    BY <1>3, <1>4, <2>1, <2>3, FirstStays
  <2>5. Caches!FirstOf(PruneOn(some, socket)) \in DOMAIN some
    BY <1>2, <1>4, <2>2, SetFacts, FirstIs
  <2>6. /\ PruneSource(some, socket) = some[Caches!FirstOf(PruneOn(some, socket))]
        /\ PruneSource(scaleSets, socket) = scaleSets[Caches!FirstOf(PruneOn(scaleSets, socket))]
    BY <1>4, <2>3 DEF PruneSource, PruneOn, Caches!SettingsSource
  <2>7. PruneSource(some, socket) = PruneSource(scaleSets, socket)
    BY <1>2, <2>4, <2>5, <2>6
  <2>8. GarbageOf(some, socket) = GarbageOf(scaleSets, socket)
        /\ LayersOf(some, socket) = LayersOf(scaleSets, socket)
    BY <1>4, <2>3, <2>7 DEF GarbageOf, LayersOf, Caches!Garbage, Caches!BuildCache
  <2>9. socket \in Caches!Sockets(scaleSets)
    BY <1>1, <2>2, <2>3, OwnedFacts
  <2>10. Caches!PruneStores(some, socket) = {GarbageOf(some, socket), LayersOf(some, socket)}
    BY DEF Caches!PruneStores, GarbageOf, LayersOf, PruneOn, PruneSource
  <2> QED BY <1>1, <2>8, <2>9, <2>10, DockerKinds
<1>5. ASSUME NEW home \in Caches!Homes(some),
             Caches!CleanupEnabled(some, Caches!SetsIn(some, home)) # {}
      PROVE  \E s \in Caches!TartBuilt : s.home = home /\ s.ttl = Caches!TartStore(some, home).ttl
  <2> DEFINE few == Caches!CleanupEnabled(some, Caches!SetsIn(some, home))
             all == Caches!CleanupEnabled(scaleSets, Caches!SetsIn(scaleSets, home))
  <2>1. few = {i \in all : i <= n}
    BY <1>2 DEF Caches!CleanupEnabled, Caches!SetsIn
  <2>2. all \subseteq Caches!SetsIn(scaleSets, home) /\ few \subseteq DOMAIN some
    BY DEF Caches!CleanupEnabled, Caches!SetsIn
  <2>3. all \in SUBSET Nat /\ all # {}
    BY <1>1, <1>5, <2>1, <2>2, SetFacts, OwnedFacts
  <2> HIDE DEF few, all
  <2>4. Caches!FirstOf(few) = Caches!FirstOf(all)
    BY <1>3, <1>5, <2>1, <2>3, FirstStays DEF few
  <2>5. Caches!FirstOf(few) \in DOMAIN some
    BY <1>2, <1>5, <2>2, SetFacts, FirstIs DEF few
  <2>6. /\ Caches!SettingsSource(some, Caches!SetsIn(some, home), few) = some[Caches!FirstOf(few)]
        /\ Caches!SettingsSource(scaleSets, Caches!SetsIn(scaleSets, home), all)
              = scaleSets[Caches!FirstOf(all)]
    BY <1>5, <2>3 DEF few, Caches!SettingsSource
  <2>7. Caches!SettingsSource(some, Caches!SetsIn(some, home), few)
           = Caches!SettingsSource(scaleSets, Caches!SetsIn(scaleSets, home), all)
    BY <1>2, <2>4, <2>5, <2>6
  <2>8. Caches!TartStore(some, home).ttl = Caches!TartStore(scaleSets, home).ttl
    BY <2>7 DEF Caches!TartStore, few, all
  <2>9. home \in Caches!Homes(scaleSets)
    BY <1>1, <2>2, <2>3, OwnedFacts
  <2>10. Caches!TartStore(scaleSets, home) \in Caches!TartBuilt
    BY <1>1, <2>9 DEF Caches!TartStores
  <2> QED BY <2>8, <2>10, TartSays
<1> QED BY <1>4, <1>5 DEF some, PruneOn

-----------------------------------------------------------------------------
\* Whatever scale sets the configuration lists, a daemon, a volume and a TART_HOME have one
\* store each, built from the settings that dockerPruneSettingsFor, buildxConfigFor,
\* sharedVolumeSweepTargetsFor, cacheVolumeStoresFor and tartCacheStoreFor take from the
\* first scale set that has any: the disk guard finds ages to sweep by, shared volumes are
\* swept by an age somebody configured or not at all, scale sets further down the list
\* change nothing, and no image in use is pruned.
THEOREM StoresAreSoundHolds == Spec => []StoresAreSound
<1> DEFINE Inv == part = "caches" => CachesInv
<1>1. Init => Inv
  BY CacheConstants DEF Init, Caches!Init, Caches!NotBuilt, CachesInv
<1>2. Inv /\ [Next]_vars => Inv'
  <2> SUFFICES ASSUME Inv, [Next]_vars, part' = "caches" PROVE CachesInv'
    OBVIOUS
  <2>1. CASE UNCHANGED vars
    BY <2>1 DEF vars, caches, CachesInv
  <2>2. CASE Next
    <3>1. part = "caches" /\ Caches!Next
      BY <2>2 DEF Next
    <3>2. scaleSets' = scaleSets
          /\ stores' = Caches!DockerStores(scaleSets) \cup Caches!TartStores(scaleSets)
      BY <3>1 DEF Caches!Next, Caches!Build
    <3> QED BY <3>1, <3>2 DEF CachesInv
  <2> QED BY <2>1, <2>2
<1>3. Inv => StoresAreSound
  BY OneStoreEachHolds, RetentionIsConfiguredHolds, GuardHasSettingsHolds, EarlierSetsDecideHolds,
     HomeKeepsImagesHolds DEF StoresAreSound
<1> QED BY <1>1, <1>2, <1>3, PTL DEF Spec

\* What is defined by recursion on a number exists.
Repeats(g, n, v, next) == g[0] = v /\ \A i \in 1..n : g[i] = next[<<i, g[i - 1]>>]

LEMMA Repeated ==
  ASSUME NEW n \in Nat, NEW S, NEW v \in S, NEW next \in [(1..n) \X S -> S]
  PROVE  \E g \in [0..n -> S] : Repeats(g, n, v, next)
<1> DEFINE goes(g, k) == g \in [0..k -> S] /\ g[0] = v /\ \A i \in 1..k : g[i] = next[<<i, g[i - 1]>>]
           P == {k \in 0..n : \E g : goes(g, k)}
<1>1. 0 \in P
  <2>1. goes([i \in 0..0 |-> v], 0)
    OBVIOUS
  <2>2. 0 \in 0..n
    OBVIOUS
  <2> HIDE DEF goes
  <2> QED BY <2>1, <2>2
<1>2. ASSUME NEW k \in 1..n, k - 1 \in P PROVE k \in P
  <2>1. PICK g : goes(g, k - 1)
    BY <1>2
  <2>2. next[<<k, g[k - 1]>>] \in S
    <3>1. k - 1 \in 0..(k - 1)
      OBVIOUS
    <3> QED BY <2>1, <3>1
  <2> DEFINE h == [i \in 0..k |-> IF i = k THEN next[<<k, g[k - 1]>>] ELSE g[i]]
  <2>3. h \in [0..k -> S]
    <3>1. ASSUME NEW i \in 0..k, i # k PROVE g[i] \in S
      <4>1. i \in 0..(k - 1)
        BY <3>1
      <4> QED BY <2>1, <4>1
    <3> QED BY <2>2, <3>1
  <2>4. h[0] = v
    BY <2>1
  <2>5. ASSUME NEW i \in 1..k PROVE h[i] = next[<<i, h[i - 1]>>]
    <3>1. CASE i = k
      <4>1. h[i] = next[<<k, g[k - 1]>>] /\ h[i - 1] = g[k - 1]
        BY <3>1
      <4> QED BY <3>1, <4>1
    <3>2. CASE i # k
      <4>1. h[i] = g[i] /\ h[i - 1] = g[i - 1] /\ i \in 1..(k - 1)
        BY <3>2
      <4> HIDE DEF h
      <4> QED BY <2>1, <4>1
    <3> QED BY <3>1, <3>2
  <2>6. goes(h, k)
    <3> HIDE DEF h
    <3> QED BY <2>3, <2>4, <2>5
  <2>7. k \in 0..n
    OBVIOUS
  <2> HIDE DEF goes, h
  <2> QED BY <2>6, <2>7
<1> HIDE DEF goes
<1>3. \A k \in 0..n : k \in P
  BY <1>1, <1>2, UpTo
<1>4. n \in 0..n
  OBVIOUS
<1>5. \E g : goes(g, n)
  BY <1>3, <1>4, Zenon
<1> QED BY <1>5 DEF goes, Repeats

-----------------------------------------------------------------------------
(***************************************************************************)
(* The back-off of a retry: the loop of Delay against the doubling it      *)
(* stands for.                                                             *)
(***************************************************************************)

LEMMA LongestDelayIs == LongestDelay \in Nat /\ RetryFailures \in Nat /\ \A d \in Delays : d \in Int /\ d <= LongestDelay
BY HostAssumption DEF Backoff!BackoffAssumption

\* Settings that RetryConfig.Validate lets through.
RetrySettings ==
    {r \in [initial : Delays, max : Delays, cooldown : Delays, cooldownAfter : 0 .. RetryFailures + 1] :
        Backoff!Validate(r)}

LEMMA SettingsAre ==
  ASSUME settings \in RetrySettings
  PROVE  /\ settings.initial \in Nat \ {0} /\ settings.max \in Nat /\ settings.cooldown \in Nat
         /\ settings.cooldownAfter \in Nat
         /\ settings.initial <= settings.max /\ settings.max <= settings.cooldown
         /\ settings.max <= LongestDelay
<1>1. settings \in [initial : Delays, max : Delays, cooldown : Delays, cooldownAfter : 0 .. RetryFailures + 1]
      /\ Backoff!Validate(settings)
  BY DEF RetrySettings
<1>2. settings.initial \in Int /\ settings.max \in Int /\ settings.cooldown \in Int
      /\ settings.max <= LongestDelay /\ settings.cooldownAfter \in Nat
  BY <1>1, LongestDelayIs
<1> QED BY <1>1, <1>2 DEF Backoff!Validate

Turns == [d \in 0..settings.max |-> Backoff!Turn(d)]

\* No turn wraps around, and what it does is to double, as far as the maximum.
LEMMA TurnIs ==
  ASSUME settings \in RetrySettings, NEW d \in Nat, d <= settings.max
  PROVE  /\ Backoff!Turn(d) \in Nat /\ Backoff!Turn(d) <= settings.max
         /\ Backoff!Turn(d) = IF d = settings.max THEN settings.max ELSE Backoff!Least(2 * d, settings.max)
<1>1. PICK m \in Nat : m = settings.max
  BY SettingsAre
<1>2. m <= LongestDelay /\ LongestDelay \in Nat
  BY <1>1, SettingsAre, LongestDelayIs
<1>3. CASE d = m
  BY <1>1, <1>3 DEF Backoff!Turn
<1>4. CASE d < m /\ d > m \div 2
  <2>1. Backoff!Turn(d) = m
    BY <1>1, <1>4 DEF Backoff!Turn
  <2>2. ~(2 * d < m)
    BY <1>4
  <2> QED BY <1>1, <1>4, <2>1, <2>2 DEF Backoff!Least
<1>5. CASE d < m /\ ~(d > m \div 2)
  <2>1. d + d <= m
    BY <1>5
  <2>2. Backoff!Wrapped(d + d) = d + d
    BY <1>2, <2>1 DEF Backoff!Wrapped
  <2>3. Backoff!Turn(d) = d + d
    BY <1>1, <1>5, <2>2 DEF Backoff!Turn
  <2> QED BY <1>1, <1>5, <2>1, <2>3 DEF Backoff!Least
<1> QED BY <1>1, <1>3, <1>4, <1>5

\* The loop of Delay, and plain doubling, each as a function of the number of turns.
Loops(g, n) ==
    /\ g = [i \in 0..n |-> g[i]]
    /\ g[0] = settings.initial
    /\ \A i \in 1..n : g[i] = Backoff!Turn(g[i - 1])

Doubles(g, n) ==
    /\ g = [i \in 0..n |-> g[i]]
    /\ g[0] = settings.initial
    /\ \A i \in 1..n : g[i] = 2 * g[i - 1]

LEMMA LoopedIs ==
  ASSUME settings \in RetrySettings, NEW n \in Nat
  PROVE  \E g : Loops(g, n) /\ Backoff!Looped(n) = g[n]
<1> DEFINE S == 0..settings.max
           next == [x \in (1..n) \X S |-> Backoff!Turn(x[2])]
<1>1. settings.initial \in S /\ next \in [(1..n) \X S -> S]
  <2>1. PICK m \in Nat : m = settings.max
    BY SettingsAre
  <2>2. ASSUME NEW x \in 0..m PROVE Backoff!Turn(x) \in 0..m
    BY <2>1, TurnIs
  <2> QED BY <2>1, <2>2, SettingsAre
<1>1a. PICK g \in [0..n -> S] : Repeats(g, n, settings.initial, next)
  <2> HIDE DEF S, next
  <2> QED BY <1>1, Repeated
<1>2. g[0] = settings.initial /\ \A i \in 1..n : g[i] = next[<<i, g[i - 1]>>]
  BY <1>1a DEF Repeats
<1>3. \A i \in 1..n : g[i] = Backoff!Turn(g[i - 1])
  <2> SUFFICES ASSUME NEW i \in 1..n PROVE g[i] = Backoff!Turn(g[i - 1])
    OBVIOUS
  <2>1. i - 1 \in 0..n
    OBVIOUS
  <2>2. g[i - 1] \in S
    BY <1>2, <2>1
  <2> QED BY <1>2, <2>2
<1>4. g = [i \in 0..n |-> IF i = 0 THEN settings.initial ELSE Backoff!Turn(g[i - 1])]
  <2>1. ASSUME NEW i \in 0..n
        PROVE  g[i] = IF i = 0 THEN settings.initial ELSE Backoff!Turn(g[i - 1])
    BY <1>2, <1>3
  <2>2. g = [i \in 0..n |-> g[i]]
    BY <1>2
  <2> QED BY <2>1, <2>2
<1> DEFINE d[i \in 0..n] == IF i = 0 THEN settings.initial ELSE Backoff!Turn(d[i - 1])
<1>5. d = [i \in 0..n |-> IF i = 0 THEN settings.initial ELSE Backoff!Turn(d[i - 1])]
  <2>1. \E h : h = [i \in 0..n |-> IF i = 0 THEN settings.initial ELSE Backoff!Turn(h[i - 1])]
    BY <1>4
  <2> QED BY <2>1, Zenon
<1>6. Backoff!Looped(n) = d[n]
  BY DEF Backoff!Looped
<1> HIDE DEF d
<1>7. Loops(d, n)
  <2>1. d = [i \in 0..n |-> d[i]]
    BY <1>5
  <2>2. d[0] = settings.initial
    BY <1>5
  <2>3. \A i \in 1..n : d[i] = Backoff!Turn(d[i - 1])
    BY <1>5
  <2> QED BY <2>1, <2>2, <2>3 DEF Loops
<1> QED BY <1>6, <1>7

LEMMA DoubledIs ==
  ASSUME settings \in RetrySettings, NEW n \in Nat
  PROVE  \E g : Doubles(g, n) /\ Backoff!Doubled(n) = g[n]
<1> DEFINE next == [x \in (1..n) \X Nat |-> 2 * x[2]]
<1>1. settings.initial \in Nat /\ next \in [(1..n) \X Nat -> Nat]
  BY SettingsAre
<1>1a. PICK g \in [0..n -> Nat] : Repeats(g, n, settings.initial, next)
  <2> HIDE DEF next
  <2> QED BY <1>1, Repeated
<1>2. g[0] = settings.initial /\ \A i \in 1..n : g[i] = next[<<i, g[i - 1]>>]
  BY <1>1a DEF Repeats
<1>3. \A i \in 1..n : g[i] = 2 * g[i - 1]
  <2> SUFFICES ASSUME NEW i \in 1..n PROVE g[i] = 2 * g[i - 1]
    OBVIOUS
  <2>1. i - 1 \in 0..n
    OBVIOUS
  <2>2. g[i - 1] \in Nat
    BY <1>2, <2>1
  <2> QED BY <1>2, <2>2
<1>4. g = [i \in 0..n |-> IF i = 0 THEN settings.initial ELSE 2 * g[i - 1]]
  <2>1. ASSUME NEW i \in 0..n
        PROVE  g[i] = IF i = 0 THEN settings.initial ELSE 2 * g[i - 1]
    BY <1>2, <1>3
  <2>2. g = [i \in 0..n |-> g[i]]
    BY <1>2
  <2> QED BY <2>1, <2>2
<1> DEFINE d[i \in 0..n] == IF i = 0 THEN settings.initial ELSE 2 * d[i - 1]
<1>5. d = [i \in 0..n |-> IF i = 0 THEN settings.initial ELSE 2 * d[i - 1]]
  <2>1. \E h : h = [i \in 0..n |-> IF i = 0 THEN settings.initial ELSE 2 * h[i - 1]]
    BY <1>4
  <2> QED BY <2>1, Zenon
<1>6. Backoff!Doubled(n) = d[n]
  BY DEF Backoff!Doubled
<1> HIDE DEF d
<1>7. Doubles(d, n)
  <2>1. d = [i \in 0..n |-> d[i]]
    BY <1>5
  <2>2. d[0] = settings.initial
    BY <1>5
  <2>3. \A i \in 1..n : d[i] = 2 * d[i - 1]
    BY <1>5
  <2> QED BY <2>1, <2>2, <2>3 DEF Doubles
<1> QED BY <1>6, <1>7

\* Turn by turn the loop does what doubling does, as far as the maximum.
LEMMA TurnByTurn ==
  ASSUME settings \in RetrySettings, NEW n \in Nat, NEW g, NEW h, Loops(g, n), Doubles(h, n)
  PROVE  \A i \in 0..n : h[i] \in Nat \ {0} /\ g[i] = Backoff!Least(h[i], settings.max)
<1> DEFINE P == {i \in 0..n : h[i] \in Nat \ {0} /\ g[i] = Backoff!Least(h[i], settings.max)}
<1>1. PICK m \in Nat : m = settings.max
  BY SettingsAre
<1>2. 0 \in P
  BY <1>1, SettingsAre DEF Loops, Doubles, Backoff!Least
<1>3. ASSUME NEW i \in 1..n, i - 1 \in P PROVE i \in P
  <2>1. PICK y \in Nat \ {0} : y = h[i - 1]
    BY <1>3
  <2>2. PICK x \in Nat : x = g[i - 1] /\ x = Backoff!Least(y, m)
    BY <1>1, <1>3, <2>1 DEF Backoff!Least
  <2>3. h[i] = 2 * y
    BY <2>1 DEF Doubles
  <2>4. g[i] = IF x = m THEN m ELSE Backoff!Least(2 * x, m)
    <3>1. x <= m
      BY <2>2 DEF Backoff!Least
    <3>2. g[i] = Backoff!Turn(x)
      BY <2>2 DEF Loops
    <3> QED BY <1>1, <3>1, <3>2, TurnIs
  <2>5. g[i] = Backoff!Least(2 * y, m)
    BY <2>2, <2>4 DEF Backoff!Least
  <2>6. 2 * y \in Nat \ {0}
    OBVIOUS
  <2> QED BY <1>1, <2>3, <2>5, <2>6
<1> HIDE DEF P
<1>4. \A i \in 0..n : i \in P
  BY <1>2, <1>3, UpTo
<1> QED BY <1>4 DEF P

LEMMA LoopDoubles ==
  ASSUME settings \in RetrySettings, NEW n \in Nat
  PROVE  /\ Backoff!Doubled(n) \in Nat \ {0}
         /\ Backoff!Looped(n) = Backoff!Least(Backoff!Doubled(n), settings.max)
<1>1. PICK g : Loops(g, n) /\ Backoff!Looped(n) = g[n]
  BY LoopedIs
<1>2. PICK h : Doubles(h, n) /\ Backoff!Doubled(n) = h[n]
  BY DoubledIs
<1>3. n \in 0..n
  OBVIOUS
<1> QED BY <1>1, <1>2, <1>3, TurnByTurn

\* One failure more doubles once more.
LEMMA DoubledOnce ==
  ASSUME settings \in RetrySettings, NEW n \in Nat
  PROVE  Backoff!Doubled(n + 1) = 2 * Backoff!Doubled(n)
<1>1. PICK g : Doubles(g, n) /\ Backoff!Doubled(n) = g[n]
  BY DoubledIs
<1>2. PICK h : Doubles(h, n + 1) /\ Backoff!Doubled(n + 1) = h[n + 1]
  BY DoubledIs
<1> DEFINE P == {i \in 0..n : h[i] = g[i]}
<1>3. 0 \in P
  BY <1>1, <1>2 DEF Doubles
<1>4. ASSUME NEW i \in 1..n, i - 1 \in P PROVE i \in P
  <2>1. i \in 1..(n + 1) /\ i \in 0..n
    OBVIOUS
  <2>2. h[i] = 2 * h[i - 1] /\ g[i] = 2 * g[i - 1]
    BY <1>1, <1>2, <2>1 DEF Doubles
  <2> QED BY <1>4, <2>1, <2>2
<1> HIDE DEF P
<1>5. \A i \in 0..n : i \in P
  BY <1>3, <1>4, UpTo
<1>6. h[n] = g[n]
  BY <1>5 DEF P
<1>7. h[n + 1] = 2 * h[n]
  <2>1. n + 1 \in 1..(n + 1) /\ (n + 1) - 1 = n
    OBVIOUS
  <2> QED BY <1>2, <2>1 DEF Doubles
<1> QED BY <1>1, <1>2, <1>6, <1>7

-----------------------------------------------------------------------------
\* What Delay returns: between half of the documented delay and all of it.
LEMMA JitterIs ==
  ASSUME NEW d \in Nat, NEW sample \in Backoff!Samples
  PROVE  /\ Backoff!Jittered(d, sample) \in d \div 2 .. d
         /\ Backoff!Jittered(d, 4) = d
<1>1. PICK h \in Nat : h = d \div 2 /\ (d = 2 * h \/ d = 2 * h + 1)
  OBVIOUS
<1>2. PICK r \in Nat : r = d - h
  BY <1>1
<1>3. (r * 4) \div 4 = r
  OBVIOUS
<1>4. (r * sample) \div 4 \in 0..r
  <2>1. CASE sample = 0
    BY <2>1
  <2>2. CASE sample = 1
    BY <2>2
  <2>3. CASE sample = 2
    BY <2>3
  <2>4. CASE sample = 3
    BY <2>4
  <2>5. CASE sample = 4
    BY <2>5
  <2> QED BY <2>1, <2>2, <2>3, <2>4, <2>5 DEF Backoff!Samples
<1>5. Backoff!Jittered(d, sample) = h + (r * sample) \div 4 /\ Backoff!Jittered(d, 4) = h + (r * 4) \div 4
  BY <1>1, <1>2 DEF Backoff!Jittered
<1> QED BY <1>1, <1>2, <1>3, <1>4, <1>5

\* The delay that f failures in a row stand for, jitter aside.
Documented(f) ==
    IF f >= settings.cooldownAfter THEN settings.cooldown
    ELSE Backoff!Least(Backoff!Doubled(f - 1), settings.max)

LEMMA DocumentedIs ==
  ASSUME settings \in RetrySettings, NEW f \in Nat \ {0}
  PROVE  Documented(f) \in Nat /\ Documented(f + 1) >= Documented(f)
<1>1. PICK m \in Nat, c \in Nat, k \in Nat :
          m = settings.max /\ c = settings.cooldown /\ k = settings.cooldownAfter /\ m <= c
  BY SettingsAre
<1>2. PICK y \in Nat \ {0} : y = Backoff!Doubled(f - 1)
  BY LoopDoubles
<1>3. Backoff!Doubled(f) = 2 * y
  <2>1. f - 1 \in Nat /\ (f - 1) + 1 = f
    OBVIOUS
  <2> QED BY <1>2, <2>1, DoubledOnce
<1>4. Documented(f) = IF f >= k THEN c ELSE Backoff!Least(y, m)
  BY <1>1, <1>2 DEF Documented
<1>5. Documented(f + 1) = IF f + 1 >= k THEN c ELSE Backoff!Least(2 * y, m)
  <2>1. (f + 1) - 1 = f
    OBVIOUS
  <2> QED BY <1>1, <1>3, <2>1 DEF Documented
<1> QED BY <1>1, <1>4, <1>5 DEF Backoff!Least

LEMMA DelayIs ==
  ASSUME settings \in RetrySettings, NEW f \in Nat \ {0}, NEW sample \in Backoff!Samples
  PROVE  /\ Backoff!Delay(f, 4) = Documented(f)
         /\ Backoff!Delay(f, sample) \in Documented(f) \div 2 .. Documented(f)
<1>1. PICK c \in Nat : c = settings.cooldown
  BY SettingsAre
<1>2. CASE f >= settings.cooldownAfter
  <2>1. Backoff!Delay(f, 4) = c /\ Backoff!Delay(f, sample) = c /\ Documented(f) = c
    BY <1>1, <1>2 DEF Backoff!Delay, Documented
  <2> QED BY <2>1
<1>3. CASE ~(f >= settings.cooldownAfter)
  <2>1. PICK m \in Nat : m = settings.max
    BY SettingsAre
  <2>2. PICK y \in Nat \ {0} : y = Backoff!Doubled(f - 1) /\ Backoff!Looped(f - 1) = Backoff!Least(y, m)
    BY <2>1, LoopDoubles
  <2>3. PICK d \in Nat : d = Backoff!Least(y, m)
    BY DEF Backoff!Least
  <2>4. Documented(f) = d
    BY <1>3, <2>1, <2>2, <2>3 DEF Documented
  <2>5. Backoff!Least(Backoff!Looped(f - 1), settings.max) = d
    BY <2>1, <2>2, <2>3 DEF Backoff!Least
  <2>6. Backoff!Delay(f, 4) = Backoff!Jittered(d, 4) /\ Backoff!Delay(f, sample) = Backoff!Jittered(d, sample)
    BY <1>3, <2>5 DEF Backoff!Delay
  <2> QED BY <2>4, <2>6, JitterIs
<1> QED BY <1>2, <1>3

-----------------------------------------------------------------------------
BackoffInv ==
    /\ settings \in RetrySettings
    /\ failures \in Nat
    /\ failures = 0 => longest = 0 /\ delay = 0
    /\ failures > 0 => longest = Documented(failures) /\ delay \in longest \div 2 .. longest

LEMMA BackoffStarts == Backoff!Init => BackoffInv
BY DEF Backoff!Init, BackoffInv, RetrySettings

LEMMA BackoffKeeps ==
  ASSUME BackoffInv, Backoff!Next
  PROVE  BackoffInv' /\ Backoff!NeverEases
<1>1. settings' = settings /\ settings \in RetrySettings /\ failures \in Nat
  BY DEF BackoffInv, Backoff!Next, Backoff!Failure, Backoff!Reset
<1>2. RetrySettings' = RetrySettings
  BY DEF RetrySettings
<1>3. CASE Backoff!Reset
  <2>1. failures' = 0 /\ delay' = 0 /\ longest' = 0
    BY <1>3 DEF Backoff!Reset
  <2> QED BY <1>1, <1>2, <2>1 DEF BackoffInv, Backoff!NeverEases
<1>4. CASE Backoff!Failure
  <2>1. failures' = failures + 1 /\ longest' = Backoff!Delay(failures', 4)
    BY <1>4 DEF Backoff!Failure
  <2>2. PICK sample \in Backoff!Samples : delay' = Backoff!Delay(failures', sample)
    BY <1>4 DEF Backoff!Failure
  <2>3. PICK f \in Nat \ {0} : f = failures' /\ f = failures + 1
    BY <1>1, <2>1
  <2>4. longest' = Documented(f) /\ delay' \in Documented(f) \div 2 .. Documented(f)
    BY <1>1, <2>1, <2>2, <2>3, DelayIs
  <2>5. PICK n \in Nat : n = Documented(f)
    BY <1>1, DocumentedIs
  <2>6. Documented(failures)' = Documented(f)
    BY <1>1, <2>3 DEF Documented, Backoff!Doubled
  <2>7. BackoffInv'
    BY <1>1, <1>2, <2>3, <2>4, <2>5, <2>6 DEF BackoffInv
  <2>8. longest' >= longest /\ delay' >= delay \div 2
    <3>1. CASE failures = 0
      BY <2>4, <2>5, <3>1 DEF BackoffInv
    <3>2. CASE failures # 0
      <4>1. PICK o \in Nat : o = longest /\ o = Documented(failures) /\ n >= o
        BY <1>1, <2>3, <2>5, <3>2, DocumentedIs DEF BackoffInv
      <4>2. delay \in o \div 2 .. o /\ delay' \in n \div 2 .. n
        BY <1>1, <2>4, <2>5, <3>2, <4>1 DEF BackoffInv
      <4> QED BY <2>4, <2>5, <4>1, <4>2
    <3> QED BY <3>1, <3>2
  <2> QED BY <2>7, <2>8 DEF Backoff!NeverEases
<1> QED BY <1>3, <1>4 DEF Backoff!Next

\* Whatever settings RetryConfig.Validate accepts and however wide a Duration is, the wait
\* after each failure in a row is the initial delay, doubled with every failure, capped, and
\* then the cooldown, less at most half of it for jitter; the loop of Delay (backoff.go)
\* never wraps around and never brings the next attempt closer.
THEOREM DelayIsRightHolds == Spec => DelayIsRight
<1> DEFINE Inv == part = "backoff" => BackoffInv
<1>1. Init => Inv
  BY BackoffStarts DEF Init
<1>2. Inv /\ [Next]_vars => Inv' /\ [part = "backoff" => Backoff!NeverEases]_vars
  <2> SUFFICES ASSUME Inv, [Next]_vars PROVE Inv' /\ [part = "backoff" => Backoff!NeverEases]_vars
    OBVIOUS
  <2>1. CASE UNCHANGED vars
    <3>1. part' = part /\ UNCHANGED <<settings, failures, delay, longest>>
      BY <2>1 DEF vars, backoff
    <3>2. Inv'
      BY <3>1 DEF BackoffInv, RetrySettings, Documented, Backoff!Doubled
    <3> QED BY <2>1, <3>2
  <2>2. CASE Next
    <3>1. part' = part
      BY <2>2 DEF Next
    <3>2. part = "backoff" => Backoff!Next
      BY <2>2 DEF Next
    <3> QED BY <3>1, <3>2, BackoffKeeps
  <2> QED BY <2>1, <2>2
<1>3. Inv => (part = "backoff" => Backoff!IsExponential)
  BY DEF BackoffInv, Backoff!IsExponential, Documented
<1> QED BY <1>1, <1>2, <1>3, PTL DEF Spec, DelayIsRight

-----------------------------------------------------------------------------
(***************************************************************************)
(* The configuration: what Load and ResolveScaleSets make of its layers,   *)
(* and what the checks of runManager say of the sets it starts with.       *)
(***************************************************************************)

\* The sums that Total forms.
Adds(g, n, a) ==
    /\ g = [i \in 0..n |-> g[i]]
    /\ g[0] = 0
    /\ \A i \in 1..n : g[i] = g[i - 1] + a[i]

LEMMA TotalIs ==
  ASSUME NEW n \in Nat, NEW a \in [1..n -> Int]
  PROVE  \E g \in [0..n -> Int] : Adds(g, n, a) /\ Rules!Total(a) = g[n]
<1> DEFINE next == [x \in (1..n) \X Int |-> x[2] + a[x[1]]]
<1>1. next \in [(1..n) \X Int -> Int] /\ 0 \in Int
  OBVIOUS
<1>2. PICK g \in [0..n -> Int] : Repeats(g, n, 0, next)
  <2> HIDE DEF next
  <2> QED BY <1>1, Repeated
<1>3. g[0] = 0 /\ \A i \in 1..n : g[i] = next[<<i, g[i - 1]>>]
  BY <1>2 DEF Repeats
<1>4. \A i \in 1..n : g[i] = g[i - 1] + a[i]
  <2> SUFFICES ASSUME NEW i \in 1..n PROVE g[i] = g[i - 1] + a[i]
    OBVIOUS
  <2>1. i - 1 \in 0..n
    OBVIOUS
  <2>2. g[i - 1] \in Int
    BY <1>2, <2>1
  <2> QED BY <1>3, <2>2
<1>5. g = [i \in 0..n |-> IF i = 0 THEN 0 ELSE g[i - 1] + a[i]]
  <2>1. ASSUME NEW i \in 0..n PROVE g[i] = IF i = 0 THEN 0 ELSE g[i - 1] + a[i]
    BY <1>3, <1>4
  <2>2. g = [i \in 0..n |-> g[i]]
    BY <1>2
  <2> QED BY <2>1, <2>2
<1>6. Len(a) = n
  BY LenProperties, SeqDef
<1> DEFINE upTo[i \in 0..n] == IF i = 0 THEN 0 ELSE upTo[i - 1] + a[i]
<1>7. upTo = [i \in 0..n |-> IF i = 0 THEN 0 ELSE upTo[i - 1] + a[i]]
  <2>1. \E h : h = [i \in 0..n |-> IF i = 0 THEN 0 ELSE h[i - 1] + a[i]]
    BY <1>5
  <2> QED BY <2>1, Zenon
<1>8. Rules!Total(a) = upTo[n]
  BY <1>6 DEF Rules!Total
<1> HIDE DEF upTo
<1>9. \A i \in 0..n : upTo[i] = g[i]
  <2> DEFINE P == {i \in 0..n : upTo[i] = g[i]}
  <2>1. 0 \in P
    BY <1>3, <1>7
  <2>2. ASSUME NEW i \in 1..n, i - 1 \in P PROVE i \in P
    BY <1>4, <1>7, <2>2
  <2> HIDE DEF P
  <2>3. \A i \in 0..n : i \in P
    BY <2>1, <2>2, UpTo
  <2> QED BY <2>3 DEF P
<1>10. Adds(g, n, a)
  BY <1>2, <1>3, <1>4 DEF Adds
<1> QED BY <1>8, <1>9, <1>10

LEMMA TotalGrows ==
  ASSUME NEW n \in Nat, NEW a \in [1..n -> Int], NEW b \in [1..n -> Int], \A i \in 1..n : a[i] <= b[i]
  PROVE  Rules!Total(a) <= Rules!Total(b)
<1>1. PICK g \in [0..n -> Int] : Adds(g, n, a) /\ Rules!Total(a) = g[n]
  BY TotalIs
<1>2. PICK h \in [0..n -> Int] : Adds(h, n, b) /\ Rules!Total(b) = h[n]
  BY TotalIs
<1> DEFINE P == {i \in 0..n : g[i] <= h[i]}
<1>3. 0 \in P
  BY <1>1, <1>2 DEF Adds
<1>4. ASSUME NEW i \in 1..n, i - 1 \in P PROVE i \in P
  <2>1. i - 1 \in 0..n /\ i \in 0..n
    OBVIOUS
  <2>2. PICK x \in Int, y \in Int : x = g[i - 1] /\ y = h[i - 1] /\ x <= y
    BY <1>4, <2>1
  <2>3. PICK u \in Int, v \in Int : u = a[i] /\ v = b[i] /\ u <= v
    OBVIOUS
  <2>4. g[i] = x + u /\ h[i] = y + v
    BY <1>1, <1>2, <2>2, <2>3 DEF Adds
  <2> QED BY <2>1, <2>2, <2>3, <2>4
<1> HIDE DEF P
<1>5. \A i \in 0..n : i \in P
  BY <1>3, <1>4, UpTo
<1> QED BY <1>1, <1>2, <1>5 DEF P

LEMMA TextsAndNumbers ==
  /\ Rules!Keys = Rules!Texts \cup Rules!Numbers
  /\ {"name", "token", "app", "provider"} = Rules!Texts
  /\ {"min-runners", "max-runners", "pool-size", "memory"} = Rules!Numbers
  /\ Rules!Texts \cap Rules!Numbers = {}
BY DEF Rules!Keys, Rules!Texts, Rules!Numbers

LEMMA ZeroIs ==
  (\A k \in Rules!Texts : Rules!Zero[k] = "") /\ (\A k \in Rules!Numbers : Rules!Zero[k] = 0)
BY TextsAndNumbers DEF Rules!Zero

LEMMA ValueIs ==
  ASSUME NEW layer, Rules!IsLayer(layer)
  PROVE  \A k \in Rules!Numbers : Rules!Value(layer, k) \in Int
<1>1. \A k \in Rules!Numbers : k \in Rules!Keys
  BY TextsAndNumbers
<1> SUFFICES ASSUME NEW k \in Rules!Numbers PROVE Rules!Value(layer, k) \in Int
  OBVIOUS
<1>2. CASE layer[k] = <<>>
  <2>1. Rules!Zero[k] = 0
    BY ZeroIs, Zenon
  <2> QED BY <1>2, <2>1 DEF Rules!Value
<1>3. CASE layer[k] # <<>>
  BY <1>1, <1>3 DEF Rules!IsLayer, Rules!Value
<1> QED BY <1>2, <1>3

LEMMA MergedIs ==
  ASSUME NEW base, NEW over, Rules!IsLayer(base), Rules!IsLayer(over)
  PROVE  /\ Rules!IsLayer(Rules!deepMerge(base, over))
         /\ \A k \in Rules!Keys : Rules!deepMerge(base, over)[k] = IF over[k] = <<>> THEN base[k] ELSE over[k]
BY TextsAndNumbers DEF Rules!IsLayer, Rules!deepMerge

LEMMA DefaultsAre ==
  ASSUME Rules!RulesAssumption
  PROVE  /\ Rules!IsLayer(Rules!builtinDefaults)
         /\ \A k \in {"app", "token", "memory", "pool-size"} : Rules!builtinDefaults[k] = <<>>
<1> DEFINE d == Rules!builtinDefaults
<1>1. Rules!Nothing = [k \in Rules!Keys |-> <<>>]
  BY DEF Rules!Nothing
<1>2. d = [k \in Rules!Keys |-> d[k]]
  BY <1>1 DEF Rules!builtinDefaults
<1>3. /\ \A k \in Rules!Keys \ {"max-runners", "provider"} : d[k] = <<>>
      /\ d["max-runners"] = <<10>> /\ d["provider"] = <<"docker">>
  BY <1>1, TextsAndNumbers DEF Rules!builtinDefaults
<1> HIDE DEF d
<1>4. \A k \in Rules!Keys : d[k] = <<>> \/ d[k] = <<d[k][1]>>
  BY <1>3
<1>5. \A k \in Rules!Numbers : d[k] # <<>> => d[k][1] \in Int
  BY <1>3, TextsAndNumbers
<1>6. Rules!IsLayer(d)
  BY <1>2, <1>4, <1>5 DEF Rules!IsLayer
<1>7. \A k \in {"app", "token", "memory", "pool-size"} : d[k] = <<>>
  BY <1>3, TextsAndNumbers
<1> QED BY <1>6, <1>7 DEF d

LEMMA PassedOnIs ==
  ASSUME NEW layer, Rules!IsLayer(layer)
  PROVE  /\ Rules!IsLayer(Rules!scalesetDefaults(layer))
         /\ Rules!scalesetDefaults(layer)["app"] = <<>> /\ Rules!scalesetDefaults(layer)["token"] = <<>>
<1>1. {"app", "token"} \subseteq Rules!identityKeys
  BY DEF Rules!identityKeys
<1> QED BY <1>1, TextsAndNumbers DEF Rules!IsLayer, Rules!scalesetDefaults

LEMMA ResolvedIs ==
  ASSUME NEW layer
  PROVE  LET ss == Rules!Decoded(layer)
             r == Rules!Resolved(ss)
         IN  /\ r.app = layer["app"]
             /\ r.min = Rules!Value(layer, "min-runners") /\ r.max = Rules!Value(layer, "max-runners")
             /\ r.pool = Rules!Value(layer, "pool-size") /\ r.memory = Rules!Value(layer, "memory")
             /\ r.token = Rules!resolveEnvToken(ss)
             /\ ss.app = layer["app"] /\ ss.token = Rules!Value(layer, "token")
BY Zenon DEF Rules!Resolved, Rules!Decoded

LEMMA WrittenKept ==
  ASSUME UNCHANGED Rules!written
  PROVE  /\ Rules!ResolveScaleSets' = Rules!ResolveScaleSets
         /\ Rules!Accepted' <=> Rules!Accepted
         /\ Rules!Warnings' <=> Rules!Warnings
         /\ Rules!ValidateGlobal' <=> Rules!ValidateGlobal
<1>1. top' = top /\ entries' = entries /\ concurrent' = concurrent /\ disk' = disk /\ env' = env
  BY DEF Rules!written
<1>2. Rules!Load' = Rules!Load
  BY <1>1 DEF Rules!Load
<1>3. Rules!ResolveScaleSets' = Rules!ResolveScaleSets
  BY <1>1, <1>2 DEF Rules!ResolveScaleSets, Rules!Resolved, Rules!resolveEnvToken
<1>4. Rules!Warnings' <=> Rules!Warnings
  BY <1>1 DEF Rules!Warnings
<1>5. Rules!MinFree' = Rules!MinFree /\ Rules!TargetFree' = Rules!TargetFree
  BY <1>1 DEF Rules!MinFree, Rules!TargetFree
<1>6. Rules!validateDisk' <=> Rules!validateDisk
  BY <1>5 DEF Rules!validateDisk
<1>7. Rules!ValidateGlobal' <=> Rules!ValidateGlobal
  BY <1>1, <1>6 DEF Rules!ValidateGlobal
<1>8. Rules!Accepted' <=> Rules!Accepted
  BY <1>1, <1>3, <1>7 DEF Rules!Accepted, Rules!ValidateConcurrent
<1> QED BY <1>3, <1>4, <1>7, <1>8

\* The configuration as written is one of those assumed.
Configured ==
    Rules!IsCase([top |-> top, entries |-> entries, concurrent |-> concurrent, disk |-> disk, env |-> env])

Count == IF entries = <<>> THEN 1 ELSE Len(entries)

Own(i) == IF entries = <<>> THEN top ELSE entries[i]

\* The layers of a scale set, merged.
Layer(i) ==
    IF entries = <<>> THEN Rules!deepMerge(Rules!builtinDefaults, top)
    ELSE Rules!deepMerge(Rules!deepMerge(Rules!builtinDefaults, Rules!scalesetDefaults(top)), entries[i])

LEMMA EntriesAre ==
  ASSUME Configured
  PROVE  /\ Rules!IsLayer(top) /\ concurrent \in Int
         /\ Count \in Nat \ {0}
         /\ \A i \in 1..Count : Rules!IsLayer(Own(i))
         /\ entries # <<>> => Count = Len(entries) /\ DOMAIN entries = 1..Count
         /\ entries = <<>> => DOMAIN entries = {}
         /\ \A i \in 1..Count : entries # <<>> => Own(i) = entries[i]
<1>1. /\ Rules!IsLayer(top) /\ concurrent \in Int /\ Len(entries) \in Nat
      /\ entries = [i \in 1..Len(entries) |-> entries[i]]
      /\ \A i \in 1..Len(entries) : Rules!IsLayer(entries[i])
  BY DEF Configured, Rules!IsCase
<1>2. DOMAIN entries = 1..Len(entries)
  BY <1>1
<1>3. CASE entries = <<>>
  BY <1>1, <1>2, <1>3 DEF Count, Own
<1>4. CASE entries # <<>>
  <2>1. Len(entries) # 0
    <3>1. entries \in [1..Len(entries) -> {entries[i] : i \in 1..Len(entries)}]
      BY <1>1
    <3>2. entries \in Seq({entries[i] : i \in 1..Len(entries)})
      BY <1>1, <3>1, SeqDef
    <3> QED BY <1>4, <3>2, EmptySeq
  <2> QED BY <1>1, <1>2, <1>4, <2>1 DEF Count, Own
<1> QED BY <1>3, <1>4

LEMMA LayerIs ==
  ASSUME Rules!RulesAssumption, Configured, NEW i \in 1..Count
  PROVE  /\ Rules!IsLayer(Layer(i))
         /\ \A k \in {"app", "token"} : Layer(i)[k] = Own(i)[k]
         /\ \A k \in {"memory", "pool-size"} : Own(i)[k] # <<>> => Layer(i)[k] = Own(i)[k]
<1>1. Rules!IsLayer(Own(i)) /\ Rules!IsLayer(top)
  BY EntriesAre
<1>2. {"app", "token", "memory", "pool-size"} \subseteq Rules!Keys
  BY TextsAndNumbers
<1>3. /\ Rules!IsLayer(Rules!builtinDefaults)
      /\ \A k \in {"app", "token", "memory", "pool-size"} : Rules!builtinDefaults[k] = <<>>
  BY DefaultsAre
<1>4. CASE entries = <<>>
  <2> DEFINE merged == Rules!deepMerge(Rules!builtinDefaults, top)
  <2>1. /\ Rules!IsLayer(merged)
        /\ \A k \in Rules!Keys : merged[k] = IF top[k] = <<>> THEN Rules!builtinDefaults[k] ELSE top[k]
    BY <1>1, <1>3, MergedIs
  <2>2. Layer(i) = merged /\ Own(i) = top
    BY <1>4 DEF Layer, Own
  <2> HIDE DEF merged
  <2> QED BY <1>2, <1>3, <2>1, <2>2
<1>5. CASE entries # <<>>
  <2> DEFINE passed == Rules!scalesetDefaults(top)
             base == Rules!deepMerge(Rules!builtinDefaults, passed)
             merged == Rules!deepMerge(base, entries[i])
  <2>1. Rules!IsLayer(passed) /\ passed["app"] = <<>> /\ passed["token"] = <<>>
    BY <1>1, PassedOnIs
  <2>2. /\ Rules!IsLayer(base)
        /\ \A k \in Rules!Keys : base[k] = IF passed[k] = <<>> THEN Rules!builtinDefaults[k] ELSE passed[k]
    BY <1>3, <2>1, MergedIs
  <2>3. Own(i) = entries[i]
    BY <1>5 DEF Own
  <2>4. /\ Rules!IsLayer(merged)
        /\ \A k \in Rules!Keys : merged[k] = IF entries[i][k] = <<>> THEN base[k] ELSE entries[i][k]
    BY <1>1, <2>2, <2>3, MergedIs
  <2>5. Layer(i) = merged
    BY <1>5 DEF Layer
  <2> HIDE DEF passed, base, merged
  <2>6. base["app"] = <<>> /\ base["token"] = <<>>
    BY <1>2, <1>3, <2>1, <2>2
  <2> QED BY <1>2, <2>3, <2>4, <2>5, <2>6
<1> QED BY <1>4, <1>5

\* The scale sets the process starts with, one by one.
LEMMA ResolvedSets ==
  ASSUME Rules!RulesAssumption, Configured
  PROVE  LET s == Rules!ResolveScaleSets
         IN  /\ s = [i \in 1..Count |-> s[i]]
             /\ \A i \in 1..Count :
                    /\ s[i].min \in Int /\ s[i].max \in Int /\ s[i].pool \in Int /\ s[i].memory \in Int
                    /\ s[i].app = Own(i)["app"]
                    /\ s[i].token \in {Rules!Value(Own(i), "token"), env.RUNNER_TOKEN, env.reference}
                    /\ Own(i)["memory"] # <<>> => <<s[i].memory>> = Own(i)["memory"]
                    /\ Own(i)["pool-size"] # <<>> => <<s[i].pool>> = Own(i)["pool-size"]
<1>1. Rules!Load = [i \in 1..Count |-> Rules!Decoded(Layer(i))]
  <2>1. CASE entries = <<>>
    BY <2>1 DEF Rules!Load, Count, Layer
  <2>2. CASE entries # <<>>
    BY <2>2 DEF Rules!Load, Count, Layer
  <2> QED BY <2>1, <2>2
<1> DEFINE s == Rules!ResolveScaleSets
<1>2. s = [i \in 1..Count |-> Rules!Resolved(Rules!Decoded(Layer(i)))]
  BY <1>1 DEF Rules!ResolveScaleSets
<1>3. ASSUME NEW i \in 1..Count
      PROVE  /\ s[i].min \in Int /\ s[i].max \in Int /\ s[i].pool \in Int /\ s[i].memory \in Int
             /\ s[i].app = Own(i)["app"]
             /\ s[i].token \in {Rules!Value(Own(i), "token"), env.RUNNER_TOKEN, env.reference}
             /\ Own(i)["memory"] # <<>> => <<s[i].memory>> = Own(i)["memory"]
             /\ Own(i)["pool-size"] # <<>> => <<s[i].pool>> = Own(i)["pool-size"]
  <2> DEFINE l == Layer(i)
             ss == Rules!Decoded(l)
             r == Rules!Resolved(ss)
  <2>1. s[i] = r
    BY <1>2
  <2>2. /\ Rules!IsLayer(l)
        /\ \A k \in {"app", "token"} : l[k] = Own(i)[k]
        /\ \A k \in {"memory", "pool-size"} : Own(i)[k] # <<>> => l[k] = Own(i)[k]
    BY LayerIs
  <2>3. /\ r.app = l["app"]
        /\ r.min = Rules!Value(l, "min-runners") /\ r.max = Rules!Value(l, "max-runners")
        /\ r.pool = Rules!Value(l, "pool-size") /\ r.memory = Rules!Value(l, "memory")
        /\ r.token = Rules!resolveEnvToken(ss)
        /\ ss.app = l["app"] /\ ss.token = Rules!Value(l, "token")
    BY ResolvedIs
  <2>4. /\ Rules!Value(l, "min-runners") \in Int /\ Rules!Value(l, "max-runners") \in Int
        /\ Rules!Value(l, "pool-size") \in Int /\ Rules!Value(l, "memory") \in Int
    BY <2>2, ValueIs, TextsAndNumbers
  <2> HIDE DEF s, l, ss, r
  <2>5. s[i].min \in Int /\ s[i].max \in Int /\ s[i].pool \in Int /\ s[i].memory \in Int
    BY <2>1, <2>3, <2>4
  <2>6. s[i].app = Own(i)["app"]
    BY <2>1, <2>2, <2>3
  <2>7. Rules!Value(l, "token") = Rules!Value(Own(i), "token")
    BY <2>2 DEF Rules!Value
  <2>8. r.token \in {ss.token, env.RUNNER_TOKEN, env.reference}
    BY <2>3 DEF Rules!resolveEnvToken
  <2>9. s[i].token \in {Rules!Value(Own(i), "token"), env.RUNNER_TOKEN, env.reference}
    BY <2>1, <2>3, <2>7, <2>8
  <2>10. \A k \in {"memory", "pool-size"} : k \in Rules!Keys
    BY TextsAndNumbers
  <2>11. \A k \in {"memory", "pool-size"} : l[k] = <<>> \/ l[k] = <<l[k][1]>>
    BY <2>2, <2>10 DEF Rules!IsLayer
  <2>12. \A k \in {"memory", "pool-size"} : l[k] # <<>> => <<Rules!Value(l, k)>> = l[k]
    BY <2>11 DEF Rules!Value
  <2>13. Own(i)["memory"] # <<>> => <<s[i].memory>> = Own(i)["memory"]
    BY <2>1, <2>2, <2>3, <2>12
  <2>14. Own(i)["pool-size"] # <<>> => <<s[i].pool>> = Own(i)["pool-size"]
    BY <2>1, <2>2, <2>3, <2>12
  <2> QED BY <2>5, <2>6, <2>9, <2>13, <2>14
<1>4. s = [i \in 1..Count |-> s[i]]
  BY <1>2
<1> QED BY <1>3, <1>4 DEF s

RulesInv ==
    /\ Configured
    /\ stage \in {"written", "running", "refused"} /\ validated \in {"not", "ok", "failed"}
    /\ stage = "running" => Rules!Accepted /\ sets = Rules!ResolveScaleSets
    /\ stage # "running" => sets = <<>>
    /\ stage = "refused" => ~Rules!Accepted
    /\ validated = "ok" =>
           /\ Rules!ValidateGlobal /\ Rules!AllValid(Rules!ResolveScaleSets)
           /\ Rules!validateScaleSetCollection(Rules!ResolveScaleSets)

LEMMA StartedSets ==
  ASSUME Rules!RulesAssumption, RulesInv, stage = "running"
  PROVE  /\ sets = [i \in 1..Count |-> sets[i]] /\ DOMAIN sets = 1..Count /\ Count \in Nat \ {0}
         /\ \A i \in 1..Count :
                /\ sets[i].min \in Int /\ sets[i].max \in Int /\ sets[i].memory \in Int
                /\ sets[i].app = Own(i)["app"]
                /\ sets[i].token \in {Rules!Value(Own(i), "token"), env.RUNNER_TOKEN, env.reference}
                /\ Own(i)["memory"] # <<>> => <<sets[i].memory>> = Own(i)["memory"]
                /\ Own(i)["pool-size"] # <<>> => <<sets[i].pool>> = Own(i)["pool-size"]
         /\ \A i \in 1..Count : Rules!Validate(sets[i])
<1> DEFINE s == Rules!ResolveScaleSets
<1>1. Configured /\ Rules!Accepted /\ sets = s
  BY DEF RulesInv
<1>2. /\ s = [i \in 1..Count |-> s[i]]
      /\ \A i \in 1..Count :
             /\ s[i].min \in Int /\ s[i].max \in Int /\ s[i].pool \in Int /\ s[i].memory \in Int
             /\ s[i].app = Own(i)["app"]
             /\ s[i].token \in {Rules!Value(Own(i), "token"), env.RUNNER_TOKEN, env.reference}
             /\ Own(i)["memory"] # <<>> => <<s[i].memory>> = Own(i)["memory"]
             /\ Own(i)["pool-size"] # <<>> => <<s[i].pool>> = Own(i)["pool-size"]
  BY <1>1, ResolvedSets
<1>3. Rules!AllValid(s)
  BY <1>1 DEF Rules!Accepted
<1>4. Count \in Nat \ {0}
  BY <1>1, EntriesAre
<1> HIDE DEF s
<1>5. DOMAIN s = 1..Count
  BY <1>2
<1>6. \A i \in 1..Count : Rules!Validate(s[i])
  BY <1>3, <1>5 DEF Rules!AllValid
<1> QED BY <1>1, <1>2, <1>4, <1>5, <1>6

LEMMA StartedTypes ==
  ASSUME Rules!RulesAssumption, RulesInv
  PROVE  Rules!TypeOK
<1>1. CASE stage = "running"
  <2>1. DOMAIN sets = 1..Count /\ Count \in Nat \ {0}
    BY <1>1, StartedSets
  <2>2. sets # <<>>
    <3>1. 1 \in DOMAIN sets
      BY <2>1
    <3>2. 1 \notin DOMAIN <<>>
      OBVIOUS
    <3> QED BY <3>1, <3>2
  <2>3. ASSUME NEW i \in 1..Count
        PROVE  /\ sets[i].provider \in {"docker", "tart"} /\ sets[i].min \in 0..sets[i].max
               /\ sets[i].provider = "docker" => sets[i].memory \in Nat
    <3>1. /\ sets[i].min \in Int /\ sets[i].max \in Int /\ sets[i].memory \in Int
          /\ Rules!Validate(sets[i])
      BY <1>1, StartedSets
    <3>2. /\ sets[i].min >= 0 /\ sets[i].min <= sets[i].max
          /\ \/ sets[i].provider = "docker" /\ sets[i].memory >= 0
             \/ sets[i].provider = "tart"
      BY <3>1 DEF Rules!Validate
    <3>3. sets[i].min \in 0..sets[i].max
      BY <3>1, <3>2
    <3>4. sets[i].memory >= 0 => sets[i].memory \in Nat
      BY <3>1
    <3> QED BY <3>2, <3>3, <3>4
  <2> QED BY <1>1, <2>1, <2>2, <2>3 DEF Rules!TypeOK, RulesInv
<1>2. CASE stage # "running"
  <2>1. sets = <<>> /\ DOMAIN sets = {}
    BY <1>2 DEF RulesInv
  <2> QED BY <1>2, <2>1 DEF Rules!TypeOK, RulesInv
<1> QED BY <1>1, <1>2

LEMMA MinimumsFit ==
  ASSUME Rules!RulesAssumption, RulesInv
  PROVE  Rules!MinimumsFitTheLimit
<1> SUFFICES ASSUME stage = "running"
             PROVE  Rules!Total(Rules!MinOf(sets)) <= Rules!EffectiveConcurrent(sets)
  BY DEF Rules!MinimumsFitTheLimit
<1>1. /\ DOMAIN sets = 1..Count /\ Count \in Nat \ {0}
      /\ \A i \in 1..Count : sets[i].min \in Int /\ sets[i].max \in Int /\ Rules!Validate(sets[i])
  BY StartedSets
<1> DEFINE a == Rules!MinOf(sets)
           b == Rules!MaxOf(sets)
<1>2. a \in [1..Count -> Int] /\ b \in [1..Count -> Int]
  BY <1>1 DEF Rules!MinOf, Rules!MaxOf
<1>3. \A i \in 1..Count : a[i] <= b[i]
  BY <1>1 DEF Rules!MinOf, Rules!MaxOf, Rules!Validate
<1>4. /\ concurrent \in Int /\ concurrent >= 0
      /\ concurrent = 0 \/ Rules!Total(a) <= concurrent
  <2>1. concurrent \in Int
    BY EntriesAre DEF RulesInv
  <2>2. Rules!Accepted /\ sets = Rules!ResolveScaleSets
    BY DEF RulesInv
  <2>3. Rules!ValidateGlobal /\ Rules!ValidateConcurrent(sets)
    BY <2>2 DEF Rules!Accepted
  <2> QED BY <2>1, <2>3 DEF Rules!ValidateGlobal, Rules!ValidateConcurrent
<1> HIDE DEF a, b
<1>5. Rules!Total(a) <= Rules!Total(b)
  BY <1>1, <1>2, <1>3, TotalGrows
<1>6. Rules!EffectiveConcurrent(sets) = IF concurrent > 0 THEN concurrent ELSE Rules!Total(b)
  BY DEF Rules!EffectiveConcurrent, b
<1>7. Rules!Total(a) <= Rules!EffectiveConcurrent(sets)
  <2>1. CASE concurrent = 0
    BY <1>5, <1>6, <2>1
  <2>2. CASE concurrent > 0
    BY <1>4, <1>6, <2>2
  <2> QED BY <1>4, <2>1, <2>2
<1> QED BY <1>7 DEF a

LEMMA TartFits ==
  ASSUME RulesInv
  PROVE  Rules!TartFitsTheHost
<1>1. stage = "running" => Rules!Accepted /\ sets = Rules!ResolveScaleSets
  BY DEF RulesInv
<1> QED BY <1>1 DEF Rules!TartFitsTheHost, Rules!Accepted, Rules!validateScaleSetCollection

LEMMA CredentialsAreOwn ==
  ASSUME Rules!RulesAssumption, RulesInv
  PROVE  Rules!OwnCredential
<1> SUFFICES ASSUME stage = "running", NEW i \in DOMAIN sets
             PROVE  /\ sets[i].app = Own(i)["app"]
                    /\ (sets[i].app = <<>>) <=> (sets[i].token # "")
                    /\ sets[i].token \in {"", env.RUNNER_TOKEN, env.reference, Rules!Value(Own(i), "token")}
  BY DEF Rules!OwnCredential, Own
<1>1. /\ sets[i].app = Own(i)["app"]
      /\ sets[i].token \in {Rules!Value(Own(i), "token"), env.RUNNER_TOKEN, env.reference}
      /\ Rules!Validate(sets[i])
  BY StartedSets
<1>2. Rules!validateAuthentication(sets[i])
  BY <1>1 DEF Rules!Validate
<1> QED BY <1>1, <1>2 DEF Rules!validateAuthentication

LEMMA EntriesDecide ==
  ASSUME Rules!RulesAssumption, RulesInv
  PROVE  Rules!EntryDecides
<1> SUFFICES ASSUME stage = "running", NEW i \in DOMAIN entries
             PROVE  /\ entries[i]["memory"] # <<>> => <<sets[i].memory>> = entries[i]["memory"]
                    /\ entries[i]["pool-size"] # <<>> => <<sets[i].pool>> = entries[i]["pool-size"]
  BY DEF Rules!EntryDecides
<1>1. i \in 1..Count /\ entries # <<>> /\ Own(i) = entries[i]
  BY EntriesAre DEF RulesInv
<1>2. /\ Own(i)["memory"] # <<>> => <<sets[i].memory>> = Own(i)["memory"]
      /\ Own(i)["pool-size"] # <<>> => <<sets[i].pool>> = Own(i)["pool-size"]
  BY <1>1, StartedSets
<1> QED BY <1>1, <1>2

LEMMA ValidStarts ==
  ASSUME RulesInv
  PROVE  Rules!ValidatedStarts
BY DEF Rules!ValidatedStarts, RulesInv, Rules!Accepted

\* The part of a filesystem that a percentage stands for.
LEMMA PercentagesGrow ==
  ASSUME NEW n \in Nat, NEW m \in Nat, n < m, NEW total \in Nat, NEW w \in Nat \ {0}
  PROVE  /\ (n * total) \div w <= (m * total) \div w
         /\ (m - n) * total >= 2 * w => (n * total) \div w < (m * total) \div w
<1>1. PICK x \in Nat : x = n * total
  OBVIOUS
<1>2. PICK y \in Nat : y = m * total
  OBVIOUS
<1>3. PICK z \in Nat : z = (m - n) * total
  OBVIOUS
<1>4. y = x + z
  BY <1>1, <1>2, <1>3
<1>5. x \div w <= y \div w
  <2>1. PICK a \in Int, r \in 0..w - 1 : x = w * a + r /\ a = x \div w
    BY x \in Int
  <2>2. PICK b \in Int, t \in 0..w - 1 : y = w * b + t /\ b = y \div w
    BY y \in Int
  <2>3. SUFFICES ASSUME b < a PROVE FALSE
    BY <2>1, <2>2
  <2>4. w * (b + 1) <= w * a
    BY <2>3
  <2>5. w * (b + 1) = w * b + w
    OBVIOUS
  <2> QED BY <1>4, <2>1, <2>2, <2>4, <2>5
<1>6. z >= 2 * w => x \div w < y \div w
  <2> SUFFICES ASSUME z >= 2 * w PROVE x \div w < y \div w
    OBVIOUS
  <2>1. PICK a \in Int, r \in 0..w - 1 : x = w * a + r /\ a = x \div w
    BY x \in Int
  <2>2. PICK b \in Int, t \in 0..w - 1 : y = w * b + t /\ b = y \div w
    BY y \in Int
  <2>3. SUFFICES ASSUME b <= a PROVE FALSE
    BY <2>1, <2>2
  <2>4. w * b <= w * a
    BY <2>3
  <2> QED BY <1>4, <2>1, <2>2, <2>4
<1> QED BY <1>1, <1>2, <1>3, <1>5, <1>6

LEMMA ThresholdsAre ==
  ASSUME Rules!RulesAssumption, Configured, Rules!validateDisk
  PROVE  /\ Rules!MinFree \in Rules!Sizes /\ Rules!TargetFree \in Rules!Sizes
         /\ Rules!MinFree.n \in Nat /\ Rules!TargetFree.n \in Nat
<1>1. {Percent(10 * RulePrecision), Percent(20 * RulePrecision)} \subseteq Rules!Sizes
  BY DEF Rules!RulesAssumption
<1>2. \A t \in {disk.min, disk.target} : t = <<>> \/ (t = <<t[1]>> /\ t[1] \in Rules!Sizes)
  BY DEF Configured, Rules!IsCase
<1>3. Rules!MinFree \in Rules!Sizes /\ Rules!TargetFree \in Rules!Sizes
  BY <1>1, <1>2 DEF Rules!MinFree, Rules!TargetFree, Rules!OrDefault
<1>4. Rules!MinFree.n >= 0 /\ Rules!TargetFree.n >= 0
  BY DEF Rules!validateDisk, Rules!Parses
<1> QED BY <1>3, <1>4 DEF Rules!Sizes

LEMMA ThresholdBytes ==
  ASSUME Rules!RulesAssumption, NEW t \in Rules!Sizes, t.n \in Nat
  PROVE  LET p == Rules!ParseThreshold(t)
         IN  /\ p.percent \in Nat /\ p.bytes \in Nat
             /\ t.percent => p.percent = t.n /\ p.bytes = 0
             /\ ~t.percent => p.percent = 0
<1>1. RuleWord \in Nat \ {0} /\ t.unit \in Nat
  BY DEF Rules!RulesAssumption, Rules!Sizes
<1>2. PICK x \in Nat : x = t.n * t.unit
  BY <1>1
<1>3. x % RuleWord \in Nat
  BY <1>1, <1>2
<1> QED BY <1>2, <1>3 DEF Rules!ParseThreshold

LEMMA TargetIsAbove ==
  ASSUME Rules!RulesAssumption, RulesInv
  PROVE  Rules!TargetAboveTrigger
<1> DEFINE p == Rules!ParseThreshold(Rules!MinFree)
           q == Rules!ParseThreshold(Rules!TargetFree)
<1> SUFFICES ASSUME stage = "running", NEW total \in FilesystemSizes
             PROVE  /\ Rules!BytesOf(p, total) <= Rules!BytesOf(q, total)
                    /\ (Rules!MinFree.percent =>
                            (Rules!TargetFree.n - Rules!MinFree.n) * total >= 2 * Rules!Whole)
                         => Rules!BytesOf(p, total) < Rules!BytesOf(q, total)
  BY DEF Rules!TargetAboveTrigger
<1>1. total \in Nat /\ Rules!Whole \in Nat \ {0}
  BY DEF Rules!RulesAssumption, Rules!Whole
<1>2. Rules!validateDisk
  BY DEF RulesInv, Rules!Accepted, Rules!ValidateGlobal
<1>3. /\ Rules!MinFree \in Rules!Sizes /\ Rules!TargetFree \in Rules!Sizes
      /\ Rules!MinFree.n \in Nat /\ Rules!TargetFree.n \in Nat
  BY <1>2, ThresholdsAre DEF RulesInv
<1>4. /\ p.percent \in Nat /\ p.bytes \in Nat
      /\ Rules!MinFree.percent => p.percent = Rules!MinFree.n /\ p.bytes = 0
      /\ ~Rules!MinFree.percent => p.percent = 0
  BY <1>3, ThresholdBytes
<1>5. /\ q.percent \in Nat /\ q.bytes \in Nat
      /\ Rules!TargetFree.percent => q.percent = Rules!TargetFree.n /\ q.bytes = 0
      /\ ~Rules!TargetFree.percent => q.percent = 0
  BY <1>3, ThresholdBytes
<1>6. /\ Rules!MinFree.percent = Rules!TargetFree.percent
      /\ Rules!MinFree.percent => Rules!MinFree.n < Rules!TargetFree.n
      /\ ~Rules!MinFree.percent => p.bytes < q.bytes
  BY <1>2 DEF Rules!validateDisk
<1> HIDE DEF p, q
<1>7. CASE Rules!MinFree.percent
  <2> DEFINE w == Rules!Whole
  <2>1. Rules!BytesOf(p, total) = (p.percent * total) \div w
    BY <1>4, <1>7 DEF Rules!BytesOf
  <2>2. Rules!BytesOf(q, total) = (q.percent * total) \div w
    BY <1>5, <1>6, <1>7 DEF Rules!BytesOf
  <2> HIDE DEF w
  <2>3. PICK n \in Nat, m \in Nat : /\ n = p.percent /\ m = q.percent
                                    /\ n = Rules!MinFree.n /\ m = Rules!TargetFree.n /\ n < m
    BY <1>4, <1>5, <1>6, <1>7
  <2>4. w \in Nat \ {0} /\ w = Rules!Whole
    BY <1>1 DEF w
  <2>5. /\ (n * total) \div w <= (m * total) \div w
        /\ (m - n) * total >= 2 * w => (n * total) \div w < (m * total) \div w
    BY <1>1, <2>3, <2>4, PercentagesGrow
  <2> QED BY <1>7, <2>1, <2>2, <2>3, <2>4, <2>5
<1>8. CASE ~Rules!MinFree.percent
  <2>1. Rules!BytesOf(p, total) = p.bytes
    <3>1. (0 * total) \div Rules!Whole = 0
      BY <1>1
    <3> QED BY <1>4, <1>8, <3>1 DEF Rules!BytesOf
  <2>2. p.bytes < q.bytes
    BY <1>6, <1>8
  <2>3. Rules!BytesOf(q, total) = q.bytes
    BY <1>4, <1>5, <2>2 DEF Rules!BytesOf
  <2>4. p.bytes \in Nat /\ q.bytes \in Nat
    BY <1>4, <1>5
  <2> QED BY <2>1, <2>2, <2>3, <2>4
<1> QED BY <1>7, <1>8

LEMMA RulesStart ==
  ASSUME Rules!RulesAssumption, Rules!Init
  PROVE  RulesInv
<1>1. PICK c \in RuleCases : /\ top = c.top /\ entries = c.entries /\ concurrent = c.concurrent
                             /\ disk = c.disk /\ env = c.env
  BY DEF Rules!Init
<1>2. Rules!IsCase(c)
  BY DEF Rules!RulesAssumption
<1>3. Configured
  BY <1>1, <1>2 DEF Configured, Rules!IsCase
<1>4. sets = <<>> /\ validated = "not" /\ stage = "written"
  BY DEF Rules!Init
<1> QED BY <1>3, <1>4 DEF RulesInv

LEMMA RulesKeep ==
  ASSUME RulesInv, Rules!Next \/ UNCHANGED rules
  PROVE  RulesInv'
<1>1. UNCHANGED Rules!written
  BY DEF Rules!Next, Rules!RunValidate, Rules!RunManager, rules, Rules!written
<1>2. /\ Rules!ResolveScaleSets' = Rules!ResolveScaleSets
      /\ Rules!Accepted' <=> Rules!Accepted
      /\ Rules!ValidateGlobal' <=> Rules!ValidateGlobal
  BY <1>1, WrittenKept
<1>3. Configured'
  BY <1>1 DEF RulesInv, Configured, Rules!written
<1>4. CASE UNCHANGED rules
  <2>1. UNCHANGED <<sets, validated, stage>>
    BY <1>4 DEF rules
  <2> QED BY <1>2, <1>3, <2>1 DEF RulesInv
<1>5. CASE Rules!RunValidate
  <2>1. /\ UNCHANGED <<sets, stage>> /\ validated' \in {"ok", "failed"}
        /\ validated' = "ok" => /\ Rules!ValidateGlobal /\ Rules!AllValid(Rules!ResolveScaleSets)
                                /\ Rules!validateScaleSetCollection(Rules!ResolveScaleSets)
    BY <1>5 DEF Rules!RunValidate
  <2> QED BY <1>2, <1>3, <2>1 DEF RulesInv
<1>6. CASE Rules!RunManager
  <2>1. /\ UNCHANGED validated /\ stage = "written"
        /\ \/ Rules!Accepted /\ stage' = "running" /\ sets' = Rules!ResolveScaleSets
           \/ ~Rules!Accepted /\ stage' = "refused" /\ sets' = sets
    BY <1>6 DEF Rules!RunManager
  <2> QED BY <1>2, <1>3, <2>1 DEF RulesInv
<1> QED BY <1>4, <1>5, <1>6 DEF Rules!Next

\* Whatever is written, whatever the defaults, the width of a size and the filesystem: a
\* process that gets past the checks of runManager (main.go) has a provider, a range of
\* runners and one credential of its own for every scale set, minimums that fit the limit and
\* the host together, what its entries say, and a target that is never below its trigger, and
\* above it unless both are percentages less than two bytes of the filesystem apart; and what
\* runValidate passes fails there only by ValidateConcurrent.
THEOREM StartedIsSoundHolds == Spec => []StartedIsSound
<1> DEFINE Inv == part = "rules" => RulesInv
<1> USE HostAssumption DEF HostAssumption
<1>1. Init => Inv
  BY RulesStart DEF Init
<1>2. Inv /\ [Next]_vars => Inv'
  <2> SUFFICES ASSUME Inv, [Next]_vars PROVE Inv'
    OBVIOUS
  <2>1. part' = part
    BY DEF Next, vars
  <2>2. part = "rules" => Rules!Next \/ UNCHANGED rules
    BY DEF Next, vars
  <2> QED BY <2>1, <2>2, RulesKeep
<1>3. Inv => StartedIsSound
  BY StartedTypes, CredentialsAreOwn, EntriesDecide, MinimumsFit, TartFits, TargetIsAbove, ValidStarts
     DEF StartedIsSound
<1> QED BY <1>1, <1>2, <1>3, PTL DEF Spec

-----------------------------------------------------------------------------
(***************************************************************************)
(* The service: its commands, interrupted or failing anywhere, beside the  *)
(* service manager and the process it runs.                                *)
(***************************************************************************)

Scopes == {"system", "user"}

Processes == [def : Service!Definition, drain : DrainBudgets, release : Releases]

StepsOf(op) ==
    CASE op = "install" -> {"audit", "group", "user", "mkdir", "chown", "probe", "write", "reload",
                            "enable", "start", "restart", "unload", "load"}
      [] op = "start" -> {"start", "load"}
      [] op = "stop" -> {"stop", "unload"}
      [] op = "restart" -> {"restart", "unload", "load"}
      [] op = "uninstall" -> {"stop", "unload", "remove"}
      [] op = "update" -> {"current", "download", "replace", "notice"}
      [] OTHER -> {"none"}

Ops == {"none", "install", "start", "stop", "restart", "uninstall", "update"}

ServiceCommand ==
    [op : Ops, scope : Scopes, step : UNION {StepsOf(op) : op \in Ops}, start : BOOLEAN,
     sees : BOOLEAN, existed : BOOLEAN, stuck : BOOLEAN, runtime : {"none", "root", "runscaler", "owner"}, stop : Nat, release : Nat]

\* The definitions on disk and in memory, the processes and the command under way.
ServiceTypes ==
    /\ manager \in {"systemd", "launchd"}
    /\ file \in [Scopes -> Service!Definition \cup {Service!None}]
    /\ loaded \in [Scopes -> Service!Definition \cup {Service!None}]
    /\ proc \in [Scopes -> Processes \cup {Service!NoProcess}]
    /\ config \in [Scopes -> DrainBudgets] /\ binary \in [Scopes -> Releases]
    /\ account \in {"none", "group", "full"} /\ dirs \in {"none", "empty", "service", "foreign"}
    /\ command \in ServiceCommand /\ command.step \in StepsOf(command.op)
    /\ \A s \in Scopes : Service!Running(s) => loaded[s] # Service!None
    /\ \A s, t \in Scopes : Service!Running(s) /\ Service!Running(t) => s = t

\* The definitions on disk.
FilesInPlace ==
    /\ Service!Installed("user") => file["user"].runtime = "owner"
    /\ Service!PreparedWhenInstalled

Preparing == {"audit", "group", "user", "mkdir", "chown", "probe"}

\* What an installation has looked for in the other scope and not found.
Unseen(other) == other = "user" /\ ~command.sees

\* An installation: nothing it could see is installed in the other scope; until it writes the
\* definition it knows the identity of the one that is there, and what has been prepared.
InstallSound ==
    LET s == command.scope
        step == command.step
    IN  /\ \A other \in Scopes \ {s} : Service!Installed(other) => Unseen(other)
        /\ s = "user" => command.runtime = "owner"
        /\ command.runtime # "none"
        /\ step \in Preparing \cup {"write"} =>
               /\ command.existed <=> Service!Installed(s)
               /\ Service!Installed(s) /\ loaded[s] \in {Service!None, file[s]}
                      => command.runtime = file[s].runtime
        /\ step = "group" => account = "none"
        /\ step = "user" => account = "group"
        /\ step \in {"mkdir", "chown", "probe"} => account = "full"
        /\ step \in {"group", "user", "mkdir", "chown"} => dirs # "foreign"
        /\ step = "probe" => dirs = "service"
        /\ step = "write" /\ command.runtime = "runscaler" => account = "full" /\ dirs = "service"
        /\ step \notin Preparing \cup {"write"} => Service!Installed(s)
        /\ manager = "systemd" => step \notin {"unload", "load"}
        /\ step \in {"enable", "start", "restart"} => loaded[s] = file[s]
        /\ step = "start" => ~command.existed
        /\ step = "load" /\ command.existed /\ ~command.stuck => loaded[s] = Service!None

CommandSound ==
    /\ command.op # "none" => last = Service!NoResult
    /\ command.op = "install" => InstallSound
    /\ command.op \in {"start", "stop", "restart"} => Service!Installed(command.scope)
    /\ command.op = "update" => command.release \in Releases
    /\ command.step = "notice" => binary[command.scope] = command.release

\* The result of the last command, and what has happened to the service since.
ResultKept ==
    /\ last.op = "install" /\ last.ok /\ last.start /\ last.existed /\ ~last.stuck =>
           /\ last.scope \in Scopes /\ Service!Installed(last.scope)
           /\ loaded[last.scope] = file[last.scope]
           /\ Service!Running(last.scope) => proc[last.scope].def = file[last.scope]
    /\ last.op = "update" => last.scope \in Scopes
    /\ Service!UpdateTellsRestart

ServiceInv ==
    ServiceTypes /\ FilesInPlace /\ CommandSound /\ ResultKept /\ Service!OutgrownIsWarned

LEMMA ServiceBudgets ==
  /\ \A d \in DrainBudgets : d \in Nat
  /\ \A r \in Releases : r \in Nat /\ r # 0
  /\ \A o \in ServiceManagers : o \in {"systemd", "launchd"}
BY HostAssumption DEF HostAssumption, Service!ServiceAssumption

LEMMA NoneIs ==
  /\ Service!None \notin Service!Definition
  /\ Service!NoProcess \notin Processes /\ Service!NoProcess.def = Service!None
  /\ Service!None.runtime = "none"
  /\ Service!NoProcess.release = 0
<1>1. Service!None.runtime = "none"
  BY DEF Service!None
<1>2. \A d \in Service!Definition : d.runtime \in {"root", "runscaler", "owner"}
  BY DEF Service!Definition
<1>3. Service!None \notin Service!Definition
  BY <1>1, <1>2
<1>4. Service!NoProcess.def = Service!None /\ Service!NoProcess.release = 0
  BY DEF Service!NoProcess
<1>5. \A p \in Processes : p.def \in Service!Definition
  BY DEF Processes
<1> QED BY <1>1, <1>3, <1>4, <1>5

LEMMA ScopesAre == Service!Scope = Scopes
BY DEF Service!Scope, Scopes

\* What is installed or runs has a definition or a process proper.
LEMMA InstalledIs ==
  ASSUME ServiceTypes, NEW s \in Scopes
  PROVE  /\ Service!Installed(s) => file[s] \in Service!Definition
         /\ ~Service!Installed(s) => file[s] = Service!None
         /\ loaded[s] # Service!None => loaded[s] \in Service!Definition
         /\ Service!Running(s) => proc[s] \in Processes /\ loaded[s] \in Service!Definition
         /\ ~Service!Running(s) => proc[s] = Service!NoProcess
BY DEF ServiceTypes, Service!Installed, Service!Running

\* A step of the command under way.
LEMMA Stepped ==
  ASSUME ServiceTypes, NEW x, x \in StepsOf(command.op), Service!Step(x)
  PROVE  /\ command' \in ServiceCommand /\ command'.step = x /\ last' = last
         /\ command'.op = command.op /\ command'.scope = command.scope
         /\ command'.start = command.start /\ command'.existed = command.existed
         /\ command'.sees = command.sees /\ command'.stuck = command.stuck
         /\ command'.runtime = command.runtime /\ command'.stop = command.stop
         /\ command'.release = command.release
         /\ command'.step \in StepsOf(command'.op)
<1>1. command \in ServiceCommand /\ command' = [command EXCEPT !.step = x] /\ last' = last
  BY DEF ServiceTypes, Service!Step
<1>2. command.op \in Ops
  BY <1>1 DEF ServiceCommand
<1>3. x \in UNION {StepsOf(op) : op \in Ops}
  BY <1>2
<1>4. command' \in ServiceCommand /\ command'.step = x
      /\ command'.op = command.op /\ command'.scope = command.scope
      /\ command'.start = command.start /\ command'.existed = command.existed
      /\ command'.sees = command.sees /\ command'.stuck = command.stuck
      /\ command'.runtime = command.runtime /\ command'.stop = command.stop
      /\ command'.release = command.release
  BY <1>1, <1>3 DEF ServiceCommand
<1>5. command'.step \in StepsOf(command'.op)
  BY <1>4
<1> QED BY <1>1, <1>4, <1>5

LEMMA Idle ==
  ASSUME command' = Service!NoCommand
  PROVE  /\ command' \in ServiceCommand /\ command'.step \in StepsOf(command'.op)
         /\ CommandSound'
<1>1. /\ Service!NoCommand.op = "none" /\ Service!NoCommand.step = "none"
      /\ Service!NoCommand.scope \in Scopes
      /\ Service!NoCommand.start \in BOOLEAN /\ Service!NoCommand.existed \in BOOLEAN
      /\ Service!NoCommand.sees \in BOOLEAN /\ Service!NoCommand.stuck \in BOOLEAN
      /\ Service!NoCommand.runtime = "none" /\ Service!NoCommand.stop = 0 /\ Service!NoCommand.release = 0
  BY DEF Service!NoCommand, Scopes
<1>2. "none" \in StepsOf("none") /\ "none" \in Ops
  BY DEF StepsOf, Ops
<1>3. "none" \in UNION {StepsOf(op) : op \in Ops}
  BY <1>2
<1>4. Service!NoCommand \in ServiceCommand
  BY <1>2, <1>3 DEF ServiceCommand, Service!NoCommand, Scopes
<1>5. command'.op = "none" /\ command'.step = "none"
  BY <1>1
<1>6. CommandSound'
  BY <1>5 DEF CommandSound
<1> QED BY <1>2, <1>4, <1>5, <1>6

\* The result of a command that has ended.
LEMMA ResultIs ==
  ASSUME NEW ok, NEW replaced, NEW notice, last' = Service!Result(ok, replaced, notice)
  PROVE  /\ last'.op = command.op /\ last'.scope = command.scope /\ last'.ok = ok
         /\ last'.start = command.start /\ last'.existed = command.existed
         /\ last'.stuck = command.stuck
         /\ last'.replaced = replaced /\ last'.notice = notice
BY DEF Service!Result

LEMMA NoResultKept ==
  ASSUME last' = Service!NoResult
  PROVE  ResultKept'
<1>1. last'.op = "none"
  BY DEF Service!NoResult
<1> QED BY <1>1 DEF ResultKept, Service!UpdateTellsRestart

\* A command under way has no result yet, and what goes on leaves it there.
LEMMA UnderWay ==
  ASSUME CommandSound, command.op # "none", last' = last
  PROVE  ResultKept'
BY NoResultKept DEF CommandSound

\* A command that has ended, other than an update that replaced the binary.
LEMMA EndedResult ==
  ASSUME ServiceTypes, NEW ok, Service!Ends(ok),
         command.op = "install" /\ ok /\ command.start /\ command.existed /\ ~command.stuck =>
             LET s == command.scope
             IN  /\ file'[s] # Service!None /\ loaded'[s] = file'[s]
                 /\ proc'[s] # Service!NoProcess => proc'[s].def = file'[s]
  PROVE  ResultKept' /\ CommandSound' /\ command' \in ServiceCommand /\ command'.step \in StepsOf(command'.op)
<1>1. command' = Service!NoCommand /\ last' = Service!Result(ok, FALSE, FALSE)
  BY DEF Service!Ends
<1>2. /\ last'.op = command.op /\ last'.scope = command.scope /\ last'.ok = ok
      /\ last'.start = command.start /\ last'.existed = command.existed
      /\ last'.stuck = command.stuck
      /\ last'.replaced = FALSE
  BY <1>1, ResultIs
<1>3. command.scope \in Scopes
  BY DEF ServiceTypes, ServiceCommand
<1>4. ResultKept'
  BY <1>2, <1>3 DEF ResultKept, Service!UpdateTellsRestart, Service!Installed, Service!Running
<1> QED BY <1>1, <1>4, Idle

-----------------------------------------------------------------------------
(* What a step of each kind leaves as it is.                               *)

\* The three things a step may never do.
ServiceStep == Service!OneInstallation /\ Service!IdentityKept /\ Service!ForeignTreeKept

\* Definitions that stay, or go, are no new installation.
LEMMA NothingInstalled ==
  ASSUME \A t \in Scopes : file'[t] = file[t] \/ file'[t] = Service!None
  PROVE  Service!OneInstallation
BY ScopesAre DEF Service!OneInstallation, Service!Installed

LEMMA SameFiles ==
  ASSUME FilesInPlace, UNCHANGED <<file, account, dirs>>
  PROVE  FilesInPlace' /\ ServiceStep
BY NothingInstalled DEF FilesInPlace, Service!Installed, Service!PreparedWhenInstalled, ServiceStep,
       Service!IdentityKept, Service!ForeignTreeKept

LEMMA SameTypes ==
  ASSUME ServiceTypes, UNCHANGED <<manager, file, loaded, proc, config, binary, account, dirs>>,
         command' \in ServiceCommand, command'.step \in StepsOf(command'.op)
  PROVE  ServiceTypes'
BY DEF ServiceTypes, Service!Running

LEMMA SameKill ==
  ASSUME Service!OutgrownIsWarned, UNCHANGED kill
  PROVE  Service!OutgrownIsWarned'
BY DEF Service!OutgrownIsWarned

\* Commands that end, or go on, without a change to the host.
LEMMA HostSame ==
  ASSUME ServiceInv, UNCHANGED <<manager, file, loaded, proc, config, binary, account, dirs, kill>>,
         command' \in ServiceCommand, command'.step \in StepsOf(command'.op),
         CommandSound', ResultKept'
  PROVE  ServiceInv' /\ ServiceStep
BY SameFiles, SameTypes, SameKill DEF ServiceInv

LEMMA EndsQuietly ==
  ASSUME ServiceInv, NEW ok, Service!Ends(ok),
         UNCHANGED <<manager, file, loaded, proc, config, binary, account, dirs, kill>>,
         ~(command.op = "install" /\ ok /\ command.start /\ command.existed /\ ~command.stuck)
  PROVE  ServiceInv' /\ ServiceStep
<1>1. ServiceTypes
  BY DEF ServiceInv
<1>2. ResultKept' /\ CommandSound' /\ command' \in ServiceCommand /\ command'.step \in StepsOf(command'.op)
  BY <1>1, EndedResult
<1> QED BY <1>2, HostSame

\* A step of a command that is neither an installation nor an update.
LEMMA StepsOn ==
  ASSUME ServiceInv, NEW x, x \in StepsOf(command.op), Service!Step(x),
         command.op \notin {"none", "install", "update"}, file' = file
  PROVE  ResultKept' /\ CommandSound' /\ command' \in ServiceCommand /\ command'.step \in StepsOf(command'.op)
<1>1. ServiceTypes /\ CommandSound
  BY DEF ServiceInv
<1>2. /\ command' \in ServiceCommand /\ command'.step = x /\ last' = last
      /\ command'.op = command.op /\ command'.scope = command.scope
      /\ command'.step \in StepsOf(command'.op)
  BY <1>1, Stepped
<1>3. ResultKept'
  BY <1>1, <1>2, UnderWay
<1>4. x # "notice"
  <2>1. command.op \in Ops
    BY <1>1 DEF ServiceTypes, ServiceCommand
  <2> QED BY <2>1 DEF StepsOf, Ops
<1>5. CommandSound'
  BY <1>1, <1>2, <1>4 DEF CommandSound, Service!Installed
<1> QED BY <1>2, <1>3, <1>5

LEMMA KillTold ==
  ASSUME ServiceTypes, Service!OutgrownIsWarned, NEW s \in Scopes, Service!Stopped(s)
  PROVE  Service!OutgrownIsWarned'
<1>1. CASE UNCHANGED kill
  BY <1>1, SameKill
<1>2. CASE /\ Service!Running(s) /\ Service!Given(s) < proc[s].drain + Service!Cleanup
           /\ kill' = [given |-> Service!Given(s), needed |-> proc[s].drain + Service!Cleanup,
                       warned |-> Service!Warned(proc[s].def, proc[s].drain),
                       startedWith |-> proc[s].def.stop]
  <2>1. proc[s] \in Processes
    BY <1>2, InstalledIs
  <2>2. proc[s].drain \in Nat /\ proc[s].def.stop \in Nat
    BY <2>1, ServiceBudgets DEF Processes, Service!Definition
  <2>3. kill'.given = Service!Given(s) /\ kill'.startedWith = proc[s].def.stop
    BY <1>2
  <2>4. kill'.warned = Service!Warned(proc[s].def, proc[s].drain)
    BY <1>2, Zenon
  <2>5. ASSUME kill'.given = kill'.startedWith PROVE Service!Warned(proc[s].def, proc[s].drain)
    <3>1. proc[s].def.stop < proc[s].drain + 1
      BY <1>2, <2>3, <2>5 DEF Service!Cleanup
    <3>2. proc[s].def.stop < proc[s].drain + 2
      BY <2>2, <3>1
    <3> QED BY <3>2 DEF Service!Warned, Service!StopTimeout, Service!Minute
  <2>6. kill'.given = kill'.startedWith => kill'.warned
    BY <2>4, <2>5, Zenon
  <2> QED BY <2>6 DEF Service!OutgrownIsWarned
<1> QED BY <1>1, <1>2 DEF Service!Stopped

\* A process that is started, or not for the one that holds the lock.
LEMMA ProcStarted ==
  ASSUME ServiceTypes, NEW s \in Scopes, NEW d \in Service!Definition,
         \/ proc' = Service!Ended(s)
         \/ proc' = [proc EXCEPT ![s] = [def |-> d, drain |-> config[s], release |-> binary[s]]]
  PROVE  /\ proc' \in [Scopes -> Processes \cup {Service!NoProcess}]
         /\ \A t \in Scopes \ {s} : proc'[t] = proc[t]
         /\ proc'[s] # Service!NoProcess => proc'[s].def = d /\ proc'[s].release = binary[s]
<1>1. /\ proc \in [Scopes -> Processes \cup {Service!NoProcess}]
      /\ config[s] \in DrainBudgets /\ binary[s] \in Releases
  BY DEF ServiceTypes
<1>2. CASE proc' = Service!Ended(s)
  <2>1. proc' = [proc EXCEPT ![s] = Service!NoProcess]
    BY <1>2 DEF Service!Ended
  <2> QED BY <1>1, <2>1
<1>3. CASE proc' = [proc EXCEPT ![s] = [def |-> d, drain |-> config[s], release |-> binary[s]]]
  <2> DEFINE p == [def |-> d, drain |-> config[s], release |-> binary[s]]
  <2>1. p \in Processes /\ p.def = d /\ p.release = binary[s]
    BY <1>1 DEF Processes
  <2>2. proc' = [proc EXCEPT ![s] = p]
    BY <1>3
  <2> HIDE DEF p
  <2> QED BY <1>1, <2>1, <2>2
<1> QED BY <1>2, <1>3

-----------------------------------------------------------------------------
(* Commands as they begin.                                                 *)

LEMMA Starts ==
  ASSUME ServiceInv, NEW s \in Scopes, NEW force \in BOOLEAN, NEW start \in BOOLEAN,
         NEW sees \in BOOLEAN, Service!Install(s, force, start, sees), UNCHANGED manager
  PROVE  ServiceInv' /\ ServiceStep
<1> DEFINE r == Service!Runtime(s)
           first == Service!FirstStep(s, force)
           stop == Service!StopTimeout(config[s])
<1>1. ServiceTypes /\ FilesInPlace
  BY DEF ServiceInv
<1>2. /\ Service!MayInstall(s, force, sees) /\ last' = Service!NoResult
      /\ command' = [op |-> "install", scope |-> s, step |-> first, start |-> start, sees |-> sees,
                     existed |-> Service!Installed(s), stuck |-> FALSE, runtime |-> r, stop |-> stop,
                     release |-> 0]
      /\ UNCHANGED <<manager, file, loaded, proc, config, binary, account, dirs, kill>>
  BY DEF Service!Install, Service!Begin, Service!managed, Service!host
<1>3. /\ \A other \in Scopes \ {s} : Service!Installed(other) => other = "user" /\ ~sees
      /\ manager = "launchd" => s = "user"
  BY <1>2, ScopesAre DEF Service!MayInstall
<1>4. stop \in Nat
  BY <1>1, ServiceBudgets DEF ServiceTypes, Service!StopTimeout, Service!Minute
<1>5. s \in {"system", "user"}
  BY DEF Scopes
<1>6. Service!Installed(s) => Service!Discovered(s).runtime \in {"root", "runscaler", "owner"}
  <2>1. ASSUME Service!Installed(s) PROVE Service!Discovered(s) \in Service!Definition
    BY <1>1, <2>1, InstalledIs DEF Service!Discovered, Service!Effective
  <2>2. \A d \in Service!Definition : d.runtime \in {"root", "runscaler", "owner"}
    BY DEF Service!Definition
  <2> QED BY <2>1, <2>2
<1>7. r \in {"root", "runscaler", "owner"} /\ (s = "user" => r = "owner")
  BY <1>5, <1>6 DEF Service!Runtime
<1>8. Service!Installed(s) /\ loaded[s] \in {Service!None, file[s]} => r = file[s].runtime
  <2>1. CASE s = "user"
    BY <1>1, <1>7, <2>1 DEF FilesInPlace
  <2>2. CASE s = "system" /\ Service!Installed(s)
    <3>1. r = Service!Discovered(s).runtime
      BY <2>2 DEF Service!Runtime
    <3>2. loaded[s] \in {Service!None, file[s]} => Service!Discovered(s) = file[s]
      BY <2>2 DEF Service!Discovered, Service!Effective
    <3> QED BY <3>1, <3>2
  <2> QED BY <1>5, <2>1, <2>2
<1>9. first \in {"audit", "write"} /\ (first = "write" => r # "runscaler")
  BY DEF Service!FirstStep
<1>10. Service!Installed(s) \in BOOLEAN
  BY DEF Service!Installed
<1> HIDE DEF r, first, stop
<1>11. /\ command'.op = "install" /\ command'.scope = s /\ command'.step = first
       /\ command'.existed = Service!Installed(s) /\ command'.runtime = r
       /\ command'.stop = stop /\ command'.start = start /\ command'.release = 0
       /\ command'.sees = sees /\ command'.stuck = FALSE
  BY <1>2, Zenon
<1>12. first \in StepsOf("install") /\ "install" \in Ops
  BY <1>9 DEF StepsOf, Ops
<1>13. first \in UNION {StepsOf(op) : op \in Ops}
  BY <1>12
<1>14. command' \in ServiceCommand
  BY <1>2, <1>4, <1>7, <1>10, <1>12, <1>13 DEF ServiceCommand
<1>15. command'.step \in StepsOf(command'.op)
  BY <1>11, <1>12
<1>16. InstallSound'
  <2>1. \A t \in Scopes : Service!Installed(t)' <=> Service!Installed(t)
    BY <1>2 DEF Service!Installed
  <2>2. \A other \in Scopes \ {command'.scope} : Service!Installed(other)' => Unseen(other)'
    BY <1>3, <1>11, <2>1 DEF Unseen
  <2>3. command'.scope = "user" => command'.runtime = "owner"
    BY <1>7, <1>11
  <2>4. command'.existed <=> Service!Installed(s)'
    BY <1>11, <2>1
  <2>5. Service!Installed(s)' /\ loaded'[s] \in {Service!None, file'[s]} => command'.runtime = file'[s].runtime
    BY <1>2, <1>8, <1>11, <2>1
  <2>6. command'.step \in {"audit", "write"} /\ (command'.step = "write" => command'.runtime # "runscaler")
    BY <1>9, <1>11
  <2>7. command'.runtime # "none"
    BY <1>7, <1>11
  <2> QED BY <1>11, <2>2, <2>3, <2>4, <2>5, <2>6, <2>7 DEF InstallSound, Preparing, Service!Installed
<1>17. CommandSound'
  BY <1>2, <1>9, <1>11, <1>16 DEF CommandSound
<1> QED BY <1>2, <1>14, <1>15, <1>17, HostSame, NoResultKept

\* A command of another kind.
LEMMA BeginsIn ==
  ASSUME ServiceInv, NEW op \in Ops \ {"none", "install"}, command'.op = op,
         command'.scope \in Scopes, Service!Installed(command'.scope),
         command'.step \in StepsOf(op), command'.step # "notice", command' \in ServiceCommand,
         op = "update" => command'.release \in Releases,
         last' = Service!NoResult,
         UNCHANGED <<manager, file, loaded, proc, config, binary, account, dirs, kill>>
  PROVE  ServiceInv' /\ ServiceStep
<1>1. CommandSound'
  BY DEF CommandSound, Service!Installed
<1> QED BY <1>1, HostSame, NoResultKept

LEMMA NoCommandIs == Service!NoCommand \in ServiceCommand
BY DEF ServiceCommand, Service!NoCommand, Scopes, Ops, StepsOf

LEMMA StepIn ==
  ASSUME NEW op \in Ops, NEW x \in StepsOf(op)
  PROVE  x \in UNION {StepsOf(o) : o \in Ops}
OBVIOUS

LEMMA Controls ==
  ASSUME ServiceInv, NEW s \in Scopes, NEW op \in Service!Commands, Service!Control(s, op),
         UNCHANGED manager
  PROVE  ServiceInv' /\ ServiceStep
<1> DEFINE x == IF manager = "launchd" THEN (IF op = "start" THEN "load" ELSE "unload") ELSE op
<1>1. op \in {"start", "stop", "restart"}
  BY DEF Service!Commands
<1>2. /\ Service!Installed(s) /\ last' = Service!NoResult
      /\ command' = [Service!NoCommand EXCEPT !.op = op, !.scope = s, !.step = x]
      /\ UNCHANGED <<manager, file, loaded, proc, config, binary, account, dirs, kill>>
  BY DEF Service!Control, Service!Begin, Service!managed, Service!host
<1>3. x \in StepsOf(op) /\ x # "notice"
  BY <1>1 DEF StepsOf
<1>4. op \in Ops \ {"none", "install", "update"} /\ 0 \in Nat
  BY <1>1 DEF Ops
<1>10. op \in Ops /\ x \in UNION {StepsOf(o) : o \in Ops}
  BY <1>3, <1>4, StepIn
<1> HIDE DEF x
<1>5. command'.op = op /\ command'.scope = s /\ command'.step = x /\ command' \in ServiceCommand
  BY <1>2, <1>10, NoCommandIs, Zenon DEF ServiceCommand
<1> QED BY <1>2, <1>3, <1>4, <1>5, BeginsIn

LEMMA Uninstalls ==
  ASSUME ServiceInv, NEW s \in Scopes, Service!Uninstall(s), UNCHANGED manager
  PROVE  ServiceInv' /\ ServiceStep
<1> DEFINE x == IF manager = "launchd" THEN "unload" ELSE "stop"
<1>1. /\ Service!Installed(s) /\ last' = Service!NoResult
      /\ command' = [Service!NoCommand EXCEPT !.op = "uninstall", !.scope = s, !.step = x]
      /\ UNCHANGED <<manager, file, loaded, proc, config, binary, account, dirs, kill>>
  BY DEF Service!Uninstall, Service!Begin, Service!managed, Service!host
<1>2. x \in StepsOf("uninstall") /\ x # "notice"
  BY DEF StepsOf
<1>3. "uninstall" \in Ops \ {"none", "install", "update"} /\ 0 \in Nat
  BY DEF Ops
<1>10. "uninstall" \in Ops /\ x \in UNION {StepsOf(o) : o \in Ops}
  BY <1>2, <1>3, StepIn
<1> HIDE DEF x
<1>4. command'.op = "uninstall" /\ command'.scope = s /\ command'.step = x /\ command' \in ServiceCommand
  BY <1>1, <1>10, NoCommandIs, Zenon DEF ServiceCommand
<1> QED BY <1>1, <1>2, <1>3, <1>4, BeginsIn

LEMMA Updates ==
  ASSUME ServiceInv, NEW s \in Scopes, Service!Update(s), UNCHANGED manager
  PROVE  ServiceInv' /\ ServiceStep
<1>1. PICK r \in Releases :
          Service!Begin([Service!NoCommand EXCEPT !.op = "update", !.scope = s, !.release = r,
                             !.step = IF r = binary[s] THEN "current" ELSE "download"])
  BY DEF Service!Update
<1> DEFINE x == IF r = binary[s] THEN "current" ELSE "download"
<1>2. /\ Service!Installed(s)
      /\ UNCHANGED <<manager, file, loaded, proc, config, binary, account, dirs, kill>>
  BY DEF Service!Update, Service!managed, Service!host
<1>3. /\ command' = [Service!NoCommand EXCEPT !.op = "update", !.scope = s, !.release = r, !.step = x]
      /\ last' = Service!NoResult
  BY <1>1 DEF Service!Begin
<1>4. x \in StepsOf("update") /\ x # "notice"
  BY DEF StepsOf
<1>5. "update" \in Ops \ {"none", "install"} /\ r \in Nat
  BY ServiceBudgets DEF Ops
<1>10. "update" \in Ops /\ x \in UNION {StepsOf(o) : o \in Ops}
  BY <1>4, <1>5, StepIn
<1> HIDE DEF x
<1>6. command'.op = "update" /\ command'.scope = s /\ command'.step = x /\ command'.release = r
      /\ command' \in ServiceCommand
  BY <1>3, <1>5, <1>10, NoCommandIs, Zenon DEF ServiceCommand
<1> QED BY <1>2, <1>3, <1>4, <1>5, <1>6, BeginsIn

-----------------------------------------------------------------------------
(* The steps of an installation.                                           *)

LEMMA InstallGoesOn ==
  ASSUME ServiceInv, command.op = "install", NEW x, x \in StepsOf("install"), Service!Step(x),
         InstallSound'
  PROVE  CommandSound' /\ ResultKept' /\ command' \in ServiceCommand /\ command'.step \in StepsOf(command'.op)
<1>1. ServiceTypes /\ CommandSound
  BY DEF ServiceInv
<1>2. /\ command' \in ServiceCommand /\ command'.step = x /\ last' = last
      /\ command'.op = command.op /\ command'.step \in StepsOf(command'.op)
  BY <1>1, Stepped
<1>3. ResultKept'
  BY <1>1, <1>2, UnderWay
<1>4. x # "notice"
  BY DEF StepsOf
<1>5. CommandSound'
  BY <1>1, <1>2, <1>4 DEF CommandSound
<1> QED BY <1>2, <1>3, <1>5

LEMMA Prepares ==
  ASSUME ServiceInv, command.op = "install", command.step \in Preparing,
         NEW x, x \in Preparing \cup {"write"}, Service!Step(x),
         UNCHANGED <<manager, file, loaded, proc, config, binary, kill>>,
         account' \in {"none", "group", "full"}, dirs' \in {"none", "empty", "service", "foreign"},
         x = "group" => account' = "none",
         x = "user" => account' = "group",
         x \in {"mkdir", "chown", "probe"} => account' = "full",
         x \in {"group", "user", "mkdir", "chown"} => dirs' # "foreign",
         x = "probe" => dirs' = "service",
         x = "write" => account' = "full" /\ dirs' = "service",
         Service!PreparedWhenInstalled', Service!ForeignTreeKept
  PROVE  ServiceInv' /\ ServiceStep
<1>1. ServiceTypes /\ CommandSound /\ FilesInPlace /\ InstallSound
  BY DEF ServiceInv, CommandSound
<1>2. x \in StepsOf("install") /\ x \in {"audit", "group", "user", "mkdir", "chown", "probe", "write"}
  BY DEF StepsOf, Preparing
<1>3. /\ command' \in ServiceCommand /\ command'.step = x
      /\ command'.op = command.op /\ command'.scope = command.scope
      /\ command'.existed = command.existed /\ command'.runtime = command.runtime
      /\ command'.sees = command.sees
  BY <1>1, <1>2, Stepped
<1>4. command.step \in Preparing \cup {"write"}
  OBVIOUS
<1>5. InstallSound'
  <2>1. /\ \A other \in Scopes \ {command.scope} : Service!Installed(other)' => Unseen(other)'
        /\ command'.scope = "user" => command'.runtime = "owner"
        /\ command'.runtime # "none"
    BY <1>1, <1>3 DEF InstallSound, Service!Installed, Unseen
  <2>2. /\ command'.existed <=> Service!Installed(command.scope)'
        /\ Service!Installed(command.scope)' /\ loaded'[command.scope] \in {Service!None, file'[command.scope]}
               => command'.runtime = file'[command.scope].runtime
    BY <1>1, <1>3, <1>4 DEF InstallSound, Service!Installed
  <2> QED BY <1>2, <1>3, <2>1, <2>2 DEF InstallSound, Preparing, Service!Installed
<1>6. /\ CommandSound' /\ ResultKept' /\ command' \in ServiceCommand
      /\ command'.step \in StepsOf(command'.op)
  BY <1>2, <1>5, InstallGoesOn
<1>7. ServiceTypes'
  BY <1>1, <1>6 DEF ServiceTypes, Service!Running
<1>8. FilesInPlace' /\ Service!IdentityKept /\ Service!OneInstallation
  BY <1>1, NothingInstalled DEF FilesInPlace, Service!Installed, Service!IdentityKept
<1>9. Service!OutgrownIsWarned'
  BY SameKill DEF ServiceInv
<1> QED BY <1>6, <1>7, <1>8, <1>9 DEF ServiceInv, ServiceStep

LEMMA PrepareKeeps ==
  ASSUME ServiceInv, Service!Prepare, UNCHANGED manager
  PROVE  ServiceInv' /\ ServiceStep
<1>1. /\ ServiceTypes /\ FilesInPlace /\ CommandSound
      /\ account \in {"none", "group", "full"} /\ dirs \in {"none", "empty", "service", "foreign"}
  BY DEF ServiceInv, ServiceTypes
<1>2. command.op = "install" => InstallSound
  BY <1>1 DEF CommandSound
<1>3. UNCHANGED <<file, account, dirs>> => Service!PreparedWhenInstalled' /\ Service!ForeignTreeKept
  BY <1>1 DEF FilesInPlace, Service!PreparedWhenInstalled, Service!ForeignTreeKept
<1>4. CASE Service!Audit
  <2>1. /\ command.op = "install" /\ command.step = "audit"
        /\ UNCHANGED <<manager, file, loaded, proc, config, binary, account, dirs, kill>>
    BY <1>4 DEF Service!Audit, Service!At, Service!managed, Service!host
  <2>2. CASE dirs = "foreign"
    <3>1. Service!Ends(FALSE)
      BY <1>4, <2>2 DEF Service!Audit
    <3> QED BY <2>1, <3>1, EndsQuietly
  <2>3. CASE dirs # "foreign"
    <3> DEFINE x == CASE account = "none" -> "group" [] account = "group" -> "user" [] OTHER -> "mkdir"
    <3>1. Service!Step(x)
      BY <1>4, <2>3 DEF Service!Audit, Service!Step
    <3>2. /\ x \in {"group", "user", "mkdir"} /\ (x = "group" => account = "none")
          /\ x = "user" => account = "group"
          /\ x = "mkdir" => account = "full"
      BY <1>1
    <3> HIDE DEF x
    <3>3. "audit" \in Preparing /\ x \in Preparing \cup {"write"}
      BY <3>2 DEF Preparing
    <3> QED BY <1>1, <1>3, <2>1, <2>3, <3>1, <3>2, <3>3, Prepares
  <2> QED BY <2>2, <2>3
<1>5. CASE Service!AddGroup
  <2>1. /\ command.op = "install" /\ command.step = "group" /\ Service!Step("user") /\ account' = "group"
        /\ UNCHANGED <<manager, file, loaded, proc, config, binary, dirs, kill>>
    BY <1>5 DEF Service!AddGroup, Service!At, Service!managed
  <2>2. account = "none" /\ dirs # "foreign"
    BY <1>2, <2>1 DEF InstallSound
  <2>3. Service!PreparedWhenInstalled' /\ Service!ForeignTreeKept
    BY <1>1, <2>1, <2>2 DEF FilesInPlace, Service!PreparedWhenInstalled, Service!ForeignTreeKept
  <2>4. "group" \in Preparing /\ "user" \in Preparing \cup {"write"}
    BY DEF Preparing
  <2> QED BY <1>1, <2>1, <2>2, <2>3, <2>4, Prepares
<1>6. CASE Service!AddUser
  <2>1. /\ command.op = "install" /\ command.step = "user" /\ Service!Step("mkdir") /\ account' = "full"
        /\ UNCHANGED <<manager, file, loaded, proc, config, binary, dirs, kill>>
    BY <1>6 DEF Service!AddUser, Service!At, Service!managed
  <2>2. dirs # "foreign"
    BY <1>2, <2>1 DEF InstallSound
  <2>3. Service!PreparedWhenInstalled' /\ Service!ForeignTreeKept
    BY <1>1, <2>1 DEF FilesInPlace, Service!PreparedWhenInstalled, Service!ForeignTreeKept
  <2>4. "user" \in Preparing /\ "mkdir" \in Preparing \cup {"write"}
    BY DEF Preparing
  <2> QED BY <1>1, <2>1, <2>2, <2>3, <2>4, Prepares
<1>7. CASE Service!MakeDirectory
  <2>1. /\ command.op = "install" /\ command.step = "mkdir" /\ Service!Step("chown")
        /\ dirs' = IF dirs = "none" THEN "empty" ELSE dirs
        /\ UNCHANGED <<manager, file, loaded, proc, config, binary, account, kill>>
    BY <1>7 DEF Service!MakeDirectory, Service!At, Service!managed
  <2>2. account = "full" /\ dirs # "foreign"
    BY <1>2, <2>1 DEF InstallSound
  <2>3. Service!PreparedWhenInstalled' /\ Service!ForeignTreeKept
    BY <1>1, <2>1, <2>2 DEF FilesInPlace, Service!PreparedWhenInstalled, Service!ForeignTreeKept
  <2>4. "mkdir" \in Preparing /\ "chown" \in Preparing \cup {"write"}
    BY DEF Preparing
  <2>5. dirs' \in {"none", "empty", "service", "foreign"} /\ dirs' # "foreign"
    BY <1>1, <2>1, <2>2
  <2> QED BY <1>1, <2>1, <2>2, <2>3, <2>4, <2>5, Prepares
<1>8. CASE Service!OwnDirectory
  <2> DEFINE x == IF command.start THEN "probe" ELSE "write"
  <2>1. /\ command.op = "install" /\ command.step = "chown" /\ Service!Step(x) /\ dirs' = "service"
        /\ UNCHANGED <<manager, file, loaded, proc, config, binary, account, kill>>
    BY <1>8 DEF Service!OwnDirectory, Service!At, Service!managed
  <2>2. account = "full" /\ dirs # "foreign"
    BY <1>2, <2>1 DEF InstallSound
  <2>3. Service!PreparedWhenInstalled' /\ Service!ForeignTreeKept
    BY <1>1, <2>1, <2>2 DEF FilesInPlace, Service!PreparedWhenInstalled, Service!ForeignTreeKept
  <2>4. x \in {"probe", "write"}
    OBVIOUS
  <2> HIDE DEF x
  <2>5. "chown" \in Preparing /\ x \in Preparing \cup {"write"}
    BY <2>4 DEF Preparing
  <2> QED BY <1>1, <2>1, <2>2, <2>3, <2>4, <2>5, Prepares
<1>9. CASE Service!Probe
  <2>1. /\ command.op = "install" /\ command.step = "probe" /\ Service!Step("write")
        /\ UNCHANGED <<manager, file, loaded, proc, config, binary, account, dirs, kill>>
    BY <1>9 DEF Service!Probe, Service!At, Service!managed, Service!host
  <2>2. account = "full" /\ dirs = "service"
    BY <1>2, <2>1 DEF InstallSound
  <2>3. "probe" \in Preparing /\ "write" \in Preparing \cup {"write"}
    BY DEF Preparing
  <2> QED BY <1>1, <1>3, <2>1, <2>2, <2>3, Prepares
<1> QED BY <1>4, <1>5, <1>6, <1>7, <1>8, <1>9 DEF Service!Prepare

\* After the definition has been written, with nothing else happening to it.
LEMMA WrittenGoesOn ==
  ASSUME ServiceInv, command.op = "install", command.step \notin Preparing \cup {"write"},
         NEW x, x \in {"enable", "start", "restart", "unload", "load"},
         \/ Service!Step(x)
         \/ command' = [command EXCEPT !.step = x, !.stuck = TRUE] /\ last' = last,
         UNCHANGED <<manager, file, account, dirs>>,
         manager = "systemd" => x \notin {"unload", "load"},
         x \in {"enable", "start", "restart"} => loaded'[command.scope] = file[command.scope],
         x = "start" => ~command.existed,
         x = "load" => command'.stuck \/ loaded'[command.scope] = Service!None
  PROVE  CommandSound' /\ ResultKept' /\ command' \in ServiceCommand /\ command'.step \in StepsOf(command'.op)
<1>1. ServiceTypes /\ CommandSound /\ InstallSound
  BY DEF ServiceInv, CommandSound
<1>2. x \in StepsOf("install") /\ x \notin Preparing \cup {"write"}
  BY DEF StepsOf, Preparing
<1>3. /\ command' \in ServiceCommand /\ command'.step = x /\ last' = last
      /\ command'.op = command.op /\ command'.scope = command.scope
      /\ command'.existed = command.existed /\ command'.runtime = command.runtime
      /\ command'.sees = command.sees /\ command'.step \in StepsOf(command'.op)
  <2>1. CASE Service!Step(x)
    BY <1>1, <1>2, <2>1, Stepped
  <2>2. CASE command' = [command EXCEPT !.step = x, !.stuck = TRUE] /\ last' = last
    <3>1. command \in ServiceCommand /\ "install" \in Ops
      BY <1>1 DEF ServiceTypes, Ops
    <3>2. x \in UNION {StepsOf(o) : o \in Ops}
      BY <1>2, <3>1, StepIn
    <3> QED BY <1>2, <2>2, <3>1, <3>2 DEF ServiceCommand
  <2> QED BY <2>1, <2>2
<1>4. InstallSound'
  BY <1>1, <1>2, <1>3 DEF InstallSound, Service!Installed, Unseen
<1>5. ResultKept'
  BY <1>1, <1>3, UnderWay
<1>6. x # "notice"
  OBVIOUS
<1>7. CommandSound'
  BY <1>1, <1>3, <1>4, <1>6 DEF CommandSound
<1> QED BY <1>3, <1>5, <1>7

LEMMA EnableKeeps ==
  ASSUME ServiceInv, Service!Enable, UNCHANGED manager
  PROVE  ServiceInv' /\ ServiceStep
<1>1. /\ command.op = "install" /\ command.step = "enable"
      /\ IF command.start THEN Service!Step(Service!Action(command.existed)) ELSE Service!Ends(TRUE)
      /\ UNCHANGED <<manager, file, loaded, proc, config, binary, account, dirs, kill>>
  BY DEF Service!Enable, Service!At, Service!managed, Service!host
<1>2. InstallSound
  BY <1>1 DEF ServiceInv, CommandSound
<1>3. CASE command.start
  <2> DEFINE x == IF command.existed THEN "restart" ELSE "start"
  <2>1. Service!Step(x)
    BY <1>1, <1>3 DEF Service!Action
  <2>2. x \in {"start", "restart"} /\ (x = "start" => ~command.existed)
    OBVIOUS
  <2> HIDE DEF x
  <2>3. loaded[command.scope] = file[command.scope]
    BY <1>1, <1>2 DEF InstallSound
  <2>4. "enable" \notin Preparing \cup {"write"}
    BY DEF Preparing
  <2>5. /\ CommandSound' /\ ResultKept' /\ command' \in ServiceCommand
        /\ command'.step \in StepsOf(command'.op)
    BY <1>1, <2>1, <2>2, <2>3, <2>4, WrittenGoesOn
  <2> QED BY <1>1, <2>5, HostSame
<1>4. CASE ~command.start
  BY <1>1, <1>4, EndsQuietly
<1> QED BY <1>3, <1>4

-----------------------------------------------------------------------------
(* Updates.                                                                *)

LEMMA UpdateGoesOn ==
  ASSUME ServiceInv, command.op = "update", NEW x, x \in StepsOf("update"), Service!Step(x),
         x = "notice" => binary'[command.scope] = command.release
  PROVE  CommandSound' /\ ResultKept' /\ command' \in ServiceCommand /\ command'.step \in StepsOf(command'.op)
<1>1. ServiceTypes /\ CommandSound
  BY DEF ServiceInv
<1>2. /\ command' \in ServiceCommand /\ command'.step = x /\ last' = last
      /\ command'.op = command.op /\ command'.scope = command.scope
      /\ command'.release = command.release /\ command'.step \in StepsOf(command'.op)
  BY <1>1, Stepped
<1>3. ResultKept'
  BY <1>1, <1>2, UnderWay
<1>4. CommandSound'
  BY <1>1, <1>2 DEF CommandSound
<1> QED BY <1>2, <1>3, <1>4

LEMMA UpdateKeeps ==
  ASSUME ServiceInv, Service!UpToDate \/ Service!Download \/ Service!Replace \/ Service!Notice,
         UNCHANGED manager
  PROVE  ServiceInv' /\ ServiceStep
<1>1. ServiceTypes /\ FilesInPlace /\ CommandSound /\ Service!OutgrownIsWarned
  BY DEF ServiceInv
<1>2. command.scope \in Scopes
  BY <1>1 DEF ServiceTypes, ServiceCommand
<1>3. CASE Service!UpToDate
  <2>1. /\ command.op = "update" /\ Service!Ends(TRUE)
        /\ UNCHANGED <<manager, file, loaded, proc, config, binary, account, dirs, kill>>
    BY <1>3 DEF Service!UpToDate, Service!At, Service!managed, Service!host
  <2> QED BY <2>1, EndsQuietly
<1>4. CASE Service!Download
  <2>1. /\ command.op = "update" /\ Service!Step("replace")
        /\ UNCHANGED <<manager, file, loaded, proc, config, binary, account, dirs, kill>>
    BY <1>4 DEF Service!Download, Service!At, Service!managed, Service!host
  <2>2. "replace" \in StepsOf("update")
    BY DEF StepsOf
  <2>3. /\ CommandSound' /\ ResultKept' /\ command' \in ServiceCommand
        /\ command'.step \in StepsOf(command'.op)
    BY <2>1, <2>2, UpdateGoesOn
  <2> QED BY <2>1, <2>3, HostSame
<1>5. CASE Service!Replace
  <2>1. /\ command.op = "update" /\ Service!Step("notice")
        /\ binary' = [binary EXCEPT ![command.scope] = command.release]
        /\ UNCHANGED <<manager, file, loaded, proc, config, account, dirs, kill>>
    BY <1>5 DEF Service!Replace, Service!At, Service!managed, Service!host
  <2>2. "notice" \in StepsOf("update")
    BY DEF StepsOf
  <2>3. command.release \in Releases
    BY <1>1, <2>1 DEF CommandSound
  <2>4. binary' \in [Scopes -> Releases] /\ binary'[command.scope] = command.release
    BY <1>1, <1>2, <2>1, <2>3 DEF ServiceTypes
  <2>5. /\ CommandSound' /\ ResultKept' /\ command' \in ServiceCommand
        /\ command'.step \in StepsOf(command'.op)
    BY <2>1, <2>2, <2>4, UpdateGoesOn
  <2>6. ServiceTypes'
    BY <1>1, <2>1, <2>4, <2>5 DEF ServiceTypes, Service!Running
  <2> QED BY <1>1, <2>1, <2>5, <2>6, SameFiles, SameKill DEF ServiceInv
<1>6. CASE Service!Notice
  <2>1. /\ command.op = "update" /\ command.step = "notice" /\ command' = Service!NoCommand
        /\ UNCHANGED <<manager, file, loaded, proc, config, binary, account, dirs, kill>>
    BY <1>6 DEF Service!Notice, Service!At, Service!managed, Service!host
  <2>2. PICK answer \in {0} \cup {proc[s].release : s \in Scopes} :
            last' = Service!Result(TRUE, TRUE, Service!NeedsNotice(command.release, answer))
    BY <1>6, ScopesAre DEF Service!Notice
  <2> DEFINE notice == Service!NeedsNotice(command.release, answer)
  <2>3. last'.op = "update" /\ last'.scope = command.scope /\ last'.notice = notice
    BY <2>1, <2>2, ResultIs
  <2>4. binary[command.scope] = command.release /\ command.release # 0
    BY <1>1, <2>1, ServiceBudgets DEF CommandSound
  <2>5. ~notice /\ Service!Running(command.scope) => proc[command.scope].release = binary[command.scope]
    <3> SUFFICES ASSUME ~notice, Service!Running(command.scope)
                 PROVE  proc[command.scope].release = binary[command.scope]
      OBVIOUS
    <3>1. answer = command.release /\ answer # 0
      BY <2>4 DEF Service!NeedsNotice
    <3>2. PICK t \in Scopes : answer = proc[t].release
      BY <3>1
    <3>3. Service!Running(t)
      BY <3>1, <3>2, NoneIs DEF Service!Running
    <3>4. t = command.scope
      BY <1>1, <1>2, <3>3 DEF ServiceTypes
    <3> QED BY <2>4, <3>1, <3>2, <3>4
  <2> HIDE DEF notice
  <2>6. ResultKept'
    <3>1. ~last'.notice /\ proc'[last'.scope] # Service!NoProcess
              => proc'[last'.scope].release = binary'[last'.scope]
      BY <2>1, <2>3, <2>5 DEF Service!Running
    <3>2. Service!UpdateTellsRestart'
      BY <3>1 DEF Service!UpdateTellsRestart, Service!Running
    <3> QED BY <1>2, <2>3, <3>2 DEF ResultKept
  <2> QED BY <2>1, <2>6, Idle, HostSame
<1> QED BY <1>3, <1>4, <1>5, <1>6

-----------------------------------------------------------------------------
(* Commands that are interrupted or fail.                                  *)

LEMMA FailsKeep ==
  ASSUME ServiceInv, UNCHANGED manager,
         Service!Interrupt \/ Service!StepFails \/ Service!UnloadFails \/ Service!SystemctlFails
  PROVE  ServiceInv' /\ ServiceStep
<1>1. UNCHANGED <<manager, file, loaded, proc, config, binary, account, dirs, kill>>
  BY DEF Service!Interrupt, Service!StepFails, Service!UnloadFails, Service!SystemctlFails,
         Service!managed, Service!host
<1>2. ServiceTypes /\ CommandSound /\ ResultKept
  BY DEF ServiceInv
<1>3. CASE Service!Interrupt
  <2>1. command' = Service!NoCommand /\ last' = last
    BY <1>3 DEF Service!Interrupt
  <2>2. ResultKept'
    BY <1>1, <1>2, <2>1 DEF ResultKept, Service!UpdateTellsRestart, Service!Installed, Service!Running
  <2> QED BY <1>1, <2>1, <2>2, Idle, HostSame
<1>4. CASE Service!Ends(FALSE)
  BY <1>1, <1>4, EndsQuietly
<1>7. CASE command.op = "stop" /\ \E ok \in BOOLEAN : Service!Ends(ok)
  BY <1>1, <1>7, EndsQuietly
<1>5. CASE Service!UnloadFails /\ command.op # "stop"
  <2>1. /\ command.step = "unload" /\ manager = "launchd"
        /\ \/ command.op = "uninstall" /\ Service!Step("remove")
           \/ /\ command.op # "uninstall" /\ last' = last
              /\ command' = [command EXCEPT !.step = "load", !.stuck = TRUE]
    BY <1>5 DEF Service!UnloadFails
  <2>2. command.op \in {"install", "restart", "uninstall"}
    <3>1. "unload" \in StepsOf(command.op) /\ command.op \in Ops
      BY <1>2, <2>1 DEF ServiceTypes, ServiceCommand
    <3>2. /\ "unload" \notin StepsOf("none") /\ "unload" \notin StepsOf("start")
          /\ "unload" \notin StepsOf("update")
      BY DEF StepsOf
    <3>3. command.op # "none" /\ command.op # "start" /\ command.op # "update"
      BY <3>1, <3>2
    <3>4. command.op # "stop"
      BY <1>5
    <3> QED BY <3>1, <3>3, <3>4 DEF Ops
  <2>3. /\ CommandSound' /\ ResultKept' /\ command' \in ServiceCommand
        /\ command'.step \in StepsOf(command'.op)
    <3>1. CASE command.op = "uninstall"
      <4>1. "remove" \in StepsOf("uninstall")
        BY DEF StepsOf
      <4> QED BY <1>1, <2>1, <3>1, <4>1, StepsOn
    <3>2. CASE command.op = "restart"
      <4>1. "load" \in StepsOf("restart") /\ "restart" \in Ops
        BY DEF StepsOf, Ops
      <4>2. command \in ServiceCommand /\ "load" \in UNION {StepsOf(o) : o \in Ops}
        BY <1>2, <4>1, StepIn DEF ServiceTypes
      <4>3. /\ command' \in ServiceCommand /\ command'.step = "load" /\ command'.op = "restart"
            /\ command'.scope = command.scope /\ last' = last
        BY <2>1, <3>2, <4>2 DEF ServiceCommand
      <4>4. CommandSound'
        BY <1>1, <1>2, <3>2, <4>3 DEF CommandSound, Service!Installed
      <4> QED BY <1>2, <3>2, <4>1, <4>3, <4>4, UnderWay
    <3>3. CASE command.op = "install"
      <4>1. "unload" \notin Preparing \cup {"write"}
        BY DEF Preparing
      <4>2. command' = [command EXCEPT !.step = "load", !.stuck = TRUE] /\ last' = last
        BY <2>1, <3>3
      <4>3. command'.stuck
        BY <1>2, <4>2 DEF ServiceTypes, ServiceCommand
      <4> QED BY <1>1, <2>1, <3>3, <4>1, <4>2, <4>3, WrittenGoesOn
    <3> QED BY <2>2, <3>1, <3>2, <3>3
  <2> QED BY <1>1, <2>3, HostSame
<1>6. Service!StepFails \/ Service!SystemctlFails => Service!Ends(FALSE)
  BY DEF Service!StepFails, Service!SystemctlFails
<1>8. Service!UnloadFails /\ command.op = "stop" => \E ok \in BOOLEAN : Service!Ends(ok)
  BY DEF Service!UnloadFails
<1> QED BY <1>3, <1>4, <1>5, <1>6, <1>7, <1>8

-----------------------------------------------------------------------------
(* The definition is written.                                              *)

LEMMA ServiceWriteKeeps ==
  ASSUME ServiceInv, Service!Write, UNCHANGED manager
  PROVE  ServiceInv' /\ ServiceStep
<1>1. ServiceTypes /\ FilesInPlace /\ CommandSound /\ Service!OutgrownIsWarned
  BY DEF ServiceInv
<1>0. PICK s \in Scopes : s = command.scope
  BY <1>1 DEF ServiceTypes, ServiceCommand
<1> DEFINE d == [runtime |-> command.runtime, generation |-> "current", stop |-> command.stop]
<1>2. /\ command.op = "install" /\ command.step = "write" /\ file' = [file EXCEPT ![s] = d]
      /\ UNCHANGED <<manager, loaded, proc, config, binary, account, dirs, kill>>
  BY <1>0 DEF Service!Write, Service!At, Service!managed, Service!host
<1>3. InstallSound /\ command.step \in Preparing \cup {"write"}
  BY <1>1, <1>2 DEF CommandSound
<1>4. /\ s \in Scopes /\ command.stop \in Nat /\ command.start \in BOOLEAN
      /\ command.existed \in BOOLEAN
      /\ command.runtime \in {"root", "runscaler", "owner"}
  BY <1>1, <1>3 DEF ServiceTypes, ServiceCommand, InstallSound
<1>5. d \in Service!Definition /\ d.runtime = command.runtime
  BY <1>4 DEF Service!Definition
<1> HIDE DEF d
<1>6. d # Service!None /\ Service!None.runtime = "none"
  BY <1>5, NoneIs
<1>7. /\ file' \in [Scopes -> Service!Definition \cup {Service!None}]
      /\ file'[s] = d
      /\ \A t \in Scopes \ {s} : file'[t] = file[t] /\ (Service!Installed(t) => Unseen(t))
  BY <1>0, <1>1, <1>2, <1>3, <1>4, <1>5, InstalledIs DEF ServiceTypes, InstallSound
<1>8. FilesInPlace'
  <2>1. "user" \in Scopes
    BY DEF Scopes
  <2>2. s = "user" => file'["user"].runtime = "owner"
    BY <1>0, <1>3, <1>5, <1>7 DEF InstallSound
  <2>3. Service!Installed("user")' => file'["user"].runtime = "owner"
    BY <1>1, <1>7, <2>1, <2>2 DEF FilesInPlace, Service!Installed, InstallSound
  <2>4. \A t \in Scopes : file'[t].runtime = "runscaler" => account' = "full" /\ dirs' = "service"
    <3>1. file'[s].runtime = "runscaler" => account' = "full" /\ dirs' = "service"
      BY <1>0, <1>2, <1>3, <1>5, <1>7 DEF InstallSound
    <3>2. \A t \in Scopes : file[t].runtime = "runscaler" => account' = "full" /\ dirs' = "service"
      BY <1>1, <1>2, ScopesAre DEF FilesInPlace, Service!PreparedWhenInstalled
    <3> QED BY <1>7, <3>1, <3>2
  <2>5. Service!PreparedWhenInstalled'
    BY <2>4, ScopesAre DEF Service!PreparedWhenInstalled
  <2> QED BY <2>3, <2>5 DEF FilesInPlace
<1>9. ServiceStep
  <2>1. \A t \in Scopes : Service!Installed(t) /\ file'[t] # Service!None /\ loaded[t] \in {Service!None, file[t]}
            => file'[t].runtime = file[t].runtime
    BY <1>0, <1>3, <1>5, <1>7 DEF InstallSound
  <2>2. Service!IdentityKept
    BY <2>1, ScopesAre DEF Service!IdentityKept
  <2>3. Service!ForeignTreeKept
    BY <1>2 DEF Service!ForeignTreeKept
  <2>4. Service!OneInstallation
    <3> SUFFICES ASSUME \A t \in Scopes : file'[t] # Service!None, NEW u \in Scopes, ~Service!Installed(u)
                 PROVE  command.op = "install" /\ command.scope = "system" /\ ~command.sees
      BY ScopesAre DEF Service!OneInstallation
    <3>1. u = s
      BY <1>7 DEF Service!Installed
    <3>2. PICK t \in Scopes \ {s} : TRUE
      BY DEF Scopes
    <3>3. Service!Installed(t)
      BY <1>7, <3>2 DEF Service!Installed
    <3>4. t = "user" /\ ~command.sees
      BY <1>7, <3>2, <3>3 DEF Unseen
    <3> QED BY <1>0, <1>2, <3>2, <3>4 DEF Scopes
  <2> QED BY <2>2, <2>3, <2>4 DEF ServiceStep
<1>10. CASE manager # "systemd" /\ ~command.start
  <2>1. Service!Ends(TRUE)
    BY <1>10 DEF Service!Write
  <2>2. /\ ResultKept' /\ CommandSound' /\ command' \in ServiceCommand
        /\ command'.step \in StepsOf(command'.op)
    BY <1>1, <1>10, <2>1, EndedResult
  <2>3. ServiceTypes'
    BY <1>1, <1>2, <1>7, <2>2 DEF ServiceTypes, Service!Running
  <2> QED BY <1>1, <1>2, <1>8, <1>9, <2>2, <2>3, SameKill DEF ServiceInv
<1>11. CASE manager = "systemd" \/ command.start
  <2> DEFINE x == IF manager = "systemd" THEN "reload" ELSE IF command.existed THEN "unload" ELSE "load"
  <2>1. Service!Step(x)
    BY <1>11 DEF Service!Write, Service!Step
  <2>2. /\ x \in {"reload", "unload", "load"} /\ x \in StepsOf("install")
        /\ x \notin Preparing \cup {"write"} /\ (manager = "systemd" => x = "reload")
        /\ x = "load" => ~command.existed
    BY DEF StepsOf, Preparing
  <2> HIDE DEF x
  <2>3. /\ command'.step = x /\ command'.scope = s /\ command'.existed = command.existed
        /\ command'.runtime = command.runtime /\ command'.sees = command.sees
        /\ x = "load" => ~command'.existed
    BY <1>0, <1>1, <1>2, <2>1, <2>2, Stepped
  <2>4. InstallSound'
    <3>1. \A other \in Scopes \ {command'.scope} : Service!Installed(other)' => Unseen(other)'
      BY <1>7, <2>3 DEF Service!Installed, Unseen
    <3>2. Service!Installed(s)'
      BY <1>6, <1>7 DEF Service!Installed
    <3>3. (command'.scope = "user" => command'.runtime = "owner") /\ command'.runtime # "none"
      BY <1>0, <1>3, <2>3 DEF InstallSound
    <3> QED BY <1>2, <2>2, <2>3, <3>1, <3>2, <3>3 DEF InstallSound, Preparing, Service!Installed
  <2>5. /\ CommandSound' /\ ResultKept' /\ command' \in ServiceCommand
        /\ command'.step \in StepsOf(command'.op)
    BY <1>2, <2>1, <2>2, <2>4, InstallGoesOn
  <2>6. ServiceTypes'
    BY <1>1, <1>2, <1>7, <2>5 DEF ServiceTypes, Service!Running
  <2> QED BY <1>1, <1>2, <1>8, <1>9, <2>5, <2>6, SameKill DEF ServiceInv
<1> QED BY <1>10, <1>11

-----------------------------------------------------------------------------
(* The service manager and what the commands ask of it.                    *)

\* A step of the manager: definitions in memory and processes.
LEMMA Managed ==
  ASSUME ServiceInv, UNCHANGED <<manager, file, config, binary, account, dirs>>,
         loaded' \in [Scopes -> Service!Definition \cup {Service!None}],
         proc' \in [Scopes -> Processes \cup {Service!NoProcess}],
         \A t \in Scopes : proc'[t] # Service!NoProcess => loaded'[t] # Service!None,
         \A t, u \in Scopes : proc'[t] # Service!NoProcess /\ proc'[u] # Service!NoProcess => t = u,
         command' \in ServiceCommand, command'.step \in StepsOf(command'.op),
         CommandSound', ResultKept', Service!OutgrownIsWarned'
  PROVE  ServiceInv' /\ ServiceStep
<1>1. ServiceTypes /\ FilesInPlace
  BY DEF ServiceInv
<1>2. ServiceTypes'
  BY <1>1 DEF ServiceTypes, Service!Running
<1> QED BY <1>1, <1>2, SameFiles DEF ServiceInv

LEMMA ReloadKeeps ==
  ASSUME ServiceInv, Service!Reload, UNCHANGED manager
  PROVE  ServiceInv' /\ ServiceStep
<1>1. /\ command.op = "install" /\ command.step = "reload" /\ Service!Step("enable")
      /\ loaded' = [loaded EXCEPT ![command.scope] = file[command.scope]]
      /\ UNCHANGED <<manager, file, proc, config, binary, account, dirs, kill>>
  BY DEF Service!Reload, Service!At, Service!host
<1>2. ServiceTypes /\ InstallSound /\ Service!OutgrownIsWarned
  BY <1>1 DEF ServiceInv, CommandSound
<1>3. command.scope \in Scopes
  BY <1>2 DEF ServiceTypes, ServiceCommand
<1>4. "reload" \notin Preparing \cup {"write"}
  BY DEF Preparing
<1>5. Service!Installed(command.scope)
  BY <1>1, <1>2, <1>4 DEF InstallSound
<1>6. \A s \in Scopes : loaded'[s] = IF s = command.scope THEN file[s] ELSE loaded[s]
  BY <1>1, <1>2 DEF ServiceTypes
<1>7. loaded' \in [Scopes -> Service!Definition \cup {Service!None}]
  BY <1>1, <1>2, <1>3 DEF ServiceTypes
<1>8. /\ \A s \in Scopes : proc'[s] # Service!NoProcess => loaded'[s] # Service!None
      /\ \A t, u \in Scopes : proc'[t] # Service!NoProcess /\ proc'[u] # Service!NoProcess => t = u
  BY <1>1, <1>2, <1>5, <1>6 DEF ServiceTypes, Service!Running, Service!Installed
<1>9. loaded'[command.scope] = file[command.scope]
  BY <1>3, <1>6
<1>10. /\ CommandSound' /\ ResultKept' /\ command' \in ServiceCommand
       /\ command'.step \in StepsOf(command'.op)
  BY <1>1, <1>4, <1>9, WrittenGoesOn
<1>11. proc' \in [Scopes -> Processes \cup {Service!NoProcess}]
  BY <1>1, <1>2 DEF ServiceTypes
<1> QED BY <1>1, <1>2, <1>7, <1>8, <1>10, <1>11, Managed, SameKill

\* A command that starts the service finds it installed.
LEMMA Starting ==
  ASSUME ServiceInv, command.step \in {"start", "restart", "load"}
  PROVE  /\ command.op \in {"install", "start", "restart"} /\ command.scope \in Scopes
         /\ Service!Installed(command.scope)
         /\ command.op = "install" => InstallSound
<1>1. ServiceTypes /\ CommandSound
  BY DEF ServiceInv
<1>2. command.op \in Ops /\ command.scope \in Scopes /\ command.step \in StepsOf(command.op)
  BY <1>1 DEF ServiceTypes, ServiceCommand
<1>3. command.op \in {"install", "start", "restart"}
  BY <1>2 DEF StepsOf, Ops
<1>4. command.op = "install" => InstallSound
  BY <1>1 DEF CommandSound
<1>5. command.step \notin Preparing \cup {"write"}
  BY DEF Preparing
<1>6. Service!Installed(command.scope)
  BY <1>1, <1>3, <1>4, <1>5 DEF CommandSound, InstallSound
<1> QED BY <1>2, <1>3, <1>4, <1>6

\* The job of the service is loaded and perhaps starts a process.
LEMMA JobStarts ==
  ASSUME ServiceInv, NEW s \in Scopes, s = command.scope, NEW d \in Service!Definition,
         loaded' = [loaded EXCEPT ![s] = d],
         \/ UNCHANGED proc /\ ~(command.op = "install" /\ command.start /\ command.existed)
         \/ proc' = Service!Ended(s)
         \/ /\ \A t \in Scopes \ {s} : ~Service!Running(t)
            /\ proc' = [proc EXCEPT ![s] = [def |-> d, drain |-> config[s], release |-> binary[s]]],
         Service!Ends(TRUE),
         command.op = "install" /\ command.start /\ command.existed /\ ~command.stuck =>
             d = file[s] /\ file[s] # Service!None,
         Service!OutgrownIsWarned',
         UNCHANGED <<manager, file, config, binary, account, dirs>>
  PROVE  ServiceInv' /\ ServiceStep
<1>1. ServiceTypes
  BY DEF ServiceInv
<1>2. /\ loaded' \in [Scopes -> Service!Definition \cup {Service!None}]
      /\ loaded'[s] = d /\ d # Service!None
      /\ \A t \in Scopes \ {s} : loaded'[t] = loaded[t]
  BY <1>1, NoneIs DEF ServiceTypes
<1>3. /\ proc' \in [Scopes -> Processes \cup {Service!NoProcess}]
      /\ \A t \in Scopes \ {s} : proc'[t] = proc[t]
      /\ \/ proc'[s] # Service!NoProcess => proc'[s].def = d
         \/ UNCHANGED proc /\ ~(command.op = "install" /\ command.start /\ command.existed)
  BY <1>1, ProcStarted DEF ServiceTypes
<1>4. \A t \in Scopes : proc'[t] # Service!NoProcess => loaded'[t] # Service!None
  BY <1>1, <1>2, <1>3 DEF ServiceTypes, Service!Running
<1>6. \A t, u \in Scopes : proc'[t] # Service!NoProcess /\ proc'[u] # Service!NoProcess => t = u
  <2>1. CASE UNCHANGED proc
    BY <1>1, <2>1 DEF ServiceTypes, Service!Running
  <2>2. CASE proc' = Service!Ended(s)
    BY <1>1, <2>2 DEF ServiceTypes, Service!Running, Service!Ended
  <2>3. CASE \A t \in Scopes \ {s} : ~Service!Running(t)
    BY <1>3, <2>3 DEF Service!Running
  <2> QED BY <2>1, <2>2, <2>3
<1>5. /\ ResultKept' /\ CommandSound' /\ command' \in ServiceCommand
      /\ command'.step \in StepsOf(command'.op)
  <2>1. command.op = "install" /\ command.start /\ command.existed /\ ~command.stuck =>
            /\ file'[s] # Service!None /\ loaded'[s] = file'[s]
            /\ proc'[s] # Service!NoProcess => proc'[s].def = file'[s]
    BY <1>2, <1>3 DEF Service!Running
  <2> QED BY <1>1, <2>1, EndedResult
<1> QED BY <1>2, <1>3, <1>4, <1>5, <1>6, Managed

LEMMA StartsProc ==
  ASSUME NEW s \in Scopes, NEW d, Service!StartProc(s, d)
  PROVE  \/ proc' = Service!Ended(s)
         \/ /\ \A t \in Scopes \ {s} : ~Service!Running(t)
            /\ proc' = [proc EXCEPT ![s] = [def |-> d, drain |-> config[s], release |-> binary[s]]]
BY ScopesAre DEF Service!StartProc

LEMMA StartUnitKeeps ==
  ASSUME ServiceInv, Service!StartUnit, UNCHANGED manager
  PROVE  ServiceInv' /\ ServiceStep
<1>1. /\ command.step = "start" /\ Service!Ends(TRUE)
      /\ UNCHANGED <<manager, file, config, binary, account, dirs, kill>>
  BY DEF Service!StartUnit, Service!host
<1>2. ServiceTypes /\ Service!OutgrownIsWarned
  BY DEF ServiceInv
<1>3. PICK s \in Scopes : s = command.scope /\ Service!Installed(s)
  BY <1>1, Starting
<1>4. PICK d : d = Service!Effective(s)
  OBVIOUS
<1>5. d \in Service!Definition
  BY <1>2, <1>3, <1>4, InstalledIs DEF Service!Effective
<1>6. /\ loaded' = [loaded EXCEPT ![s] = d]
      /\ UNCHANGED proc \/ Service!StartProc(s, d)
  BY <1>3, <1>4 DEF Service!StartUnit
<1>7. ~(command.op = "install" /\ command.start /\ command.existed)
  BY <1>1, Starting DEF InstallSound
<1> QED BY <1>1, <1>2, <1>3, <1>5, <1>6, <1>7, StartsProc, JobStarts, SameKill

LEMMA RestartUnitKeeps ==
  ASSUME ServiceInv, Service!RestartUnit, UNCHANGED manager
  PROVE  ServiceInv' /\ ServiceStep
<1>1. /\ command.step = "restart" /\ Service!Ends(TRUE)
      /\ UNCHANGED <<manager, file, config, binary, account, dirs>>
  BY DEF Service!RestartUnit, Service!host
<1>2. ServiceTypes /\ Service!OutgrownIsWarned
  BY DEF ServiceInv
<1>3. PICK s \in Scopes : s = command.scope /\ Service!Installed(s)
  BY <1>1, Starting
<1>4. PICK d : d = Service!Effective(s)
  OBVIOUS
<1>5. d \in Service!Definition
  BY <1>2, <1>3, <1>4, InstalledIs DEF Service!Effective
<1>6. loaded' = [loaded EXCEPT ![s] = d] /\ Service!Stopped(s) /\ Service!StartProc(s, d)
  BY <1>3, <1>4 DEF Service!RestartUnit
<1>7. command.op = "install" => d = file[s] /\ file[s] # Service!None
  <2>1. command.op = "install" => loaded[s] = file[s]
    BY <1>1, <1>3, Starting DEF InstallSound
  <2> QED BY <1>3, <1>4, <2>1 DEF Service!Effective, Service!Installed
<1>8. Service!OutgrownIsWarned'
  BY <1>2, <1>6, KillTold
<1> QED BY <1>1, <1>2, <1>3, <1>5, <1>6, <1>7, <1>8, StartsProc, JobStarts

LEMMA ProcEnds ==
  ASSUME ServiceTypes, NEW s \in Scopes, proc' = Service!Ended(s)
  PROVE  /\ proc' \in [Scopes -> Processes \cup {Service!NoProcess}]
         /\ proc'[s] = Service!NoProcess
         /\ \A t \in Scopes \ {s} : proc'[t] = proc[t]
BY DEF ServiceTypes, Service!Ended

\* The job of the service ends, and may be forgotten.
LEMMA JobEnds ==
  ASSUME ServiceInv, NEW s \in Scopes, proc' = Service!Ended(s),
         UNCHANGED loaded \/ loaded' = [loaded EXCEPT ![s] = Service!None],
         CommandSound', ResultKept', command' \in ServiceCommand, command'.step \in StepsOf(command'.op),
         Service!OutgrownIsWarned',
         UNCHANGED <<manager, file, config, binary, account, dirs>>
  PROVE  ServiceInv' /\ ServiceStep
<1>1. ServiceTypes
  BY DEF ServiceInv
<1>2. /\ loaded' \in [Scopes -> Service!Definition \cup {Service!None}]
      /\ \A t \in Scopes \ {s} : loaded'[t] = loaded[t]
  BY <1>1 DEF ServiceTypes
<1>3. /\ proc' \in [Scopes -> Processes \cup {Service!NoProcess}]
      /\ proc'[s] = Service!NoProcess
      /\ \A t \in Scopes \ {s} : proc'[t] = proc[t]
  BY <1>1, ProcEnds
<1>4. /\ \A t \in Scopes : proc'[t] # Service!NoProcess => loaded'[t] # Service!None
      /\ \A t, u \in Scopes : proc'[t] # Service!NoProcess /\ proc'[u] # Service!NoProcess => t = u
  BY <1>1, <1>2, <1>3 DEF ServiceTypes, Service!Running
<1> QED BY <1>2, <1>3, <1>4, Managed

LEMMA StopUnitKeeps ==
  ASSUME ServiceInv, Service!StopUnit, UNCHANGED manager
  PROVE  ServiceInv' /\ ServiceStep
<1>1. /\ command.op = "stop" /\ Service!Ends(TRUE)
      /\ UNCHANGED <<manager, file, loaded, config, binary, account, dirs>>
      /\ Service!Stopped(command.scope) /\ proc' = Service!Ended(command.scope)
  BY DEF Service!StopUnit, Service!At, Service!host
<1>2. ServiceTypes /\ Service!OutgrownIsWarned /\ command.scope \in Scopes
  BY DEF ServiceInv, ServiceTypes, ServiceCommand
<1>3. /\ ResultKept' /\ CommandSound' /\ command' \in ServiceCommand
      /\ command'.step \in StepsOf(command'.op)
  BY <1>1, <1>2, EndedResult
<1>4. PICK s \in Scopes : s = command.scope
  BY <1>2
<1>5. Service!OutgrownIsWarned'
  BY <1>1, <1>2, <1>4, KillTold
<1> QED BY <1>1, <1>3, <1>4, <1>5, JobEnds

LEMMA UnloadKeeps ==
  ASSUME ServiceInv, Service!Unload, UNCHANGED manager
  PROVE  ServiceInv' /\ ServiceStep
<1>1. /\ command.step = "unload" /\ manager = "launchd"
      /\ UNCHANGED <<manager, file, config, binary, account, dirs>>
      /\ Service!Stopped(command.scope) /\ proc' = Service!Ended(command.scope)
      /\ loaded' = [loaded EXCEPT ![command.scope] = Service!None]
      /\ \/ command.op = "stop" /\ Service!Ends(TRUE)
         \/ command.op = "uninstall" /\ Service!Step("remove")
         \/ command.op \notin {"stop", "uninstall"} /\ Service!Step("load")
  BY DEF Service!Unload, Service!host
<1>2. ServiceTypes /\ Service!OutgrownIsWarned /\ command.scope \in Scopes
  BY DEF ServiceInv, ServiceTypes, ServiceCommand
<1>3. PICK s \in Scopes : s = command.scope
  BY <1>2
<1>4. Service!OutgrownIsWarned'
  BY <1>1, <1>2, <1>3, KillTold
<1>5. command.op \in {"stop", "install", "restart", "uninstall"}
  <2>1. "unload" \in StepsOf(command.op) /\ command.op \in Ops
    BY <1>1, <1>2 DEF ServiceTypes, ServiceCommand
  <2> QED BY <2>1 DEF StepsOf, Ops
<1>6. /\ ResultKept' /\ CommandSound' /\ command' \in ServiceCommand
      /\ command'.step \in StepsOf(command'.op)
  <2>1. CASE command.op = "stop"
    <3>1. Service!Ends(TRUE)
      BY <1>1, <2>1
    <3> QED BY <1>2, <2>1, <3>1, EndedResult
  <2>2. CASE command.op = "uninstall"
    <3>1. "remove" \in StepsOf("uninstall") /\ Service!Step("remove")
      BY <1>1, <2>2 DEF StepsOf
    <3> QED BY <1>1, <2>2, <3>1, StepsOn
  <2>3. CASE command.op = "restart"
    <3>1. "load" \in StepsOf("restart") /\ Service!Step("load")
      BY <1>1, <2>3 DEF StepsOf
    <3> QED BY <1>1, <2>3, <3>1, StepsOn
  <2>4. CASE command.op = "install"
    <3>1. "unload" \notin Preparing \cup {"write"} /\ Service!Step("load")
          /\ loaded'[command.scope] = Service!None
      BY <1>1, <1>2, <2>4 DEF Preparing, ServiceTypes
    <3> QED BY <1>1, <2>4, <3>1, WrittenGoesOn
  <2> QED BY <1>5, <2>1, <2>2, <2>3, <2>4
<1> QED BY <1>1, <1>3, <1>4, <1>6, JobEnds

LEMMA LoadKeeps ==
  ASSUME ServiceInv, Service!Load, UNCHANGED manager
  PROVE  ServiceInv' /\ ServiceStep
<1>1. /\ command.step = "load" /\ UNCHANGED <<manager, file, config, binary, account, dirs, kill>>
  BY DEF Service!Load, Service!host
<1>2. ServiceTypes /\ Service!OutgrownIsWarned
  BY DEF ServiceInv
<1>3. PICK s \in Scopes : s = command.scope /\ Service!Installed(s)
  BY <1>1, Starting
<1>4. CASE loaded[s] # Service!None
  <2>1. (\E ok \in BOOLEAN : Service!Ends(ok)) /\ UNCHANGED <<loaded, proc>>
    BY <1>3, <1>4 DEF Service!Load
  <2>2. ~(command.op = "install" /\ command.existed /\ ~command.stuck)
    BY <1>1, <1>3, <1>4, Starting DEF InstallSound
  <2> QED BY <1>1, <2>1, <2>2, EndsQuietly
<1>5. CASE loaded[s] = Service!None
  <2>1. PICK d : d = file[s]
    OBVIOUS
  <2>2. d \in Service!Definition /\ file[s] # Service!None
    BY <1>2, <1>3, <2>1, InstalledIs DEF Service!Installed
  <2>3. loaded' = [loaded EXCEPT ![s] = d] /\ Service!StartProc(s, d) /\ Service!Ends(TRUE)
    BY <1>3, <1>5, <2>1 DEF Service!Load
  <2>4. Service!OutgrownIsWarned'
    BY <1>1, <1>2, SameKill
  <2> QED BY <1>1, <1>3, <2>1, <2>2, <2>3, <2>4, StartsProc, JobStarts
<1> QED BY <1>4, <1>5

LEMMA UninstallStopKeeps ==
  ASSUME ServiceInv, Service!UninstallStop, UNCHANGED manager
  PROVE  ServiceInv' /\ ServiceStep
<1>1. /\ command.op = "uninstall" /\ Service!Step("remove")
      /\ UNCHANGED <<manager, file, loaded, config, binary, account, dirs>>
      /\ \/ Service!Stopped(command.scope) /\ proc' = Service!Ended(command.scope)
         \/ UNCHANGED <<proc, kill>>
  BY DEF Service!UninstallStop, Service!At, Service!host
<1>2. ServiceTypes /\ Service!OutgrownIsWarned /\ command.scope \in Scopes
  BY DEF ServiceInv, ServiceTypes, ServiceCommand
<1>3. "remove" \in StepsOf("uninstall")
  BY DEF StepsOf
<1>4. /\ ResultKept' /\ CommandSound' /\ command' \in ServiceCommand
      /\ command'.step \in StepsOf(command'.op)
  BY <1>1, <1>3, StepsOn
<1>5. PICK s \in Scopes : s = command.scope
  BY <1>2
<1>6. CASE UNCHANGED <<proc, kill>>
  BY <1>1, <1>4, <1>6, HostSame
<1>7. CASE Service!Stopped(s) /\ proc' = Service!Ended(s)
  <2>1. Service!OutgrownIsWarned'
    BY <1>2, <1>7, KillTold
  <2> QED BY <1>1, <1>4, <1>7, <2>1, JobEnds
<1> QED BY <1>1, <1>5, <1>6, <1>7

LEMMA RemoveKeeps ==
  ASSUME ServiceInv, Service!Remove, UNCHANGED manager
  PROVE  ServiceInv' /\ ServiceStep
<1>1. ServiceTypes /\ FilesInPlace /\ Service!OutgrownIsWarned /\ command.scope \in Scopes
  BY DEF ServiceInv, ServiceTypes, ServiceCommand
<1>2. PICK s \in Scopes : s = command.scope
  BY <1>1
<1>3. /\ command.op = "uninstall" /\ Service!Ends(TRUE)
      /\ UNCHANGED <<manager, proc, config, binary, account, dirs, kill>>
      /\ file' = [file EXCEPT ![s] = Service!None]
      /\ \/ UNCHANGED loaded
         \/ ~Service!Running(s) /\ loaded' = [loaded EXCEPT ![s] = Service!None]
  BY <1>2 DEF Service!Remove, Service!At, Service!host
<1>4. /\ file' \in [Scopes -> Service!Definition \cup {Service!None}]
      /\ file'[s] = Service!None /\ \A t \in Scopes \ {s} : file'[t] = file[t]
  BY <1>1, <1>3 DEF ServiceTypes
<1>5. /\ ResultKept' /\ CommandSound' /\ command' \in ServiceCommand
      /\ command'.step \in StepsOf(command'.op)
  BY <1>1, <1>3, EndedResult
<1>6. /\ loaded' \in [Scopes -> Service!Definition \cup {Service!None}]
      /\ \A t \in Scopes : Service!Running(t) => loaded'[t] # Service!None
  BY <1>1, <1>3 DEF ServiceTypes
<1>7. ServiceTypes'
  BY <1>1, <1>3, <1>4, <1>5, <1>6 DEF ServiceTypes, Service!Running
<1>8. FilesInPlace' /\ Service!IdentityKept /\ Service!OneInstallation
  <2>1. \A t \in Scopes : file'[t] = file[t] \/ file'[t] = Service!None
    BY <1>4
  <2>3. Service!Installed("user")' => file'["user"].runtime = "owner"
    BY <1>1, <2>1 DEF FilesInPlace, Service!Installed, Scopes
  <2>4. Service!PreparedWhenInstalled'
    BY <1>1, <1>3, <2>1, ScopesAre, NoneIs DEF FilesInPlace, Service!PreparedWhenInstalled
  <2>5. Service!IdentityKept
    BY <2>1, ScopesAre DEF Service!IdentityKept
  <2> QED BY <2>1, <2>3, <2>4, <2>5, NothingInstalled DEF FilesInPlace
<1>9. Service!ForeignTreeKept
  BY <1>3 DEF Service!ForeignTreeKept
<1> QED BY <1>1, <1>3, <1>5, <1>7, <1>8, <1>9, SameKill DEF ServiceInv, ServiceStep

-----------------------------------------------------------------------------
(* What happens beside the commands.                                       *)

\* A command under way does not look at the processes.
LEMMA SoundBeside ==
  ASSUME ServiceInv, UNCHANGED <<manager, file, account, dirs, command, last, binary>>,
         \A t \in Scopes : loaded'[t] = loaded[t] \/ ~Service!Installed(t)
  PROVE  CommandSound' /\ command' \in ServiceCommand /\ command'.step \in StepsOf(command'.op)
<1>1. ServiceTypes /\ CommandSound
  BY DEF ServiceInv
<1>2. command \in ServiceCommand /\ command.scope \in Scopes
  BY <1>1 DEF ServiceTypes, ServiceCommand
<1>3. command.op = "install" => InstallSound'
  <2>1. ASSUME InstallSound, ~Service!Installed(command.scope)
        PROVE  /\ command.step \in Preparing \cup {"write"}
               /\ command.step \notin {"enable", "start", "restart", "load"}
    BY <2>1 DEF InstallSound, Preparing
  <2>2. CASE InstallSound /\ ~Service!Installed(command.scope)
    BY <1>2, <2>1, <2>2 DEF InstallSound, Service!Installed, Unseen
  <2>3. CASE InstallSound /\ loaded'[command.scope] = loaded[command.scope]
    BY <1>2, <2>3 DEF InstallSound, Service!Installed, Unseen
  <2> QED BY <1>1, <1>2, <2>2, <2>3 DEF CommandSound
<1>4. CommandSound'
  BY <1>1, <1>3 DEF CommandSound, Service!Installed
<1> QED BY <1>1, <1>4 DEF ServiceTypes

LEMMA ServiceCrashKeeps ==
  ASSUME ServiceInv, NEW s \in Scopes, Service!Crash(s), UNCHANGED manager
  PROVE  ServiceInv' /\ ServiceStep
<1>1. /\ loaded[s] # Service!None /\ Service!Running(s)
      /\ UNCHANGED <<manager, file, loaded, config, binary, account, dirs, command, last, kill>>
      /\ \/ proc' = Service!Ended(s)
         \/ proc' = [proc EXCEPT ![s] = [def |-> loaded[s], drain |-> config[s], release |-> binary[s]]]
  BY DEF Service!Crash, Service!host
<1>2. ServiceTypes /\ ResultKept /\ Service!OutgrownIsWarned
  BY DEF ServiceInv
<1>3. PICK d \in Service!Definition : d = loaded[s]
  BY <1>1, <1>2, InstalledIs
<1>4. /\ proc' \in [Scopes -> Processes \cup {Service!NoProcess}]
      /\ \A t \in Scopes \ {s} : proc'[t] = proc[t]
      /\ proc'[s] # Service!NoProcess => proc'[s].def = loaded[s] /\ proc'[s].release = binary[s]
  BY <1>1, <1>2, <1>3, ProcStarted
<1>5. /\ CommandSound' /\ command' \in ServiceCommand /\ command'.step \in StepsOf(command'.op)
  BY <1>1, SoundBeside
<1>6. /\ \A t \in Scopes : proc'[t] # Service!NoProcess => loaded'[t] # Service!None
      /\ \A t, u \in Scopes : proc'[t] # Service!NoProcess /\ proc'[u] # Service!NoProcess => t = u
  BY <1>1, <1>2, <1>4 DEF ServiceTypes, Service!Running
<1>7. ResultKept'
  BY <1>1, <1>2, <1>4 DEF ResultKept, Service!UpdateTellsRestart, Service!Installed, Service!Running
<1>8. loaded' \in [Scopes -> Service!Definition \cup {Service!None}]
  BY <1>1, <1>2 DEF ServiceTypes
<1> QED BY <1>1, <1>2, <1>4, <1>5, <1>6, <1>7, <1>8, Managed, SameKill

LEMMA ForgetKeeps ==
  ASSUME ServiceInv, NEW s \in Scopes, Service!Forget(s), UNCHANGED manager
  PROVE  ServiceInv' /\ ServiceStep
<1>1. /\ ~Service!Running(s) /\ ~Service!Installed(s)
      /\ loaded' = [loaded EXCEPT ![s] = Service!None]
      /\ UNCHANGED <<manager, file, proc, config, binary, account, dirs, command, last, kill>>
  BY DEF Service!Forget, Service!host
<1>2. ServiceTypes /\ ResultKept /\ Service!OutgrownIsWarned
  BY DEF ServiceInv
<1>3. /\ loaded' \in [Scopes -> Service!Definition \cup {Service!None}]
      /\ \A t \in Scopes \ {s} : loaded'[t] = loaded[t]
  BY <1>1, <1>2 DEF ServiceTypes
<1>4. /\ CommandSound' /\ command' \in ServiceCommand /\ command'.step \in StepsOf(command'.op)
  BY <1>1, <1>3, SoundBeside
<1>5. ResultKept'
  BY <1>1, <1>2, <1>3 DEF ResultKept, Service!UpdateTellsRestart, Service!Installed, Service!Running
<1>6. /\ \A t \in Scopes : proc'[t] # Service!NoProcess => loaded'[t] # Service!None
      /\ \A t, u \in Scopes : proc'[t] # Service!NoProcess /\ proc'[u] # Service!NoProcess => t = u
  BY <1>1, <1>2, <1>3 DEF ServiceTypes, Service!Running
<1>7. proc' \in [Scopes -> Processes \cup {Service!NoProcess}]
  BY <1>1, <1>2 DEF ServiceTypes
<1> QED BY <1>1, <1>2, <1>3, <1>4, <1>5, <1>6, <1>7, Managed, SameKill

LEMMA EditKeeps ==
  ASSUME ServiceInv, NEW s \in Scopes, Service!EditConfig(s), UNCHANGED manager
  PROVE  ServiceInv' /\ ServiceStep
<1>1. UNCHANGED <<manager, file, loaded, proc, kill, binary, account, dirs, command, last>>
  BY DEF Service!EditConfig, Service!host, Service!managed
<1>2. ServiceTypes /\ FilesInPlace /\ ResultKept /\ Service!OutgrownIsWarned
  BY DEF ServiceInv
<1>3. config' \in [Scopes -> DrainBudgets]
  BY <1>2 DEF Service!EditConfig, ServiceTypes
<1>4. /\ CommandSound' /\ command' \in ServiceCommand /\ command'.step \in StepsOf(command'.op)
  BY <1>1, SoundBeside
<1>5. ResultKept'
  BY <1>1, <1>2 DEF ResultKept, Service!UpdateTellsRestart, Service!Installed, Service!Running
<1>6. ServiceTypes'
  BY <1>1, <1>2, <1>3, <1>4 DEF ServiceTypes, Service!Running
<1> QED BY <1>1, <1>2, <1>4, <1>5, <1>6, SameFiles, SameKill DEF ServiceInv

-----------------------------------------------------------------------------
(* The service, from its start on.                                         *)

LEMMA ServiceStarts ==
  ASSUME Service!Init
  PROVE  ServiceInv
<1>1. /\ manager \in ServiceManagers /\ loaded = file
      /\ proc = [s \in Scopes |-> Service!NoProcess]
      /\ config \in [Scopes -> DrainBudgets] /\ account = "none"
      /\ dirs \in {"none", "empty", "foreign"}
      /\ command = Service!NoCommand /\ last = Service!NoResult /\ kill = Service!NoKill
  BY ScopesAre DEF Service!Init
<1>2. PICK legacy \in BOOLEAN :
          file = [s \in Scopes |-> IF legacy /\ s = "system" THEN Service!Legacy ELSE Service!None]
  BY ScopesAre DEF Service!Init
<1>3. PICK r \in Releases : binary = [s \in Scopes |-> r]
  BY ScopesAre DEF Service!Init
<1>4. Service!Legacy \in Service!Definition /\ Service!Legacy.runtime = "root"
  BY DEF Service!Legacy, Service!Definition
<1>5. /\ file \in [Scopes -> Service!Definition \cup {Service!None}]
      /\ file["system"] \in {Service!Legacy, Service!None} /\ file["user"] = Service!None
  BY <1>2, <1>4 DEF Scopes
<1>6. FilesInPlace
  <2>1. ~Service!Installed("user")
    BY <1>5 DEF Service!Installed
  <2>2. \A s \in Scopes : file[s].runtime # "runscaler"
    BY <1>4, <1>5, NoneIs DEF Scopes
  <2>3. Service!PreparedWhenInstalled
    BY <2>2, ScopesAre DEF Service!PreparedWhenInstalled
  <2> QED BY <2>1, <2>3 DEF FilesInPlace
<1>7. /\ Service!NoCommand.op = "none" /\ Service!NoCommand.step = "none"
      /\ "none" \in StepsOf("none") /\ Service!NoResult.op = "none"
  BY DEF Service!NoCommand, StepsOf, Service!NoResult
<1>8. \A s \in Scopes : ~Service!Running(s)
  BY <1>1 DEF Service!Running
<1>9. /\ proc \in [Scopes -> Processes \cup {Service!NoProcess}]
      /\ loaded \in [Scopes -> Service!Definition \cup {Service!None}]
      /\ binary \in [Scopes -> Releases]
  BY <1>1, <1>3, <1>5
<1>10. ServiceTypes
  BY <1>1, <1>5, <1>7, <1>8, <1>9, NoCommandIs, ServiceBudgets DEF ServiceTypes
<1>11. CommandSound
  BY <1>1, <1>7 DEF CommandSound
<1>12. ResultKept
  BY <1>1, <1>7 DEF ResultKept, Service!UpdateTellsRestart
<1>13. Service!OutgrownIsWarned
  BY <1>1 DEF Service!OutgrownIsWarned
<1> QED BY <1>6, <1>10, <1>11, <1>12, <1>13 DEF ServiceInv

LEMMA CommandedKeeps ==
  ASSUME ServiceInv, Service!Commanded, UNCHANGED manager
  PROVE  ServiceInv' /\ ServiceStep
<1>1. PICK s \in Scopes :
          \/ \E force, start, sees \in BOOLEAN : Service!Install(s, force, start, sees)
          \/ \E op \in Service!Commands : Service!Control(s, op)
          \/ Service!Uninstall(s) \/ Service!Update(s)
  BY ScopesAre DEF Service!Commanded
<1>2. CASE \E force, start, sees \in BOOLEAN : Service!Install(s, force, start, sees)
  BY <1>2, Starts
<1>3. CASE \E op \in Service!Commands : Service!Control(s, op)
  BY <1>3, Controls
<1>4. CASE Service!Uninstall(s) \/ Service!Update(s)
  BY <1>4, Uninstalls, Updates
<1> QED BY <1>1, <1>2, <1>3, <1>4

LEMMA CarriedOutKeeps ==
  ASSUME ServiceInv, Service!CarriedOut, UNCHANGED manager
  PROVE  ServiceInv' /\ ServiceStep
<1>1. CASE Service!Prepare \/ Service!Write \/ Service!Reload \/ Service!Enable
  BY <1>1, PrepareKeeps, ServiceWriteKeeps, ReloadKeeps, EnableKeeps
<1>2. CASE Service!StartUnit \/ Service!RestartUnit \/ Service!StopUnit
  BY <1>2, StartUnitKeeps, RestartUnitKeeps, StopUnitKeeps
<1>3. CASE Service!Unload \/ Service!Load \/ Service!UninstallStop \/ Service!Remove
  BY <1>3, UnloadKeeps, LoadKeeps, UninstallStopKeeps, RemoveKeeps
<1>4. CASE Service!UpToDate \/ Service!Download \/ Service!Replace \/ Service!Notice
  BY <1>4, UpdateKeeps
<1>5. CASE Service!Interrupt \/ Service!StepFails \/ Service!UnloadFails \/ Service!SystemctlFails
  BY <1>5, FailsKeep
<1> QED BY <1>1, <1>2, <1>3, <1>4, <1>5 DEF Service!CarriedOut

LEMMA BesideKeeps ==
  ASSUME ServiceInv, Service!Beside, UNCHANGED manager
  PROVE  ServiceInv' /\ ServiceStep
<1>1. PICK s \in Scopes : Service!Crash(s) \/ Service!Forget(s) \/ Service!EditConfig(s)
  BY ScopesAre DEF Service!Beside
<1> QED BY <1>1, ServiceCrashKeeps, ForgetKeeps, EditKeeps

LEMMA ServiceKeeps ==
  ASSUME ServiceInv, Service!Next \/ UNCHANGED service
  PROVE  ServiceInv' /\ ServiceStep
<1>1. CASE UNCHANGED service
  <2>1. UNCHANGED <<manager, file, loaded, proc, config, binary, account, dirs, command, last, kill>>
    BY <1>1 DEF service
  <2>2. command' \in ServiceCommand /\ command'.step \in StepsOf(command'.op) /\ CommandSound'
    BY <2>1, SoundBeside
  <2>3. ResultKept'
    BY <2>1 DEF ServiceInv, ResultKept, Service!UpdateTellsRestart, Service!Installed, Service!Running
  <2> QED BY <2>1, <2>2, <2>3, HostSame
<1>2. CASE Service!Next
  BY <1>2, CommandedKeeps, CarriedOutKeeps, BesideKeeps DEF Service!Next
<1> QED BY <1>1, <1>2

LEMMA ServiceMeans ==
  ASSUME ServiceInv
  PROVE  /\ Service!TypeOK /\ Service!PreparedWhenInstalled
         /\ Service!InstallStartsIt /\ Service!UpdateTellsRestart /\ Service!OutgrownIsWarned
<1>1. ServiceTypes /\ FilesInPlace /\ ResultKept /\ Service!OutgrownIsWarned
  BY DEF ServiceInv
<1>2. \A s \in Scopes : Service!Running(s) =>
          proc[s].def \in Service!Definition /\ proc[s].drain \in DrainBudgets
  BY <1>1, InstalledIs DEF Processes
<1>3. Service!TypeOK
  BY <1>1, <1>2, ScopesAre DEF ServiceTypes, Service!TypeOK
<1>4. Service!PreparedWhenInstalled
  BY <1>1 DEF FilesInPlace
<1>5. Service!InstallStartsIt
  BY <1>1 DEF ResultKept, Service!InstallStartsIt
<1>6. Service!UpdateTellsRestart
  BY <1>1 DEF ResultKept
<1> QED BY <1>1, <1>3, <1>4, <1>5, <1>6

\* Whatever fails or is interrupted of `service install`, `uninstall`, `start`, `stop`,
\* `restart` and `update` (cmd_service.go, installation.go, cmd_update.go), and whatever the
\* manager, the process and the operator do meanwhile: the runner is installed in a second
\* scope only by an install in the system scope that looked in another home than that of the
\* user's service, an installed definition finds its account and directories prepared and
\* keeps its runtime user when written anew, a tree of somebody else is not taken over,
\* `install` that reports a restart has restarted unless its unload failed, `update` tells
\* when a restart is due, and no process is killed within its drain that had not warned of it.
THEOREM ServiceKeptHolds == Spec => ServiceKept
<1> DEFINE Inv == part = "service" => ServiceInv
           Holds == part = "service" =>
               /\ Service!TypeOK /\ Service!PreparedWhenInstalled
               /\ Service!InstallStartsIt /\ Service!UpdateTellsRestart /\ Service!OutgrownIsWarned
           Never == part = "service" =>
               Service!OneInstallation /\ Service!IdentityKept /\ Service!ForeignTreeKept
<1>1. Init => Inv
  BY ServiceStarts DEF Init
<1>2. Inv /\ [Next]_vars => Inv' /\ [Never]_vars
  <2> SUFFICES ASSUME Inv, [Next]_vars PROVE Inv' /\ [Never]_vars
    OBVIOUS
  <2>1. part' = part /\ (part = "service" => Service!Next \/ UNCHANGED service)
    BY DEF Next, vars
  <2>2. part = "service" => ServiceInv' /\ ServiceStep
    BY <2>1, ServiceKeeps
  <2> QED BY <2>1, <2>2 DEF ServiceStep
<1>3. Inv => Holds
  BY ServiceMeans
<1> QED BY <1>1, <1>2, <1>3, PTL DEF Spec, ServiceKept

=============================================================================
