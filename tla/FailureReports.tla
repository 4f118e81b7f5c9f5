--------------------------- MODULE FailureReports ---------------------------
(***************************************************************************)
(* The reports about failed runners: what a cleanup collects before it     *)
(* removes an instance (internal/controller: diagnostics.go, and the       *)
(* states of claimDiagnostics in state.go) and the Store all scale sets    *)
(* share (internal/diagnostics/store.go), through failures and crashes.    *)
(*                                                                         *)
(* A report is its runner, its reason, its size and the time it was        *)
(* written.  `Cleanup` stands for the claim that lets one goroutine at a   *)
(* time clean an instance up (Controller, OneCleanupOwner).                *)
(***************************************************************************)
EXTENDS Integers, FiniteSets

CONSTANTS
    Runners, Sizes,
    MaxFiles, MaxBytes, MaxAge,  \* 20, 2 MiB, seven days
    MaxTime,                     \* bound on the clock
    MaxFaults, MaxCrashes        \* bounds on failures and crashes

ReportsAssumption ==
    /\ MaxFiles \in Nat \ {0} /\ MaxBytes \in Nat /\ Sizes \subseteq 1 .. MaxBytes
    /\ MaxAge \in Nat /\ MaxTime \in Nat /\ MaxFaults \in Nat /\ MaxCrashes \in Nat

Nobody == "nobody"
NobodyAssumption == Nobody \notin Runners

VARIABLES
    runner,   \* the entry of each runner: phase, removeReason, diagnosticReason,
              \* diagnosticsCollected
    cleanup,  \* removeClaimedInstance: "none", "collect", "save", "write", "rename",
              \* "prune", "remove"
    claimed,  \* the reason that claimDiagnostics returned
    mutex,    \* holder of s.mu
    files,    \* the reports
    temps,    \* the temporary files
    now, faults, crashes

vars == <<runner, cleanup, claimed, mutex, files, temps, now, faults, crashes>>

store == <<mutex, files, temps>>
budgets == <<now, faults, crashes>>

Entry(phase) == [phase |-> phase, why |-> "none", reason |-> "none", collected |-> FALSE]
Absent == Entry("absent")
Up == Entry("up")

Goes(n, step) == cleanup' = [cleanup EXCEPT ![n] = step]

MayFail == faults < MaxFaults /\ faults' = faults + 1

-----------------------------------------------------------------------------
(* The runner.                                                             *)

Start(n) ==
    /\ runner[n] = Absent
    /\ runner' = [runner EXCEPT ![n] = Up]
    /\ UNCHANGED <<cleanup, claimed, store, budgets>>

\* readinessResult
ReadinessFails(n) ==
    /\ runner[n].phase = "up"
    /\ runner' = [runner EXCEPT ![n].phase = "removing", ![n].why = "readiness",
                                ![n].reason = "readiness"]
    /\ UNCHANGED <<cleanup, claimed, store, budgets>>

\* markExited: an exit also replaces a readiness failure.
Exits(n) ==
    /\ \/ runner[n].phase = "up"
       \/ runner[n].phase = "removing" /\ runner[n].why = "readiness"
    /\ runner' = [runner EXCEPT ![n].phase = "removing", ![n].why = "exited",
                                ![n].reason = "exited"]
    /\ UNCHANGED <<cleanup, claimed, store, budgets>>

\* No failure: scaled down, or its job completed.
Retires(n) ==
    /\ runner[n].phase = "up"
    /\ runner' = [runner EXCEPT ![n].phase = "removing", ![n].why = "idle"]
    /\ UNCHANGED <<cleanup, claimed, store, budgets>>

-----------------------------------------------------------------------------
(* collectFailure, before the removal.                                     *)

Claimable_Again(r) == r.why \in {"readiness", "exited"}

Claimable(r) == ~r.collected /\ r.why \in {"readiness", "exited"}

ClaimDiagnostics(n) ==
    /\ runner[n].phase = "removing" /\ cleanup[n] = "none"
    /\ \/ /\ Claimable(runner[n])
          /\ runner' = [runner EXCEPT ![n].collected = TRUE]
          /\ claimed' = [claimed EXCEPT ![n] = runner[n].reason] /\ Goes(n, "collect")
       \/ ~Claimable(runner[n]) /\ Goes(n, "remove") /\ UNCHANGED <<runner, claimed>>
    /\ UNCHANGED <<store, budgets>>

\* A request to the daemon that may fail; the report is saved all the same.
CollectDiagnostics(n) ==
    /\ cleanup[n] = "collect" /\ Goes(n, "save")
    /\ UNCHANGED <<runner, claimed, store, budgets>>

\* s.mu.Lock, the deadline and privateDir.
Lock(n) ==
    /\ cleanup[n] = "save" /\ mutex = Nobody
    /\ \/ /\ mutex' = n /\ temps' = temps \cup {n} /\ Goes(n, "write") /\ UNCHANGED faults
       \/ MayFail /\ Goes(n, "remove") /\ UNCHANGED <<mutex, temps>>
    /\ UNCHANGED <<runner, claimed, files, now, crashes>>

\* A Save that fails removes its temporary file and releases the lock.
SaveFails_KeepsLock(n) ==
    /\ MayFail /\ Goes(n, "remove") /\ temps' = temps \ {n} /\ UNCHANGED mutex

SaveFails(n) ==
    /\ MayFail /\ Goes(n, "remove") /\ temps' = temps \ {n} /\ mutex' = Nobody

\* Write, Sync, Close and the deadline.
WriteTemp(n) ==
    /\ cleanup[n] = "write"
    /\ \/ Goes(n, "rename") /\ UNCHANGED <<mutex, temps, faults>>
       \/ SaveFails(n)
    /\ UNCHANGED <<runner, claimed, files, now, crashes>>

RenameTemp(n) ==
    /\ cleanup[n] = "rename"
    /\ \/ /\ \E size \in Sizes :
                 files' = files \cup {[of |-> n, reason |-> claimed[n], size |-> size, mod |-> now]}
          /\ temps' = temps \ {n} /\ Goes(n, "prune") /\ UNCHANGED <<mutex, faults>>
       \/ SaveFails(n) /\ UNCHANGED files
    /\ UNCHANGED <<runner, claimed, now, crashes>>

\* The bytes of the reports, counted one by one.
Total(F) == Cardinality(UNION {{f} \X (1 .. f.size) : f \in F})

Fits_CountOnly(F) == Cardinality(F) <= MaxFiles

Fits(F) == Cardinality(F) <= MaxFiles /\ Total(F) <= MaxBytes

OldestFirst(gone, kept) == \A r \in gone, q \in kept : r.mod <= q.mod

\* prune goes on at the oldest file r of what is left.
GoesOn(F, r) == ~Fits(F) \/ now - r.mod > MaxAge

\* What prune may leave: it stops at the first file, from the oldest on, where
\* all three limits are met.
Pruned(F) ==
    {K \in SUBSET F :
        /\ OldestFirst(F \ K, K)
        /\ K = {} \/ \E r \in K : OldestFirst({r}, K) /\ ~GoesOn(K, r)
        /\ K = F \/ \E r \in F \ K : OldestFirst((F \ K) \ {r}, {r}) /\ GoesOn(K \cup {r}, r)}

Prune(n) ==
    /\ cleanup[n] = "prune" /\ Goes(n, "remove") /\ mutex' = Nobody
    /\ \/ files' \in Pruned(files) /\ UNCHANGED faults
       \/ \* one Unlinkat failed
          /\ \E K \in SUBSET files : \E P \in Pruned(files) :
                 P \subseteq K /\ P # K /\ OldestFirst(files \ K, K) /\ files' = K
          /\ MayFail
    /\ UNCHANGED <<runner, claimed, temps, now, crashes>>

\* RemoveInstance and its retry.
RemoveInstance(n) ==
    /\ cleanup[n] = "remove" /\ Goes(n, "none")
    /\ \/ runner' = [runner EXCEPT ![n].phase = "gone"] /\ UNCHANGED faults
       \/ MayFail /\ UNCHANGED runner
    /\ UNCHANGED <<claimed, store, now, crashes>>

-----------------------------------------------------------------------------
Tick == now < MaxTime /\ now' = now + 1 /\ UNCHANGED <<runner, cleanup, claimed, store, faults, crashes>>

\* The next process removes what the last one left running, without reports.
Crash ==
    /\ crashes < MaxCrashes /\ crashes' = crashes + 1
    /\ runner' = [n \in Runners |-> IF runner[n] = Absent THEN Absent
                                    ELSE [runner[n] EXCEPT !.phase = "gone"]]
    /\ cleanup' = [n \in Runners |-> "none"] /\ mutex' = Nobody
    /\ UNCHANGED <<claimed, files, temps, now, faults>>

Init ==
    /\ runner = [n \in Runners |-> Absent] /\ cleanup = [n \in Runners |-> "none"]
    /\ claimed = [n \in Runners |-> "none"]
    /\ mutex = Nobody /\ files = {} /\ temps = {} /\ now = 0 /\ faults = 0 /\ crashes = 0

Cleanup(n) ==
    \/ ClaimDiagnostics(n) \/ CollectDiagnostics(n) \/ Lock(n) \/ WriteTemp(n)
    \/ RenameTemp(n) \/ Prune(n) \/ RemoveInstance(n)

Next ==
    \/ \E n \in Runners : Start(n) \/ ReadinessFails(n) \/ Exits(n) \/ Retires(n) \/ Cleanup(n)
    \/ Tick \/ Crash

Spec == Init /\ [][Next]_vars

-----------------------------------------------------------------------------
TypeOK ==
    /\ \A n \in Runners : runner[n].phase \in {"absent", "up", "removing", "gone"}
    /\ \A n \in Runners : cleanup[n] \in {"write", "rename", "prune"} <=> mutex = n
    /\ \A n \in Runners : cleanup[n] \in {"write", "rename"} => n \in temps
    /\ \A f \in files : f.of \in Runners /\ f.mod <= now

\* A failed runner has one report however often its removal is retried and
\* whatever else is learnt of it; a runner that did not fail has none.
OneReportPerFailure ==
    /\ \A f, g \in files : f.of = g.of => f = g
    /\ \A f \in files : runner[f.of].why \in {"readiness", "exited"} /\ f.reason # "none"

\* A Save that reports success leaves the reports within their three limits
\* (README: "retain at most 20 files / 2 MiB / seven days"), and its own report
\* or one as new among them.
SaveKeepsLimits ==
    \A n \in Runners :
          cleanup[n] = "prune" /\ cleanup'[n] = "remove" /\ faults' = faults =>
              /\ Cardinality(files') <= MaxFiles /\ Total(files') <= MaxBytes
              /\ \A f \in files' : now - f.mod <= MaxAge
              /\ \A f \in files : f.of = n /\ now - f.mod <= MaxAge => \E g \in files' : g.mod >= f.mod

=============================================================================
