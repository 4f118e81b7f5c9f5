---------------------------- MODULE MCController ----------------------------
(***************************************************************************)
(* Controller for TLC, in five settings.  What differs between them is     *)
(* chosen at the start: the provider, the capacity of the host, the        *)
(* demand, what may fail, and whether the process is told to stop.         *)
(***************************************************************************)
EXTENDS Controller, TLC

CONSTANTS n1, n2

MCNames == {n1, n2}

\* Runner names are interchangeable.
MCSymmetry == Permutations(MCNames)

VARIABLE setting

\* The host has one slot.
OneSlot == INSTANCE Controller WITH HostSlots <- 1, MaxDemand <- 1

\* Tart: instances are watched.
Watched == INSTANCE Controller WITH HostSlots <- 1, MaxDemand <- 1, Watches <- TRUE

\* Docker: their readiness is awaited as well.
Awaited == INSTANCE Controller
           WITH HostSlots <- 1, MaxDemand <- 1, Watches <- TRUE, NeedsReadiness <- TRUE

\* The process may be told to stop.
Stopped == INSTANCE Controller WITH HostSlots <- 1, MaxDemand <- 1, Stops <- TRUE

\* All names but one are used up.
OneNameLeft(budget) == \E n \in Names : InitWith(Names \ {n}, budget)

MCInit ==
    \/ setting \in {"scaling", "one slot"} /\ InitWith({}, 0)
    \/ setting = "one slot" /\ OneNameLeft(Faults)
    \/ setting \in {"watched", "awaited", "stopped"} /\ OneNameLeft(0)

MCNext ==
    /\ UNCHANGED setting
    /\ \/ setting = "scaling" /\ Next
       \/ setting = "one slot" /\ OneSlot!Next
       \/ setting = "watched" /\ Watched!Next
       \/ setting = "awaited" /\ Awaited!Next
       \/ setting = "stopped" /\ Stopped!Next

MCSpec == MCInit /\ [][MCNext]_<<vars, setting>>

\* Watched instances, and all names.
MCWatchedSpec == setting = "watched" /\ InitWith({}, 0) /\ [][MCNext]_<<vars, setting>>

=============================================================================
