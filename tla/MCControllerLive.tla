-------------------------- MODULE MCControllerLive --------------------------
(***************************************************************************)
(* Controller for TLC under fairness: serving a minimum of one runner,     *)
(* with two names and calls that fail, or told to drain, with one name     *)
(* left.                                                                   *)
(***************************************************************************)
EXTENDS Controller

CONSTANTS n1, n2

MCNames == {n1, n2}

VARIABLE setting

MCInit ==
    \/ setting = "serving" /\ InitWith({}, Faults)
    \/ setting = "draining" /\ InitWith({n2}, 0)

MCNext == Next /\ UNCHANGED setting /\ (setting = "serving" => UNCHANGED stopper)

Drains(A) == setting = "draining" /\ A

\* During a drain jobs end and GitHub reports it.
MCDrainFairness ==
    /\ WF_vars(Drains(Stop /\ ~DrainExpires))
    /\ \A n \in Names :
          /\ WF_vars(Drains(JobEnds(n)))
          /\ WF_vars(Drains(HandleJobStarted(n))) /\ WF_vars(Drains(HandleJobCompleted(n)))

MCSpec == MCInit /\ [][MCNext]_<<vars, setting>> /\ Fairness /\ MCDrainFairness

=============================================================================
