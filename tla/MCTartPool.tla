----------------------------- MODULE MCTartPool -----------------------------
(***************************************************************************)
(* TartPool for TLC: a scale set with a warm VM, and one that starts cold. *)
(***************************************************************************)
EXTENDS TartPool, TLC

CONSTANTS a, b, v1, v2, v3, v4

MCThree == {v1, v2, v3}

MCFour == {v1, v2, v3, v4}

MCOneSet == {a}

MCTwoSets == {a, b}

MCPoolAndCold == [s \in MCTwoSets |-> IF s = a THEN 1 ELSE 0]

MCPoolOfOne == [s \in MCOneSet |-> 1]

MCCold == [s \in MCOneSet |-> 0]

\* Clones are interchangeable.
MCSymmetry == Permutations(MCFour)

=============================================================================
