-------------------------- MODULE MCCapacityBroker --------------------------
(***************************************************************************)
(* CapacityBroker for TLC: two scale sets, five callers.                   *)
(***************************************************************************)
EXTENDS CapacityBroker

CONSTANTS ga, gb, a1, a2, a3, b1, b2

MCGroups == {ga, gb}

MCCallers == {a1, a2, a3, b1, b2}

MCGroupOf == [c \in MCCallers |-> IF c \in {a1, a2, a3} THEN ga ELSE gb]

\* ga has a warm floor of one runner, gb a floor of one.
MCMinimum == [g \in MCGroups |-> 1]

=============================================================================
