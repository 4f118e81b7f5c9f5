-------------------------- MODULE CapacityPromise ---------------------------
(***************************************************************************)
(* What a caller of internal/capacity may rely on: a scale set asks for a  *)
(* slot, is granted it or withdraws, and returns it.  A grant never takes  *)
(* a slot that some scale set needs to reach its minimum, and a scale set  *)
(* above its minimum is not served while one below its minimum asks.       *)
(***************************************************************************)
EXTENDS Integers, FiniteSets

CONSTANTS Groups, Minimum, Limit, Callers, GroupOf

VARIABLES
    using,      \* callers that own a slot
    pending     \* callers that asked for one

promiseVars == <<using, pending>>

CountOf(U, g) == Cardinality({c \in U : GroupOf[c] = g})

\* The slots still missing from the minimums when the callers in U own one.
MissingSlots(U) ==
    UNION {{g} \X (CountOf(U, g) + 1 .. Minimum[g]) : g \in Groups}

\* With U in use every scale set can still be brought up to its minimum.
Admissible(U) ==
    Limit > 0 => Cardinality(U) + Cardinality(MissingSlots(U)) <= Limit

Entitled(c) == CountOf(using, GroupOf[c]) < Minimum[GroupOf[c]]

Init == using = {} /\ pending = {}

Ask(c) ==
    /\ c \notin using \cup pending
    /\ pending' = pending \cup {c}
    /\ UNCHANGED using

Grant(c) ==
    /\ c \in pending
    /\ Entitled(c) \/ \A d \in pending : ~Entitled(d)
    /\ Admissible(using \cup {c})
    /\ using' = using \cup {c}
    /\ pending' = pending \ {c}

Withdraw(c) ==
    /\ c \in pending
    /\ pending' = pending \ {c}
    /\ UNCHANGED using

Return(c) ==
    /\ c \in using
    /\ using' = using \ {c}
    /\ UNCHANGED pending

Next ==
    \E c \in Callers : Ask(c) \/ Grant(c) \/ Withdraw(c) \/ Return(c)

Spec == Init /\ [][Next]_promiseVars

=============================================================================
