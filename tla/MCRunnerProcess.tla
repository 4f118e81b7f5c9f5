--------------------------- MODULE MCRunnerProcess ---------------------------
(***************************************************************************)
(* RunnerProcess for TLC: what happens on one host in five stories that    *)
(* share no process, as absent processes have ended before.                *)
(***************************************************************************)
EXTENDS RunnerProcess

CONSTANTS first, second, moved, both, doctor, deleter, s1, s2, here, elsewhere

MCRunners == {first, second, moved, both}

MCContenders == MCRunners \cup {doctor, deleter}

MCSets == {s1, s2}

\* `both` serves two scale sets, the others the same one.
MCSetsOf == [p \in Runners |-> IF p = both THEN MCSets ELSE {s1}]

\* `moved` has another socket for the scale set, `both` one for each.
MCPlaceOf ==
    [i \in Runners \X Sets |-> IF i[1] = moved \/ i = <<both, s2>> THEN elsewhere ELSE here]

Alone(processes, broken, killed) == InitWith(Contenders \ processes, broken, killed)

\* Two runners follow each other or compete.
Restart == Alone({first, second}, Faults, Crashes)

\* A runner follows another, or competes with it, with another configuration.
Moved == Alone({first, moved}, 0, Crashes)

\* A runner, `doctor --fix` and `scaleset delete` compete for the lock.
Commands == Alone({first, doctor, deleter}, 0, Crashes)

\* A runner and one of the two, where something fails too.
Command == \E p \in {doctor, deleter} : Alone({first, p}, Faults, Crashes)

\* One runner, two scale sets.
TwoSets == Alone({both}, Faults, 0)

MCSpec == (Restart \/ Moved \/ Commands \/ Command \/ TwoSets) /\ [][Next]_vars

==============================================================================
