----------------------------- MODULE MCDiskGuard -----------------------------
(***************************************************************************)
(* DiskGuard for TLC: five configurations of a host that has a Docker      *)
(* daemon and, in one of them, a Tart cache on a disk of its own.          *)
(***************************************************************************)
EXTENDS DiskGuard, TLC

CONSTANTS garbage, layers, shared, ccache, tart,   \* stores
          pruner, keeper,                           \* routine sweepers
          start1

MCStores == {garbage, layers, shared, ccache, tart}

MCTypeOf == garbage :> "garbage" @@ layers :> "buildcache" @@ shared :> "shared" @@ ccache :> "cache"
            @@ tart :> "tart"

MCFsOf == [s \in MCStores |-> IF s = tart THEN "vms" ELSE "system"]

Percent(n) == [percent |-> n, bytes |-> 0]

Bytes(n) == [percent |-> 0, bytes |-> n]

None == [s \in MCStores |-> 0]

Everywhere(policy) == [s \in MCStores |-> policy]

CallsOf(s, tier) == [store |-> s, tier |-> tier]

\* A volume's sweeper beside the guard; the cache is over its budget at two units.
Volumes ==
    [stores |-> <<garbage, shared, ccache>>, total |-> "system" :> 4,
     minFree |-> Percent(50), targetFree |-> Percent(75), maxTier |-> 3,
     retains |-> MCStores, trim |-> None, budget |-> [None EXCEPT ![ccache] = 1], onExceed |-> Everywhere("warn"),
     starts |-> {start1}, rounds |-> keeper :> <<CallsOf(shared, 3)>>, hung |-> {},
     maxWrites |-> 2, maxFaults |-> 1]

\* The prune of garbage and build layers, and a cache wiped when it is over its budget.
Prune ==
    [stores |-> <<garbage, layers, ccache>>, total |-> "system" :> 3,
     minFree |-> Bytes(2), targetFree |-> Bytes(3), maxTier |-> 3,
     retains |-> MCStores, trim |-> [None EXCEPT ![layers] = 1], budget |-> [None EXCEPT ![ccache] = 1],
     onExceed |-> Everywhere("wipe"), starts |-> {},
     rounds |-> pruner :> <<CallsOf(garbage, 1), CallsOf(layers, 2)>>, hung |-> {},
     maxWrites |-> 2, maxFaults |-> 0]

\* The same without the garbage, where a wipe may fail and go on.
Wipes ==
    [Prune EXCEPT !.stores = <<layers, ccache>>, !.rounds = pruner :> <<CallsOf(layers, 2)>>,
                  !.maxFaults = 1]

\* Two filesystems and no routine sweeper.
TwoDisks ==
    [stores |-> <<garbage, tart>>, total |-> "system" :> 3 @@ "vms" :> 3,
     minFree |-> Bytes(2), targetFree |-> Bytes(3), maxTier |-> 2,
     retains |-> MCStores, trim |-> None, budget |-> None, onExceed |-> Everywhere("warn"),
     starts |-> {start1}, rounds |-> [w \in {} |-> <<>>], hung |-> {},
     maxWrites |-> 2, maxFaults |-> 1]

\* A daemon may keep the ticker, the volume's sweeper or a runner start in the volume.
Hung ==
    [Volumes EXCEPT !.stores = <<garbage, shared>>, !.minFree = Bytes(3), !.targetFree = Bytes(4),
                    !.budget = None, !.hung = {Guard, keeper, start1}, !.maxFaults = 0]

MCConfigs == {Volumes, Prune, Wipes, TwoDisks, Hung}

=============================================================================
