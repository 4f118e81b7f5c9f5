---------------------------- MODULE ConfigRules -----------------------------
(***************************************************************************)
(* What a configuration comes to and which one is accepted: Load with its  *)
(* inheritance, ResolveScaleSets, the checks of `runner validate` and of   *)
(* `runner run`, and the thresholds of the disk guard (internal/config:    *)
(* load.go, config.go, auth.go; internal/bytesize).                        *)
(*                                                                         *)
(* A layer gives each key at most one value: <<>> or <<v>>.  `top` is what *)
(* viper makes of flags and of the top level of the file.  The token "ref" *)
(* is "env:" and the name of a variable.                                   *)
(***************************************************************************)
EXTENDS Integers, Sequences

CONSTANTS
    Cases,        \* the configurations to look at: records of what is written
    DefaultMax,   \* DefaultMaxRunners
    DefaultMin, DefaultTarget,  \* DefaultDiskMinFree, DefaultDiskTargetFree
    Precision,    \* percentages are multiples of 1/Precision, as floats of some 2^-k
    Word,         \* 2^64, scaled down
    Totals        \* sizes of a filesystem

Texts == {"name", "token", "app", "provider"}
Numbers == {"min-runners", "max-runners", "pool-size", "memory"}

Keys == Texts \cup Numbers
identityKeys == {"name", "token", "app", "min-runners"}

\* A layer of the configuration, thresholds, and one of Cases.
IsLayer(layer) ==
    /\ layer = [k \in Keys |-> layer[k]]
    /\ \A k \in Keys : layer[k] = <<>> \/ layer[k] = <<layer[k][1]>>
    /\ \A k \in Numbers : layer[k] # <<>> => layer[k][1] \in Int

Sizes == [percent : BOOLEAN, n : Int, unit : Nat]

IsCase(c) ==
    /\ IsLayer(c.top)
    /\ c.entries = [i \in 1 .. Len(c.entries) |-> c.entries[i]] /\ Len(c.entries) \in Nat
    /\ \A i \in 1 .. Len(c.entries) : IsLayer(c.entries[i])
    /\ c.concurrent \in Int
    /\ \A t \in {c.disk.min, c.disk.target} : t = <<>> \/ (t = <<t[1]>> /\ t[1] \in Sizes)

RulesAssumption ==
    /\ \A c \in Cases : IsCase(c)
    /\ DefaultMax \in Nat \ {0} /\ Word \in Nat \ {0} /\ Precision \in Nat \ {0}
    /\ {DefaultMin, DefaultTarget} \subseteq Sizes /\ Totals \subseteq Nat

VARIABLES
    top, entries, concurrent, disk,   \* the configuration as written
    env,        \* RUNNER_TOKEN and the variable of a reference
    sets,       \* the scale sets the process starts with
    validated,  \* `runner validate`: "not", "ok", "failed"
    stage       \* `runner run`: "written", "running", "refused"

vars == <<top, entries, concurrent, disk, env, sets, validated, stage>>

written == <<top, entries, concurrent, disk, env>>

-----------------------------------------------------------------------------
(* Load and ResolveScaleSets.                                              *)

\* The zero values of their types.
Zero ==
    [k \in Keys |-> IF k \in Texts THEN "" ELSE 0]

Nothing == [k \in Keys |-> <<>>]

builtinDefaults ==
    [Nothing EXCEPT !["max-runners"] = <<DefaultMax>>, !["provider"] = <<"docker">>]

\* deepMerge, tables flattened: a key of the override wins, whatever its value.
deepMerge_SkipsZero(base, override) ==
    [k \in Keys |-> IF override[k] \in {<<>>, <<Zero[k]>>} THEN base[k] ELSE override[k]]

deepMerge(base, override) ==
    [k \in Keys |-> IF override[k] = <<>> THEN base[k] ELSE override[k]]

scalesetDefaults_InheritsAll(settings) == settings

scalesetDefaults(settings) ==
    [k \in Keys |-> IF k \in identityKeys THEN <<>> ELSE settings[k]]

\* decodeStrict: the value of a key, the zero value of its type when absent.
Value(layer, k) == IF layer[k] = <<>> THEN Zero[k] ELSE layer[k][1]

Decoded(layer) ==
    [name |-> Value(layer, "name"), token |-> Value(layer, "token"), app |-> layer["app"],
     min |-> Value(layer, "min-runners"), max |-> Value(layer, "max-runners"),
     provider |-> Value(layer, "provider"), pool |-> Value(layer, "pool-size"),
     memory |-> Value(layer, "memory")]

\* Without entries the top level is the one scale set; its flags carry the
\* same defaults.
Load ==
    IF entries = <<>> THEN <<Decoded(deepMerge(builtinDefaults, top))>>
    ELSE LET base == deepMerge(builtinDefaults, scalesetDefaults(top))
         IN  [i \in 1 .. Len(entries) |-> Decoded(deepMerge(base, entries[i]))]

resolveEnvToken(ss) ==
    CASE ss.app # <<>> -> ss.token
      [] ss.app = <<>> /\ ss.token = "ref" -> env.reference
      [] ss.app = <<>> /\ ss.token = "" -> env.RUNNER_TOKEN
      [] OTHER -> ss.token

\* applyDefaults and resolveEnvToken.
Resolved(ss) ==
    [ss EXCEPT !.provider = IF @ = "" THEN "docker" ELSE @, !.token = resolveEnvToken(ss)]

ResolveScaleSets == [i \in DOMAIN Load |-> Resolved(Load[i])]

\* Load's warning about single-mode keys beside entries.
Warnings == entries # <<>> /\ \E k \in identityKeys : top[k] \notin {<<>>, <<Zero[k]>>}

-----------------------------------------------------------------------------
(* Thresholds: a percentage, counted in its smallest steps, or a number of *)
(* units.  Of a float the steps are exact; the rounding of a product is    *)
(* less than a byte and never reverses an order.                           *)

Whole == 100 * Precision

\* strconv refuses what is no number, NaN included (-1 here), or too large.
Parses(t) == t.n >= 0 /\ IF t.percent THEN t.n <= Whole ELSE t.n < Word

ParseThreshold(t) ==
    IF t.percent THEN [percent |-> t.n, bytes |-> 0]
    ELSE [percent |-> 0, bytes |-> (t.n * t.unit) % Word]

BytesOf(threshold, total) ==
    IF threshold.bytes # 0 THEN threshold.bytes ELSE (threshold.percent * total) \div Whole

OrDefault(t, default) == IF t = <<>> THEN default ELSE t[1]
MinFree == OrDefault(disk.min, DefaultMin)
TargetFree == OrDefault(disk.target, DefaultTarget)

validateDisk_MixedKinds ==
    /\ Parses(MinFree) /\ Parses(TargetFree)
    /\ \/ MinFree.percent # TargetFree.percent
       \/ IF MinFree.percent THEN MinFree.n < TargetFree.n
          ELSE ParseThreshold(MinFree).bytes < ParseThreshold(TargetFree).bytes

\* DiskConfig.Validate
validateDisk ==
    /\ Parses(MinFree) /\ Parses(TargetFree)
    /\ MinFree.percent = TargetFree.percent
    /\ IF MinFree.percent THEN MinFree.n < TargetFree.n
       ELSE ParseThreshold(MinFree).bytes < ParseThreshold(TargetFree).bytes

-----------------------------------------------------------------------------
(* The checks.                                                             *)

validateAuthentication(ss) ==
    IF ss.app = <<>> THEN ss.token # "" ELSE ss.token = "" /\ ss.app[1] = "complete"

Validate_NoOrder(ss) ==
    /\ ss.name # "" /\ validateAuthentication(ss) /\ ss.min >= 0 /\ ss.max >= 1
    /\ \/ ss.provider = "docker" /\ ss.memory >= 0
       \/ ss.provider = "tart" /\ ss.max <= 2 /\ ss.pool \in 0 .. ss.max

\* ScaleSetConfig.Validate
Validate(ss) ==
    /\ ss.name # "" /\ validateAuthentication(ss)
    /\ ss.min >= 0 /\ ss.max >= 1 /\ ss.min <= ss.max
    /\ \/ ss.provider = "docker" /\ ss.memory >= 0
       \/ ss.provider = "tart" /\ ss.max <= 2 /\ ss.pool \in 0 .. ss.max

ValidateGlobal == concurrent >= 0 /\ validateDisk

Total(amounts) ==
    LET upTo[i \in 0 .. Len(amounts)] == IF i = 0 THEN 0 ELSE upTo[i - 1] + amounts[i]
    IN  upTo[Len(amounts)]

MinOf(s) == [i \in DOMAIN s |-> s[i].min]
MaxOf(s) == [i \in DOMAIN s |-> s[i].max]
TartMin(s) == [i \in DOMAIN s |-> IF s[i].provider = "tart" THEN s[i].min ELSE 0]
TartPool(s) == [i \in DOMAIN s |-> IF s[i].provider = "tart" THEN s[i].pool ELSE 0]

EffectiveConcurrent(s) == IF concurrent > 0 THEN concurrent ELSE Total(MaxOf(s))

ValidateConcurrent_PerSet(s) ==
    concurrent = 0 \/ \A i \in DOMAIN s : s[i].min <= concurrent

ValidateConcurrent(s) == concurrent = 0 \/ Total(MinOf(s)) <= concurrent

validateScaleSetCollection_NoTotals(s) == \A i, j \in DOMAIN s : s[i].name = s[j].name => i = j

validateScaleSetCollection(s) ==
    /\ \A i, j \in DOMAIN s : s[i].name = s[j].name => i = j
    /\ Total(TartMin(s)) <= 2 /\ Total(TartPool(s)) <= 2

AllValid(s) == \A i \in DOMAIN s : Validate(s[i])

-----------------------------------------------------------------------------
Init ==
    /\ \E c \in Cases : /\ top = c.top /\ entries = c.entries /\ concurrent = c.concurrent
                        /\ disk = c.disk /\ env = c.env
    /\ sets = <<>> /\ validated = "not" /\ stage = "written"

RunValidate_EachAlone ==
    /\ validated = "not"
    /\ validated' = IF ~Warnings /\ ValidateGlobal /\ AllValid(ResolveScaleSets) THEN "ok" ELSE "failed"
    /\ UNCHANGED <<sets, stage, written>>

\* runValidate, up to its requests to Docker, Tart and GitHub.
RunValidate ==
    /\ validated = "not"
    /\ validated' = IF ~Warnings /\ ValidateGlobal /\ AllValid(ResolveScaleSets)
                       /\ validateScaleSetCollection(ResolveScaleSets)
                    THEN "ok" ELSE "failed"
    /\ UNCHANGED <<sets, stage, written>>

\* runManager, up to the first client it builds: warnings are only logged.
Accepted ==
    /\ ValidateGlobal /\ AllValid(ResolveScaleSets)
    /\ ValidateConcurrent(ResolveScaleSets) /\ validateScaleSetCollection(ResolveScaleSets)

RunManager ==
    /\ stage = "written"
    /\ \/ Accepted /\ stage' = "running" /\ sets' = ResolveScaleSets
       \/ ~Accepted /\ stage' = "refused" /\ UNCHANGED sets
    /\ UNCHANGED <<validated, written>>

Next == RunValidate \/ RunManager

Spec == Init /\ [][Next]_vars

-----------------------------------------------------------------------------
(* The sets and limits of a started process are of these types and ranges. *)
TypeOK ==
    /\ stage \in {"written", "running", "refused"} /\ validated \in {"not", "ok", "failed"}
    /\ (sets # <<>>) <=> (stage = "running")
    /\ \A i \in DOMAIN sets :
           /\ sets[i].provider \in {"docker", "tart"} /\ sets[i].min \in 0 .. sets[i].max
           /\ sets[i].provider = "docker" => sets[i].memory \in Nat

\* A process that starts meets what the broker of the host capacity assumes
\* (CapacityBroker, FloorAssumption): whatever the limit, the minimums of all
\* its scale sets fit in it together.  ValidateConcurrent checks an explicit
\* limit only; without one each Validate must keep minimum below maximum.
MinimumsFitTheLimit ==
    stage = "running" => Total(MinOf(sets)) <= EffectiveConcurrent(sets)

\* The scale sets that share the two macOS VMs of a host can all hold their
\* minimum and their warm pool.
TartFitsTheHost ==
    stage = "running" => Total(TartMin(sets)) <= 2 /\ Total(TartPool(sets)) <= 2

\* Every scale set authenticates by one kind of credential, and only by its own:
\* an App never acquires the ambient token, and the token or the App of the top
\* level, or of another entry, never reaches an entry that names none.
OwnCredential ==
    stage = "running" => \A i \in DOMAIN sets :
        LET own == IF entries = <<>> THEN top ELSE entries[i]
        IN  /\ sets[i].app = own["app"]
            /\ (sets[i].app = <<>>) <=> (sets[i].token # "")
            /\ sets[i].token \in {"", env.RUNNER_TOKEN, env.reference, Value(own, "token")}

\* A key an entry sets decides, a zero too: `memory = 0` lifts the limit of the
\* top level, and `pool-size = 0` turns its warm pool off.
EntryDecides ==
    stage = "running" => \A i \in DOMAIN entries :
        /\ entries[i]["memory"] # <<>> => <<sets[i].memory>> = entries[i]["memory"]
        /\ entries[i]["pool-size"] # <<>> => <<sets[i].pool>> = entries[i]["pool-size"]

\* On no filesystem does the guard stop below the level that triggers it: the target
\* is never under the trigger, and above it when they are sizes, or percentages two
\* bytes apart.  DiskConfig.Validate compares percentages, not the bytes they come to:
\* of closer ones the target may be the trigger itself.
TargetAboveTrigger ==
    stage = "running" => \A total \in Totals :
        LET trigger == BytesOf(ParseThreshold(MinFree), total)
            target == BytesOf(ParseThreshold(TargetFree), total)
        IN  /\ trigger <= target
            /\ (MinFree.percent => (TargetFree.n - MinFree.n) * total >= 2 * Whole) => trigger < target

\* What `runner validate` passes, `runner run` starts with, unless the minimums
\* of the scale sets exceed an explicit limit: that alone only the start checks.
ValidatedStarts ==
    validated = "ok" /\ stage = "refused" => ~ValidateConcurrent(ResolveScaleSets)

=============================================================================
