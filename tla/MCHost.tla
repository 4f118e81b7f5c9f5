------------------------------- MODULE MCHost -------------------------------
(***************************************************************************)
(* The parts of the program that meet the others through files and         *)
(* settings only, side by side for TLC.  `part` says which one a behaviour *)
(* is about, by its module and the instance below; the variables of the    *)
(* others keep the value 0.                                                *)
(***************************************************************************)
EXTENDS Integers, Sequences, FiniteSets

CONSTANTS
    Parts,                            \* bound: the parts to look at
    ServiceManagers, DrainBudgets, Releases,  \* of the host, in its config, to install
    ServiceCommands, ServiceEdits, ServiceFaults,  \* bounds of the service
    LogSize, LogLengths,              \* limit of the log and lengths of its records
    LogRecords, LogFails, LogFaults, LogRestarts,  \* its bounds
    RuleCases, RulePrecision,         \* configurations, steps of a percentage,
    RuleWord, FilesystemSizes,        \* width of a size, disks
    CacheConfigs,                     \* the lists of scale sets to build cache stores for
    LongestDelay, Delays, RetryFailures,  \* the largest Duration, settings of a retry, bound
    HealthSets, HealthRunners, HealthChanges,  \* scale sets of the health server, bounds
    ReportRunners, ReportSizes,       \* failing runners, sizes of their reports,
    ReportFiles, FewFiles, ReportBytes, ReportAge,  \* the limits of two directories,
    ReportTime, ReportFaults, ReportCrashes         \* and their bounds

VARIABLES
    part,
    manager, file, loaded, proc, config, binary, account, dirs, command, last, kill,
    commands, edits, faults,
    top, entries, concurrent, disk, env, sets, validated, stage,
    scaleSets, stores,
    settings, failures, delay, longest,
    log, backup, handle, attached, size, at, record, accepted, removed, stranded, records, errors,
    restarts,
    runner, cleanup, claimed, mutex, files, temps, now, failed, crashes,
    set, controllers, ready, status, probe, faulty, changes

service == <<manager, file, loaded, proc, config, binary, account, dirs, command, last, kill,
             commands, edits, faults>>
rules == <<top, entries, concurrent, disk, env, sets, validated, stage>>
caches == <<scaleSets, stores>>
backoff == <<settings, failures, delay, longest>>
logs == <<log, backup, handle, attached, size, at, record, accepted, removed, stranded, records, errors,
          restarts>>
reports == <<runner, cleanup, claimed, mutex, files, temps, now, failed, crashes>>
health == <<set, controllers, ready, status, probe, faulty, changes>>

vars == <<part, service, rules, caches, backoff, logs, reports, health>>

-----------------------------------------------------------------------------
(* cmd_service.go and the rest of installation.                            *)

Service == INSTANCE ServiceInstall
    WITH Managers <- ServiceManagers, DrainTimeouts <- DrainBudgets, Release <- Releases,
         MaxCommands <- ServiceCommands, MaxEdits <- ServiceEdits, MaxFaults <- ServiceFaults

-----------------------------------------------------------------------------
(* Configurations: what an entry inherits, entries that share the host,    *)
(* and thresholds of the disk guard.                                       *)

\* Nothing said, or one of S.
Maybe(S) == {<<>>} \cup {<<v>> : v \in S}

Keys == {"name", "token", "app", "min-runners", "max-runners", "provider", "pool-size", "memory"}

Layers(name, token, app, min, max, provider, pool, memory) ==
    {[k \in Keys |-> CASE k = "name" -> x.name [] k = "token" -> x.token [] k = "app" -> x.app
         [] k = "min-runners" -> x.min [] k = "max-runners" -> x.max
         [] k = "provider" -> x.provider [] k = "pool-size" -> x.pool [] k = "memory" -> x.memory] :
     x \in [name : name, token : token, app : app, min : min, max : max, provider : provider,
            pool : pool, memory : memory]}

Silent == {<<>>}

InheritedTops ==
    Layers({<<"a">>}, Maybe({"pat"}), Maybe({"complete"}), Silent, Maybe({2}),
           Maybe({"tart"}), Maybe({1}), Maybe({1}))

InheritingEntries ==
    Layers({<<"b">>}, Maybe({"", "own", "ref"}), Maybe({"complete", "empty"}), Silent, Silent,
           Maybe({"docker", "other"}), Maybe({0, 2}), Maybe({0}))

SharingEntries ==
    Layers({<<"a">>, <<"b">>}, {<<"own">>}, Silent, Maybe({-1, 1, 2}), Maybe({0, 1}),
           {<<"docker">>, <<"tart">>}, Maybe({2}), Silent)

Alone == Layers({<<"a">>}, {<<"own">>}, Silent, Silent, Silent, Silent, Silent, Silent)

Percent(n) == [percent |-> TRUE, n |-> n, unit |-> 1]

\* Percentages, of which some differ by one step, sizes in two units of which some wrap,
\* what is no number, none.
AllThresholds ==
    {<<>>} \cup {<<Percent(n)>> : n \in {-1, 0, 1, 5 * RulePrecision, 10 * RulePrecision,
                                        10 * RulePrecision + 1, 20 * RulePrecision,
                                        100 * RulePrecision, 100 * RulePrecision + 1}}
    \cup {<<[percent |-> FALSE, n |-> n, unit |-> u]>> : n \in {-1, 0, 1, 2, 4, 15, 16, 20, 256},
                                                        u \in {1, 16}}

NoVariables == {[RUNNER_TOKEN |-> "", reference |-> ""]}

\* Both thresholds left out.
Unlimited == {[min |-> <<>>, target |-> <<>>]}

CasesOf(tops, lists, concurrents, disks, envs) ==
    [top : tops, entries : lists, concurrent : concurrents, disk : disks, env : envs]

Inheritance ==
    CasesOf(InheritedTops, {<<>>} \cup {<<e>> : e \in InheritingEntries}, {0}, Unlimited,
          [RUNNER_TOKEN : {"", "ambient"}, reference : {"", "secret"}])

Sharing ==
    CasesOf({[k \in Keys |-> <<>>]},
          {<<>>} \cup {<<e>> : e \in SharingEntries} \cup {<<d, e>> : d, e \in SharingEntries},
          {-1, 0, 1, 3}, Unlimited, NoVariables)

Thresholds ==
    CasesOf(Alone, {<<>>}, {0}, [min : AllThresholds, target : AllThresholds], NoVariables)

MCCases == Inheritance \cup Sharing \cup Thresholds

Rules == INSTANCE ConfigRules
    WITH Cases <- RuleCases, DefaultMax <- 10, Precision <- RulePrecision,
         DefaultMin <- Percent(10 * RulePrecision), DefaultTarget <- Percent(20 * RulePrecision),
         Word <- RuleWord, Totals <- FilesystemSizes

-----------------------------------------------------------------------------
(* Cache stores of up to three scale sets, with settings that agree,       *)
(* conflict or are missing.                                                *)

DockerSet(socket, prune, ttl, buildx, shared, sharedAge, short, long) ==
    [provider |-> "docker", socket |-> socket, prune |-> prune, ttl |-> ttl, cacheAge |-> -ttl,
     buildx |-> buildx, buildxTTL |-> ttl, shared |-> shared, sharedAge |-> sharedAge,
     short |-> short, long |-> long]

TartSet(home, image, clean, age) ==
    [provider |-> "tart", home |-> home, image |-> image, cleanup |-> clean, tartAge |-> age]

Budgeted == [volume |-> "ccache", budget |-> 1, onExceed |-> "wipe"]

DockerSets ==
    {DockerSet("s1", prune, ttl, ~prune, v[1], v[2], c[1], c[2]) :
        prune \in BOOLEAN, ttl \in {-1, 0, 2},
        v \in {<<"none", 0>>, <<"handoff", 0>>, <<"handoff", 3>>},
        c \in {<< <<>>, <<>> >>, << <<"ccache">>, <<>> >>, << <<>>, <<Budgeted>> >>}}
      \cup {DockerSet("s1", FALSE, 0, FALSE, "ccache", 3, <<>>, <<>>),
            DockerSet("s2", FALSE, 0, FALSE, "handoff", 5, <<"ccache">>, <<Budgeted>>)}

TartSets ==
    {TartSet(home, image, clean, age) :
        home \in {"", "/tart"}, image \in {"base", "xcode"}, clean \in BOOLEAN, age \in {0, 4}}

SomeSets == {s \in DockerSets : s.ttl # 0 /\ s.short = <<>>} \cup {s \in TartSets : s.home = ""}

MCConfigs ==
    {<<a>> : a \in DockerSets \cup TartSets}
    \cup {<<a, b>> : a, b \in DockerSets \cup TartSets}
    \cup {<<a, b, c>> : a, b, c \in SomeSets}

Caches == INSTANCE CacheSettings
    WITH Configs <- CacheConfigs, DefaultPruneTTL <- 7, DefaultBuildCacheMaxAge <- 8,
         DefaultBuildxTTL <- 10, DefaultTartCacheMaxAge <- 9

-----------------------------------------------------------------------------
(* Back-off, the log, the reports in two directories, and health.          *)

MCDelays == {-1, 0, 1, 2, 3, 5, 20, 63, 64, 65, 100, 127}

Backoff == INSTANCE BackoffDelay
    WITH MaxDuration <- LongestDelay, Durations <- Delays, MaxFailures <- RetryFailures

Log == INSTANCE LogFile
    WITH file <- handle, faults <- errors,
         MaxSize <- LogSize, Lengths <- LogLengths, MaxRecords <- LogRecords, Fails <- LogFails,
         MaxFaults <- LogFaults, MaxRestarts <- LogRestarts

Reports == INSTANCE FailureReports
    WITH faults <- failed, Runners <- ReportRunners, Sizes <- ReportSizes, MaxFiles <- ReportFiles,
         MaxBytes <- ReportBytes, MaxAge <- ReportAge, MaxTime <- ReportTime,
         MaxFaults <- ReportFaults, MaxCrashes <- ReportCrashes

FewReports == INSTANCE FailureReports
    WITH faults <- failed, Runners <- ReportRunners, Sizes <- ReportSizes, MaxFiles <- FewFiles,
         MaxBytes <- ReportBytes, MaxAge <- ReportAge, MaxTime <- ReportTime,
         MaxFaults <- ReportFaults, MaxCrashes <- ReportCrashes

Health == INSTANCE Health
    WITH Sets <- HealthSets, MaxRunners <- HealthRunners, MaxChanges <- HealthChanges

ASSUME HostAssumption ==
    /\ Service!ServiceAssumption /\ Rules!RulesAssumption /\ Caches!CacheAssumption
    /\ Backoff!BackoffAssumption /\ Log!LogAssumption /\ Health!HealthAssumption
    /\ Reports!ReportsAssumption /\ FewReports!ReportsAssumption /\ Reports!NobodyAssumption

-----------------------------------------------------------------------------
AllParts == {"service", "rules", "caches", "backoff", "log", "reports", "few reports", "health"}

ASSUME PartsAssumption == Parts \subseteq AllParts

ReportParts == {"reports", "few reports"}

Init ==
    /\ part \in Parts
    /\ IF part = "service" THEN Service!Init
       ELSE /\ manager = 0 /\ file = 0 /\ loaded = 0 /\ proc = 0 /\ config = 0 /\ binary = 0
            /\ account = 0 /\ dirs = 0 /\ command = 0 /\ last = 0 /\ kill = 0 /\ commands = 0
            /\ edits = 0 /\ faults = 0
    /\ IF part = "rules" THEN Rules!Init
       ELSE /\ top = 0 /\ entries = 0 /\ concurrent = 0 /\ disk = 0 /\ env = 0 /\ sets = 0
            /\ validated = 0 /\ stage = 0
    /\ IF part = "caches" THEN Caches!Init ELSE scaleSets = 0 /\ stores = 0
    /\ IF part = "backoff" THEN Backoff!Init
       ELSE settings = 0 /\ failures = 0 /\ delay = 0 /\ longest = 0
    /\ IF part = "log" THEN Log!Init
       ELSE /\ log = 0 /\ backup = 0 /\ handle = 0 /\ attached = 0 /\ size = 0 /\ at = 0 /\ record = 0
            /\ accepted = 0 /\ removed = 0 /\ stranded = 0 /\ records = 0 /\ errors = 0 /\ restarts = 0
    /\ IF part \in ReportParts THEN Reports!Init
       ELSE /\ runner = 0 /\ cleanup = 0 /\ claimed = 0 /\ mutex = 0 /\ files = 0 /\ temps = 0 /\ now = 0
            /\ failed = 0 /\ crashes = 0
    /\ IF part = "health" THEN Health!Init
       ELSE /\ set = 0 /\ controllers = 0 /\ ready = 0 /\ status = 0 /\ probe = 0 /\ faulty = 0
            /\ changes = 0

Next ==
    /\ UNCHANGED part
    /\ \/ part = "service" /\ Service!Next /\ UNCHANGED <<rules, caches, backoff, logs, reports, health>>
       \/ part = "rules" /\ Rules!Next /\ UNCHANGED <<service, caches, backoff, logs, reports, health>>
       \/ part = "caches" /\ Caches!Next /\ UNCHANGED <<service, rules, backoff, logs, reports, health>>
       \/ part = "backoff" /\ Backoff!Next /\ UNCHANGED <<service, rules, caches, logs, reports, health>>
       \/ part = "log" /\ Log!Next /\ UNCHANGED <<service, rules, caches, backoff, reports, health>>
       \/ part = "reports" /\ Reports!Next /\ UNCHANGED <<service, rules, caches, backoff, logs, health>>
       \/ part = "few reports" /\ FewReports!Next /\ UNCHANGED <<service, rules, caches, backoff, logs, health>>
       \/ part = "health" /\ Health!Next /\ UNCHANGED <<service, rules, caches, backoff, logs, reports>>

Spec == Init /\ [][Next]_vars

-----------------------------------------------------------------------------
(* The properties of the parts; what each conjunct says is at its          *)
(* definition there.                                                       *)

\* The service is installed in one scope as far as a command can see, prepared and started
\* as it was written; updates and outgrown stop timeouts are told; its identity and the
\* trees of others are kept.
ServiceKept ==
    /\ [](part = "service" =>
              /\ Service!TypeOK /\ Service!PreparedWhenInstalled
              /\ Service!InstallStartsIt /\ Service!UpdateTellsRestart /\ Service!OutgrownIsWarned)
    /\ [][(part = "service" =>
              Service!OneInstallation /\ Service!IdentityKept /\ Service!ForeignTreeKept)]_vars

\* What starts meets what the other parts take for granted: limits, thresholds and
\* credentials of every scale set are its own, and validate has found nothing less.
StartedIsSound ==
    part = "rules" =>
        /\ Rules!TypeOK /\ Rules!OwnCredential /\ Rules!EntryDecides
        /\ Rules!MinimumsFitTheLimit /\ Rules!TartFitsTheHost
        /\ Rules!TargetAboveTrigger /\ Rules!ValidatedStarts

\* Scale sets that share a daemon, a volume or a home get one store each for it, with
\* settings somebody gave, by their order in the file.
StoresAreSound ==
    part = "caches" =>
        /\ Caches!OneStoreEach /\ Caches!RetentionIsConfigured /\ Caches!GuardHasSettings
        /\ Caches!EarlierSetsDecide /\ Caches!HomeKeepsImages

\* The delay of a retry is the documented one, in spite of the width of a Duration, and
\* failures in a row never shorten it.
DelayIsRight ==
    [](part = "backoff" => Backoff!IsExponential) /\ [][(part = "backoff" => Backoff!NeverEases)]_vars

\* The two log files are bounded and hold the records accepted last, whatever call of a
\* rotation fails.
LogIsKept == part = "log" => Log!TypeOK /\ Log!SizeBounded /\ Log!LastRecordsKept

\* Every failed runner is reported once, and a save leaves the reports within their
\* limits, through retries, failures and crashes.
ReportsAreKept ==
    /\ [](part \in ReportParts => Reports!TypeOK /\ Reports!OneReportPerFailure)
    /\ [][/\ (part = "reports" => Reports!SaveKeepsLimits)
          /\ (part = "few reports" => FewReports!SaveKeepsLimits)]_vars

\* A fault that lasts through a probe shows in its answer, and both endpoints agree.
FaultsAreTold == part = "health" => Health!TypeOK /\ Health!LastingFaultShows /\ Health!EndpointsAgree

=============================================================================
