CONSTANTS
    Parts = {"service", "rules", "caches", "backoff", "log", "reports", "few reports", "health"}
    ServiceManagers = {"systemd", "launchd"}
    DrainBudgets = {0, 4}
    Releases = {1, 2}
    ServiceCommands = 3
    ServiceEdits = 1
    ServiceFaults = 1
    RuleCases <- MCCases
    RulePrecision = 10
    RuleWord = 256
    FilesystemSizes = {9, 100, 250}
    CacheConfigs <- MCConfigs
    LongestDelay = 127
    Delays <- MCDelays
    RetryFailures = 9
    LogSize = 5
    LogLengths = {1, 2}
    LogRecords = 7
    LogFails = {"close", "unlink", "rename", "open", "write"}
    LogFaults = 2
    LogRestarts = 1
    HealthSets = {"a", "b"}
    HealthRunners = 2
    HealthChanges = 3
    ReportRunners = {"r1", "r2"}
    ReportSizes = {1, 2}
    ReportFiles = 2
    FewFiles = 1
    ReportBytes = 3
    ReportAge = 1
    ReportTime = 2
    ReportFaults = 1
    ReportCrashes = 1

SPECIFICATION Spec

INVARIANTS
    StartedIsSound
    StoresAreSound
    LogIsKept
    FaultsAreTold

PROPERTIES
    ServiceKept
    DelayIsRight
    ReportsAreKept

CHECK_DEADLOCK FALSE
