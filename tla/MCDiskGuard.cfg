CONSTANTS
    garbage = garbage
    layers = layers
    shared = shared
    ccache = ccache
    tart = tart
    pruner = pruner
    keeper = keeper
    start1 = start1
    Guard = guard
    AllStores <- MCStores
    TypeOf <- MCTypeOf
    FsOf <- MCFsOf
    Starts = {start1}
    Sweepers = {pruner, keeper}
    Configs <- MCConfigs

SPECIFICATION FairSpec

PROPERTIES
    SweepsOnOwnWork
    RetainedDataKept
    
    StartReleased

CHECK_DEADLOCK FALSE
