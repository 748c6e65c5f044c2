SPECIFICATION FairSpec
CONSTANTS
    g1 = g1
    g2 = g2
    Groups <- MCGroups
    CloudDir <- MCCloudDir
    LocalDir <- MCLocalDir
    Style <- MCStyle
    Volumes = {0, 1, 2}
    LastOf <- MCLastOf
    Overrides <- MCOverrides
    Mounts <- MCMounts
    Config <- MCConfig
    ReconnectMin = 5
    ReconnectMax = 8
    Tries = 2
    Fallback = TRUE
    MaxArchives = 1
    MaxPushed = 2
    MaxHandlers = 1
    MaxFaults = 2
INVARIANTS
    TypeOK

    
    
CHECK_DEADLOCK FALSE
