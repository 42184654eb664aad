SPECIFICATION FairSpec
CONSTANTS
    Requests = {r1, r2}
    Envs <- StartEnvs
    MaxInt32 = 32767
    UnfitSegments = {"a:b"}
    UnparsableAddrs = {"other", ",", ":99999", "a:b", "digits"}
CHECK_DEADLOCK FALSE
INVARIANTS
    TypeOK
    NothingLeaks
    StoresOutliveRequests
    RepairsSuffice
PROPERTIES
    EndsWhenTold
