SPECIFICATION ServerSpec
CONSTANTS
    r1 = r1
    r2 = r2
    k1 = k1
    k2 = k2
    s1 = s1
    Absent = Absent
    Requests = {r1, r2}
    Arriving <- Mix
    AllowedOrigins = {"web"}
    Sessions = {s1}
    Clients <- Callers
    Keys = {k1, k2}
    KeyOf <- Sanitized
    Window = 3
    Second = 2
    Limit = 1
    MaxRetries = 1
    MaxBucket = 1
CHECK_DEADLOCK FALSE
INVARIANTS
    PipelineTypeOK
    AtMostLimitPerWindow
    RefusedOnlyWhenFull
    OnlyClearedRun
    MetricsMatchAnswers
    LogMatchesAnswer
