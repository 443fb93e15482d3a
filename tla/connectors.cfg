CONSTANTS
    i1 = i1
    i2 = i2
    r1 = r1
    r2 = r2
    Runs = {r1, r2}
    Record <- MCRecord
    Editions = {1, 2}
    Core <- MCCore
    Requests <- MCRequests
    MaxRetries = 2
    Budget = 1
    MaxParameters = 1
SPECIFICATION MCSpec
INVARIANTS TypeOK RunRowsTellTruth SilentRunsExplained
PROPERTIES RunsStoreWhatTheySay RunsEnd
CHECK_DEADLOCK FALSE
