\* Without retries, and with a max_elapsed_time of 12 units or none.
SPECIFICATION FairSpec
CONSTANTS
    Intervals <- SetOrNot
    Limits = {0, 12}
    Jitter = TRUE
    Cancels = TRUE
    MaxRequest = 2
    MaxTime = 16
INVARIANTS
    TypeOK
    CollectIsBounded
    RetriesUseTheirTime
PROPERTIES
    CollectReturns
    CancelEndsCollect
