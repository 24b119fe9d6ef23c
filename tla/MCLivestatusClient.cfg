\* The configured or the default timeout, with and without a deadline of the
\* scrape, which falls into the dial or into the exchange.
SPECIFICATION FairSpec
CONSTANTS
    Timeouts = {0, 3}
    DefaultTimeout = 2
    CtxDeadlines = {0, 2}
    MaxDial = 3
    MaxTime = 7
    MaxRow = 3
INVARIANTS
    TypeOK
    ResultsAreRows
    NoErrorNoRowSkipped
    ContextCapsCollect
PROPERTIES
    CollectEnds
