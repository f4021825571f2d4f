SPECIFICATION AllSpec
CONSTANTS
    MaxUsage = 3
    Named = {"subscription"}
    Short = 1
    Long = 2
    Offered <- MCOffered
    MaxUsed = 3
    MaxUnused = 1
    MaxOutages = 1
    Messages <- MCMessages
    Scripts <- MCScripts
    Requests <- MCRequests
    Overlong = {"xx"}
    Gap = 1
    MaxMinutes = 3
    MaxCalls = 3
    MaxRestarts = 1
    Old <- MCOld
    Spoken <- MCSpoken
    MaxRuns = 2
    Models = {"claude", "flash", "new"}
    Shipped <- MCShipped
    Varying = {"flash"}
    None = none
    Editors = {e1, e2}
    EditJobs <- MCJobs
    Readers = {g1, g2}
    MaxPriceEdits = 2
SYMMETRY Interchangeable
INVARIANTS CostFitsMode CompleteMeansWhole ProxyDecidesLocal CompleteUsageWins DisagreementIsReported FindingsHold FindingsAgree StreamIsReadRight CallsKeepApart RekeyKeepsAll PricesFollowFile EditsAreLocal
CHECK_DEADLOCK FALSE
