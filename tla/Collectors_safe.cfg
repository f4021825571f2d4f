SPECIFICATION FairSpec
CONSTANTS
    Runs = {"tick", "refresh"}
    Accounts <- MCAccounts
    Windows = {w1, w2}
    Days = 2
    Lookback = 1
    Secrets = {"sessionKey"}
    Starts = 2
    Faults = 1
INVARIANTS UsageHasNoGap PollsAreWhole
PROPERTIES EveryCollectorRuns
