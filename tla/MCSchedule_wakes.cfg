SPECIFICATION FairSpec
CONSTANTS
    Health <- MCHealth
    TtlDelays <- MCTtlDelays
    RetryDelays <- MCRetryDelays
INVARIANTS TypeOK NoSpin WakesInTime
PROPERTIES NoEarlyRetryUnlessHidden ServiceIsFound NoServiceIsBelieved LeavesOldNetwork
