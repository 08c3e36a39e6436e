SPECIFICATION Spec
CONSTANTS
    Health <- MCHealth
    TtlDelays <- MCTtlDelays
    RetryDelays <- MCRetryDelays
PROPERTIES NoEarlyRetry
