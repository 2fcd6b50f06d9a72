SPECIFICATION FairSpec
CONSTANTS
    k1 = k1
    k2 = k2
    Keys <- AllKeys
    Blocked <- BlockedKeys
    Reports <- ReportKeys
    Workers = {w1, w2}
    BatchLimit = 2
    MaxAttempts = 2
    MaxRetries = 1
INVARIANTS
    NoAutomaticResend
    RetriedOnlyIfUnsent
    DeliveredMeansSent
PROPERTIES
    SettledIsFinal
    EventuallySettled
    ImplementsDelivery
CHECK_DEADLOCK FALSE
