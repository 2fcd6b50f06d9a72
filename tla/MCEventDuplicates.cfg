\* Two events without faults; one is delivered twice.
CONSTANTS
    N = 2
    BadSets = {{}}
    QueueSize = 2
    BatchSize = 2
    MaxAttempts = 3
    MaxDuplicates = 1
    MaxFaults = 0
SPECIFICATION Spec
CHECK_DEADLOCK FALSE
INVARIANTS
    ClaimsAgreeWithDeduplicator
