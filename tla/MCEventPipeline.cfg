\* Three events, one delivered twice, one that may always fail, two faults; queues of one
\* batch make the workers wait for each other.
CONSTANTS
    N = 3
    BadSets = {{}, {2}}
    QueueSize = 1
    BatchSize = 2
    MaxAttempts = 3
    MaxDuplicates = 1
    MaxFaults = 2
SPECIFICATION FairSpec
CHECK_DEADLOCK FALSE
INVARIANTS
    AppliedOnce
    
    
    
    

    
    
    
