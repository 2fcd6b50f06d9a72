SPECIFICATION FairSpec
CONSTANTS
    N = 3
    QueueSize = 1
    IngressSize = 1
    BufLimit = 1
    MaxTasks = 2
    Halts = {TRUE, FALSE}
    MaxFaults = 2
INVARIANTS OrderedDispatch  GateMeansLive 
 
