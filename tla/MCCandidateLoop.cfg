\* One candidate through every pass, two confirmations, two crashes or lost acknowledgements.
CONSTANTS
    N = 1
    Required = 2
    MaxFaults = 2
SPECIFICATION FairSpec
CHECK_DEADLOCK FALSE

    
PROPERTIES
    RejectedNeverEnters
    
