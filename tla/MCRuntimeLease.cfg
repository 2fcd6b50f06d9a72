SPECIFICATION FairSpec
CONSTANTS
    Procs = {p1, p2}
    None = None
    MaxRuns = 4
    MaxVersion = 3
INVARIANT LedgerIsCurrent
PROPERTY FencedProcessesEnd
