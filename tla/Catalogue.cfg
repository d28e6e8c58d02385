SPECIFICATION FairSpec
CONSTANTS
    Queries = {q1, q2}
    Fetches = {f1, f2}
    Codes = {299, 300}
    Counts <- MCCounts
    None = None
CHECK_DEADLOCK FALSE
INVARIANTS
    TrapOnlyInWindow
    ModelOfOneFetch
PROPERTIES
    LoaderHides
    MissedIsRepaired
