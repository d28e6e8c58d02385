SPECIFICATION FairSpec
CONSTANTS
    IndexPaths = {i1, i2}
    Loadable = {i1}
    Cells = {c1, c2}
    Ops = {o1, o2}
    MaxConcurrent = 1
    MaxBatch = 2
    None = None
INVARIANTS
    DictSound
    RightCell
    SlotAccounted
PROPERTIES
    ImplementsSlots
    QueuedIsServed
    WaitingCellIsServed
