CONSTANTS
    u1 = u1  u2 = u2
    c1 = c1  c2 = c2
    r1 = r1  r2 = r2  r3 = r3
    Id <- MCId
    Cmd <- MCCmd
    Obj <- MCObj
    Empty = Empty
    Look = Look
    None = None
    RecorderNum = 1
    Capacity = 2
    MaxFaults = 1
SPECIFICATION Spec
SYMMETRY Symmetry
INVARIANTS TypeOK OneWriterPerId NoOrphanWriter StopNeverBlocks KeepsHistory
