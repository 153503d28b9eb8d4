CONSTANTS
    p1 = p1  p2 = p2
    g1 = g1  g2 = g2  g3 = g3
    l1 = l1  l2 = l2  l3 = l3
    Proc <- MCProc
    Gor <- MCGor
    ProcOf <- MCProcOf
    NoLease = NoLease
    Lease <- MCLease
    MaxFaults = 0
SPECIFICATION LockSpec
INVARIANT MutualExclusion
