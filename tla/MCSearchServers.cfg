CONSTANTS
    s1 = s1  s2 = s2  u1 = u1  a1 = a1  w1 = w1  w2 = w2
    c1 = c1
    Server <- MCServer
    Uid <- MCUid
    Addr <- MCAddr
    Call <- MCCall
    Cmd <- MCCmd
    Capacity = 1
    None = None
    MaxFaults = 1
SPECIFICATION Spec
SYMMETRY Symmetry
INVARIANTS TypeOK SessionsAtHome OneServerRecords HistoryFollowsUid
