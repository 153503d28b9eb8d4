CONSTANTS
    d1 = d1  d2 = d2  n1 = n1  n2 = n2
    l1 = l1  l2 = l2  l3 = l3
    Dashes <- MCDashes
    Observed <- MCObserved
    Node <- MCNode
    Lease <- MCLease
    hashToSlot <- MCHash
    slotNum = 5
    vNodeNum = 2
    eventQueueLen = 0
    None = None
    Nobody = Nobody
    MaxFaults = 2
    MaxChanges = 3
SPECIFICATION Spec
INVARIANTS TypeOK RingConsistent RingFollowsRegistry
PROPERTIES LeadsUntilLeaseEnds LeaderFound DeadNodeLeaves
CHECK_DEADLOCK FALSE
