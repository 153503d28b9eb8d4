CONSTANTS
    d1 = d1  d2 = d2  c1 = c1  c2 = c2
    u1 = u1  e1 = e1  e2 = e2  e3 = e3
    None = None
    Uid <- MCUid
    Dashes <- MCDashes
    Call <- MCCall
    DashOf <- MCDashOf
    Endpoint <- MCEndpoint
SPECIFICATION Spec
INVARIANTS TypeOK IndexCovers IndexExactUnlessOverlapped PausedHasMover
PROPERTY CallsEnd
