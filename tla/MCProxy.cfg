CONSTANTS
    q1 = q1  q2 = q2  k1 = k1
    a = a  e1 = e1  e2 = e2
    Req <- MCReq
    Cleaner <- MCCleaner
    Uid <- MCUid
    Endpoint <- MCEndpoint
    None = None
    MaxFaults = 2
SPECIFICATION Spec
INVARIANTS TypeOK CountExact FreshAfterClean AtMostOnce AnswerIsReal
PROPERTIES RequestsEnd CleaningEnds
