CONSTANTS
    Key <- MCKey
    Value <- MCValue
    None = None
    capacity <- MCCapacity
SPECIFICATION Spec
INVARIANTS TypeOK MapListAgree
PROPERTY KeepsPromise
