CONSTANTS
    Key <- MCKey
    Value <- MCValue
    None = None
    capacity <- MCCapacity
SPECIFICATION Spec
PROPERTY ContainsKeepsOrder
