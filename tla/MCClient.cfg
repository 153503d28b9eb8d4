CONSTANTS
    h1 = h1  h2 = h2
    c1 = c1  c2 = c2  c3 = c3
    Handler <- MCHandler
    Shell = Shell
    Cmd <- MCCmd
    Capacity = 2
    Nothing = Nothing
    ClientRetryTimes = 2
    MaxTyped = 1
    MaxFaults = 2
SPECIFICATION Spec
INVARIANTS TypeOK   ShownIsSelected
SYMMETRY Symmetry
