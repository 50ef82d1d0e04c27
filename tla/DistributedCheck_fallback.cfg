SPECIFICATION Spec
CONSTANTS
    n1 = n1
    n2 = n2
    n3 = n3
    doc = doc
    group = group
    Node = {n1, n2}
    Object <- MCObject
    LocateKey <- MCLocateKey
    Nested <- MCNested
    Undefined <- MCUndefined
    MaxVersion = 2
    FirstChoice = {0, 1}
    Retries = 1
    MaxDepth = 4
    MaxFaults = 1
    MaxStale = 0
    MaxAddr = 2
INVARIANTS FallbackNotRefused
CHECK_DEADLOCK FALSE
