SPECIFICATION ClusterSpec
CONSTANTS
    n1 = n1
    n2 = n2
    n3 = n3
    doc = doc
    group = group
    Node = {n1, n2, n3}
    Object = {doc}
    LocateKey <- MCLocateKey
    Nested <- MCNested
    Undefined <- MCUndefined
    MaxVersion = 1
    FirstChoice = {1}
    Retries = 0
    MaxDepth = 3
    MaxFaults = 1
    MaxStale = 1
    MaxAddr = 1
INVARIANTS SettledForwardsOnce RingMembersHaveClients ClientsAreMembers
PROPERTIES RingsConverge
CHECK_DEADLOCK FALSE
