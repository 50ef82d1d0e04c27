SPECIFICATION FairSpec
CONSTANTS
    Node = {n1, n2}
    Namespace = {a, b}
    TopN = 1
    MaxChanges = 1
    MaxWrites = 2
    MaxFaults = 1
PROPERTY NewNamespacePropagates
