SPECIFICATION Spec
CONSTANTS
    Node = {n1, n2, n3}
    Namespace = {a}
    TopN = 1
    MaxChanges = 2
    MaxWrites = 2
    MaxFaults = 0
SYMMETRY Symmetry
INVARIANT ChosenCommonToAll
