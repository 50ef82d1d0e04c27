SPECIFICATION RestartSpec
CONSTANTS
    Node = {n1, n2}
    Namespace = {a, b}
    TopN = 1
    MaxChanges = 2
    MaxWrites = 2
    MaxFaults = 1
INVARIANTS TypeOK NoFalseLead ChoiceNotBehindCommon PairChoiceUsable ChosenOnlyWhenAllAware
PROPERTIES Convergence PairChoiceNeverBack
