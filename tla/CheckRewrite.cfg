SPECIFICATION FairSpec
CONSTANTS
    root = root
    inner = inner
    leaf1 = leaf1
    leaf2 = leaf2
    leaf3 = leaf3
    Node <- MCNode
    Root = root
    Parent <- MCParent
    Leaf <- MCLeaf
    Union = {root}
INVARIANTS VerdictSound ErrorHasCause
PROPERTIES KeepsPromise SenderServed NoSelectLeftBehind
CHECK_DEADLOCK FALSE
