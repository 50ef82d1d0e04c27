SPECIFICATION Spec
CONSTANTS
    doc = doc
    group = group
    o = o
    member = member
    user = user
    Namespace = {doc, group}
    Object = {o}
    Relation = {member}
    SubjectID = {user}
    Ellipsis = Ellipsis
    Tuple <- MCTupleAll
    Client = {c1, c2}
    MaxDeltas = 2
    MaxTxns = 5
PROPERTY RefusalHasCause
