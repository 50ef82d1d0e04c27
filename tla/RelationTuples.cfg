SPECIFICATION Spec
CONSTANTS
    doc = doc
    group = group
    o = o
    member = member
    user = user
    Namespace = {doc, group}
    Object = {o}
    Relation = {member}
    SubjectID = {user}
    Ellipsis = Ellipsis
    Tuple <- MCTuple
    Client = {c1, c2}
    MaxDeltas = 2
    MaxTxns = 5
SYMMETRY Symmetry
INVARIANTS TypeOK LookupCoversTuples TupleRelationsWereDefined ChangelogAccountsForTuples AddIsFirst
PROPERTIES RemovalIsSafe ImplementsTupleStore
