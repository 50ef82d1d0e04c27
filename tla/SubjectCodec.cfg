SPECIFICATION Spec
CONSTANTS
    a = a
    Letter <- MCLetter
    Table <- MCTable
    Namespace <- MCNamespace
    Object <- MCObject
    Relation <- MCRelation
    Id <- MCId
    MaxTuples = 2
INVARIANTS ReadsWhatWasWritten QueriesTellSubjectsApart TextsAreKeys
