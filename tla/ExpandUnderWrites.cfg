SPECIFICATION FairSpec
CONSTANTS
    team = team
    lead = lead
    member = member
    lead1 = lead1
    lead2 = lead2
    lead3 = lead3
    member0 = member0
    member1 = member1
    stale0 = stale0
    stale1 = stale1
    stale2 = stale2
    full = full
    small = small
    stale = stale
    Object = {team}
    Relation = {lead, member}
    User = u
    Ellipsis = Ellipsis
    NoRewrite = NoRewrite
    Version = {full, small, stale}
    Rule <- MCRule
    Kind <- MCKind
    Children <- MCChildren
    RelationOf <- MCRelationOf
    Tupleset <- MCTupleset
    Computed <- MCComputed
    VersionsOf <- MCVersionsOf
    RulesOf <- MCRulesOf
    Rewrite <- MCRewrite
    Tuple <- MCTuple
INVARIANTS ShowsWhoStands PlainShowsGranted
PROPERTY ExpandReturns
