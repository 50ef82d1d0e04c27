--------------------------- MODULE MCRewriteRules ---------------------------
(***************************************************************************)
(* Rules and configs for TLC.  Tuples of lead name teams; who leads a team *)
(* is a member of it and of such a team.  Members have no rewrite of their *)
(* own, which stands for a union of "this".                                *)
(***************************************************************************)
EXTENDS RewriteRules

CONSTANTS team, lead, member,
          lead1, lead2, lead3, member0, member1, stale0, stale1, stale2,
          full, small, stale

TeamRule == {lead1, lead2, lead3, member0, member1}
MCRule == TeamRule \cup {stale0, stale1, stale2}

MCKind ==
    [k \in Rule |-> CASE k \in {member0, stale0, stale1} -> "union"
                      [] k = lead1 -> "intersection"
                      [] k \in {lead2, stale2} -> "computed"
                      [] k = lead3 -> "ttu"
                      [] k = member1 -> "this"]
MCChildren ==
    [k \in Rule |-> CASE k = lead1 -> <<lead2, lead3>>
                      [] k = member0 -> <<member1>>
                      [] k = stale0 -> <<stale1>>
                      [] k = stale1 -> <<stale2>>
                      [] OTHER -> <<>>]
MCRelationOf == [k \in Rule |-> IF k \in {member0, member1} THEN member ELSE lead]
MCTupleset == [k \in Rule |-> lead]
MCComputed == [k \in Rule |-> member]

\* Leads are not defined in small; stale, of another namespace, refers to a relation
\* that it does not define, in a nested rewrite.
MCVersionsOf == [o \in Object |-> {full, small}]
MCRulesOf == [o \in Object |-> TeamRule]
MCRewrite ==
    [v \in Version |->
        [r \in Relation \cup {Ellipsis} |->
            CASE v = full /\ r = lead -> lead1
              [] v \in {full, small} /\ r = member -> member0
              [] v = stale /\ r = lead -> stale0
              [] OTHER -> NoRewrite]]

T(r, s) == [object |-> team, relation |-> r, subject |-> s]
Of(r) == [object |-> team, relation |-> r]
=============================================================================
