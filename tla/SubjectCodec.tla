---------------------------- MODULE SubjectCodec ----------------------------
(***************************************************************************)
(* How subjects and tuples are written as text and read back.              *)
(*                                                                         *)
(* The table of a namespace has the columns object, relation and subject,  *)
(* the last with "namespace:object#relation" for a subject set and the     *)
(* plain identifier for a subject id.  SubjectSets recognises the sets by  *)
(* a LIKE pattern, RowCount looks for an identifier, ListRelationTuples    *)
(* decodes every row, and the changelog and the lookup table hold whole    *)
(* tuples as text.  Nothing escapes or refuses a delimiter in a name.      *)
(*                                                                         *)
(* A text is a sequence of characters.                                     *)
(***************************************************************************)
EXTENDS Naturals, Sequences, FiniteSets

CONSTANTS
    Letter,                        \* the characters that delimit nothing
    Namespace, Object, Relation,   \* the names in use, all texts
    Id,                            \* the subject ids in use
    Table,                         \* the namespace whose table is modelled
    MaxTuples                      \* bound: tuples stored at a time

Char == Letter \cup {":", "#", "@"}
Without(t, C) == \A i \in DOMAIN t : t[i] \notin C

ASSUME TextAssumption ==
    /\ Namespace \cup Object \cup Relation \cup Id \subseteq Seq(Char)
    /\ Table \in Namespace
    /\ MaxTuples \in Nat

\* pb.Subject, SubjectID and SubjectSet
SubjectID == [id : Id]
SubjectSet == [namespace : Namespace, object : Object, relation : Relation]
InternalRelationTuple ==
    [object : Object, relation : Relation, subject : SubjectID \cup SubjectSet]

VARIABLES
    rows,       \* the table: the columns of each row
    written     \* history: the tuples that were inserted and not deleted since

vars == <<rows, written>>

-----------------------------------------------------------------------------
(***************************************************************************)
(* The codec.                                                              *)
(***************************************************************************)
IsID(s) == DOMAIN s = {"id"}

SetString(s) == s.namespace \o <<":">> \o s.object \o <<"#">> \o s.relation

String(s) == IF IsID(s) THEN s.id ELSE SetString(s)

\* Mutant: the object's own delimiter is left out
TupleStringShort(t) == Table \o <<":">> \o t.object \o t.relation \o <<"@">> \o String(t.subject)

\* InternalRelationTuple.String
TupleString(t) ==
    Table \o <<":">> \o
        (t.object \o <<"#">> \o (t.relation \o <<"@">> \o String(t.subject)))

\* c is in text t at i, and nowhere else: strings.Split gives two parts
OnlyAt(c, t, i) == i \in DOMAIN t /\ \A j \in DOMAIN t : t[j] = c <=> j = i

\* the two parts of t around i
Before(t, i) == SubSeq(t, 1, i - 1)
After(t, i) == SubSeq(t, i + 1, Len(t))

SetAt(t, h, k) ==
    [namespace |-> Before(Before(t, h), k), object |-> After(Before(t, h), k),
     relation |-> After(t, h)]

WellFormed(t) ==
    \E h \in DOMAIN t : OnlyAt("#", t, h) /\ \E k \in DOMAIN t : OnlyAt(":", Before(t, h), k)

\* SubjectSetFromString, of a well-formed text
SubjectSetFromString(t) ==
    LET h == CHOOSE i \in DOMAIN t : OnlyAt("#", t, i)
        k == CHOOSE i \in DOMAIN t : OnlyAt(":", Before(t, h), i)
    IN  SetAt(t, h, k)

\* Mutant: a colon makes a subject set
ContainsColon(t) == ~Without(t, {":"})

\* strings.Contains(s, "#")
ContainsHash(t) == ~Without(t, {"#"})

SubjectFromString(t) == IF ContainsHash(t) THEN SubjectSetFromString(t) ELSE [id |-> t]
Decodes(t) == ContainsHash(t) => WellFormed(t)

\* Mutant: the part between the delimiters may be empty or missing
LikeColon(t) == \E i \in DOMAIN t : i > 1 /\ t[i] = ":"

\* subject LIKE '_%:_%#_%'
Like(t) ==
    \E i, j \in DOMAIN t : /\ 1 < i /\ t[i] = ":"
                           /\ i + 1 < j /\ t[j] = "#" /\ j < Len(t)

-----------------------------------------------------------------------------
\* the columns of a tuple
Row(t) == [object |-> t.object, relation |-> t.relation, subject |-> String(t.subject)]

Init == rows = {} /\ written = {}

\* TransactRelationTuples, for one tuple; ON CONFLICT DO NOTHING
Insert(t) ==
    /\ Cardinality(written) < MaxTuples
    /\ rows' = rows \cup {Row(t)}
    /\ written' = written \cup {t}

Delete(t) ==
    /\ rows' = rows \ {Row(t)}
    /\ written' = written \ {t}

Next == \E t \in InternalRelationTuple : Insert(t) \/ Delete(t)

Spec == Init /\ [][Next]_vars

-----------------------------------------------------------------------------
(***************************************************************************)
(* The queries.  One row that does not decode fails the whole query.       *)
(***************************************************************************)
Decoded(row) ==
    [object |-> row.object, relation |-> row.relation,
     subject |-> SubjectFromString(row.subject)]

\* ListRelationTuples without filters
ListRelationTuples == {Decoded(row) : row \in rows}
ListFails == \E row \in rows : ~Decodes(row.subject)

SetRows(o, r) == {row \in rows : row.object = o /\ row.relation = r /\ Like(row.subject)}
SubjectSets(o, r) == {SubjectSetFromString(row.subject) : row \in SetRows(o, r)}
SubjectSetsFails(o, r) == \E row \in SetRows(o, r) : ~WellFormed(row.subject)

\* RowCount > 0
HasRow(o, r, id) == [object |-> o, relation |-> r, subject |-> id] \in rows

-----------------------------------------------------------------------------
TypeOK ==
    /\ written \subseteq InternalRelationTuple
    /\ rows \subseteq [object : Object, relation : Relation, subject : Seq(Char)]

\* The delimiters that a name must not have for the codec to be one
CleanNames ==
    /\ \A n \in Namespace : n # <<>> /\ Without(n, {":", "#"})
    /\ \A o \in Object : o # <<>> /\ Without(o, {":", "#"})
    /\ \A r \in Relation : r # <<>> /\ Without(r, {"#", "@"})
    /\ \A i \in Id : Without(i, {"#"})

\* With clean names the table holds the tuples: whatever was inserted, deleted and
\* inserted again, the list of all tuples is what was written, and no two
\* tuples share a row.
ReadsWhatWasWritten == CleanNames => ~ListFails /\ ListRelationTuples = written

\* With clean names the three queries of checkLeaf see the subjects apart: the LIKE
\* pattern selects the subject sets and nothing else, also next to identifiers
\* that have a colon, and a look for an identifier finds no subject set.
QueriesTellSubjectsApart ==
    CleanNames =>
        \A o \in Object, r \in Relation :
            /\ ~SubjectSetsFails(o, r)
            /\ SubjectSets(o, r) =
                {t.subject : t \in {t \in written : /\ t.object = o /\ t.relation = r
                                                    /\ ~IsID(t.subject)}}
            /\ \A i \in Id :
                HasRow(o, r, i) <=>
                    [object |-> o, relation |-> r, subject |-> [id |-> i]] \in written

\* With clean names no two stored tuples are one in the changelog and in the lookup
\* table, whose keys are the tuples' texts.
TextsAreKeys ==
    CleanNames => \A t, w \in written : TupleString(t) = TupleString(w) => t = w
=============================================================================
