------------------------- MODULE SubjectCodecProofs -------------------------
(***************************************************************************)
(* Proofs about SubjectCodec, for names of every length.                   *)
(***************************************************************************)
EXTENDS SubjectCodec, SequenceTheorems, TLAPS

\* The parts of the text of a subject set, and where its delimiters are.
LEMMA SetStringParts ==
    ASSUME NEW s \in SubjectSet
    PROVE  /\ SetString(s) \in Seq(Char)
           /\ Len(SetString(s)) =
                Len(s.namespace) + 1 + Len(s.object) + 1 + Len(s.relation)
           /\ \A i \in 1..Len(s.namespace) : SetString(s)[i] = s.namespace[i]
           /\ SetString(s)[Len(s.namespace) + 1] = ":"
           /\ \A i \in 1..Len(s.object) :
                SetString(s)[Len(s.namespace) + 1 + i] = s.object[i]
           /\ SetString(s)[Len(s.namespace) + 1 + Len(s.object) + 1] = "#"
           /\ \A i \in 1..Len(s.relation) :
                SetString(s)[Len(s.namespace) + 1 + Len(s.object) + 1 + i] = s.relation[i]
<1> DEFINE n == s.namespace
           o == s.object
           r == s.relation
<1>1. n \in Seq(Char) /\ o \in Seq(Char) /\ r \in Seq(Char)
      /\ <<":">> \in Seq(Char) /\ <<"#">> \in Seq(Char)
    BY TextAssumption DEF SubjectSet, Char
<1> HIDE DEF n, o, r
<1> DEFINE t == n \o <<":">> \o o \o <<"#">> \o r
<1>2. /\ t \in Seq(Char)
      /\ Len(t) = Len(n) + 1 + Len(o) + 1 + Len(r)
    BY <1>1
<1>3. /\ \A i \in 1..Len(n) : t[i] = n[i]
      /\ t[Len(n) + 1] = ":"
      /\ \A i \in 1..Len(o) : t[Len(n) + 1 + i] = o[i]
      /\ t[Len(n) + 1 + Len(o) + 1] = "#"
      /\ \A i \in 1..Len(r) : t[Len(n) + 1 + Len(o) + 1 + i] = r[i]
    BY <1>1
<1> QED
    BY <1>2, <1>3 DEF n, o, r, SetString

\* The part of a text before a place, and the part after it.
LEMMA Halves ==
    ASSUME NEW t \in Seq(Char), NEW i \in 1..Len(t)
    PROVE  /\ Before(t, i) \in Seq(Char)
           /\ Len(Before(t, i)) = i - 1
           /\ \A j \in 1..i - 1 : Before(t, i)[j] = t[j]
           /\ After(t, i) \in Seq(Char)
           /\ Len(After(t, i)) = Len(t) - i
           /\ \A j \in 1..Len(t) - i : After(t, i)[j] = t[i + j]
<1>1. Len(t) \in Nat /\ \A j \in 1..Len(t) : t[j] \in Char
    BY LenProperties, ElementOfSeq
<1>2. \A j \in 1..i - 1 : t[j] \in Char
    BY <1>1
<1>3. \A j \in i + 1..Len(t) : t[j] \in Char
    BY <1>1
<1>4. /\ Before(t, i) \in Seq(Char)
      /\ Len(Before(t, i)) = IF 1 <= i - 1 THEN i - 1 - 1 + 1 ELSE 0
      /\ \A j \in 1..i - 1 - 1 + 1 : Before(t, i)[j] = t[1 + j - 1]
    BY <1>1, <1>2, SubSeqProperties DEF Before
<1>5. /\ After(t, i) \in Seq(Char)
      /\ Len(After(t, i)) = IF i + 1 <= Len(t) THEN Len(t) - (i + 1) + 1 ELSE 0
      /\ \A j \in 1..Len(t) - (i + 1) + 1 : After(t, i)[j] = t[i + 1 + j - 1]
    BY <1>1, <1>3, SubSeqProperties DEF After
<1> HIDE DEF Before, After
<1> QED
    BY <1>1, <1>4, <1>5

\* With clean names the text of a subject set is recognised as one by both tests
\* and read back as the subject set.
LEMMA SetRoundTrip ==
    ASSUME CleanNames, NEW s \in SubjectSet
    PROVE  /\ ContainsHash(SetString(s))
           /\ Like(SetString(s))
           /\ WellFormed(SetString(s))
           /\ SubjectSetFromString(SetString(s)) = s
<1> DEFINE n == s.namespace
           o == s.object
           r == s.relation
           t == SetString(s)
           k == Len(n) + 1
           h == Len(n) + 1 + Len(o) + 1
<1>1. /\ n \in Seq(Char) /\ o \in Seq(Char) /\ r \in Seq(Char)
      /\ s = [namespace |-> n, object |-> o, relation |-> r]
    BY TextAssumption DEF SubjectSet
<1>2. /\ Len(n) \in Nat \ {0} /\ Len(o) \in Nat \ {0} /\ Len(r) \in Nat \ {0}
      /\ DOMAIN n = 1..Len(n) /\ DOMAIN o = 1..Len(o) /\ DOMAIN r = 1..Len(r)
    <2>1. n # <<>> /\ o # <<>> /\ r # <<>>
        BY DEF CleanNames, SubjectSet
    <2> QED
        BY <1>1, <2>1, EmptySeq, LenProperties
<1>3. /\ \A i \in 1..Len(n) : n[i] \notin {":", "#"}
      /\ \A i \in 1..Len(o) : o[i] \notin {":", "#"}
      /\ \A i \in 1..Len(r) : r[i] # "#"
    BY <1>2 DEF CleanNames, SubjectSet, Without
<1>4. /\ t \in Seq(Char)
      /\ Len(t) = h + Len(r)
      /\ \A i \in 1..Len(n) : t[i] = n[i]
      /\ t[k] = ":"
      /\ \A i \in 1..Len(o) : t[k + i] = o[i]
      /\ t[h] = "#"
      /\ \A i \in 1..Len(r) : t[h + i] = r[i]
    BY SetStringParts
<1>5. DOMAIN t = 1..Len(t)
    BY <1>4, LenProperties
<1> HIDE DEF n, o, r, t
<1>6. \A j \in DOMAIN t : t[j] = "#" <=> j = h
    <2> SUFFICES ASSUME NEW j \in 1..Len(t), t[j] = "#"
                 PROVE  j = h
        BY <1>4, <1>5
    <2>1. CASE j <= Len(n)
        BY <1>2, <1>3, <1>4, <2>1
    <2>2. CASE j = k
        BY <1>4, <2>2
    <2>3. CASE j > k /\ j < h
        <3>1. j - k \in 1..Len(o) /\ j = k + (j - k)
            BY <1>2, <1>4, <2>3
        <3> QED
            BY <1>3, <1>4, <3>1
    <2>4. CASE j > h
        <3>1. j - h \in 1..Len(r) /\ j = h + (j - h)
            BY <1>2, <1>4, <2>4
        <3> QED
            BY <1>3, <1>4, <3>1
    <2>5. j \in Nat /\ k \in Nat /\ h \in Nat /\ (j > Len(n) => j >= k)
        BY <1>2, <1>4
    <2>6. j <= Len(n) \/ j = k \/ (j > k /\ j < h) \/ j > h \/ j = h
        BY <1>2, <2>5
    <2> QED
        BY <2>1, <2>2, <2>3, <2>4, <2>6
<1>7. h \in 1..Len(t) /\ k \in 1..Len(t) /\ k \in 1..h - 1
    BY <1>2, <1>4
<1> DEFINE b == Before(t, h)
<1>8. /\ b \in Seq(Char)
      /\ Len(b) = h - 1
      /\ \A j \in 1..h - 1 : b[j] = t[j]
      /\ After(t, h) \in Seq(Char)
      /\ Len(After(t, h)) = Len(t) - h
      /\ \A j \in 1..Len(t) - h : After(t, h)[j] = t[h + j]
    BY <1>4, <1>7, Halves
<1> HIDE DEF b
<1>9. DOMAIN b = 1..h - 1
    BY <1>8, LenProperties
<1>10. \A j \in DOMAIN b : b[j] = ":" <=> j = k
    <2> SUFFICES ASSUME NEW j \in 1..h - 1, t[j] = ":"
                 PROVE  j = k
        BY <1>4, <1>7, <1>8, <1>9
    <2>1. CASE j <= Len(n)
        BY <1>2, <1>3, <1>4, <2>1
    <2>2. CASE j > k
        <3>1. j - k \in 1..Len(o) /\ j = k + (j - k)
            BY <1>2, <2>2
        <3> QED
            BY <1>3, <1>4, <3>1
    <2> QED
        BY <1>2, <2>1, <2>2
<1>11. /\ OnlyAt("#", t, h)
       /\ \A i \in DOMAIN t : OnlyAt("#", t, i) => i = h
       /\ OnlyAt(":", b, k)
       /\ \A i \in DOMAIN t : OnlyAt(":", b, i) => i = k
    BY <1>4, <1>5, <1>6, <1>7, <1>9, <1>10 DEF OnlyAt
<1>12. ContainsHash(t)
    BY <1>4, <1>5, <1>7 DEF ContainsHash, Without
<1>13. Like(t)
    <2>1. 1 < k /\ k + 1 < h /\ h < Len(t)
        BY <1>2, <1>4
    <2> QED
        BY <1>4, <1>5, <1>7, <2>1 DEF Like
<1>14. WellFormed(t)
    BY <1>5, <1>7, <1>11 DEF WellFormed, b
<1>15. SubjectSetFromString(t) = SetAt(t, h, k)
    <2>1. (CHOOSE i \in DOMAIN t : OnlyAt("#", t, i)) = h
        BY <1>5, <1>7, <1>11
    <2>2. (CHOOSE i \in DOMAIN t : OnlyAt(":", b, i)) = k
        BY <1>5, <1>7, <1>11
    <2> QED
        BY <2>1, <2>2 DEF SubjectSetFromString, b
<1>16. Before(b, k) = n /\ After(b, k) = o
    <2>1. k \in 1..Len(b) /\ k - 1 = Len(n) /\ Len(b) - k = Len(o)
        BY <1>2, <1>7, <1>8
    <2>2. /\ Before(b, k) \in Seq(Char)
          /\ Len(Before(b, k)) = k - 1
          /\ \A j \in 1..k - 1 : Before(b, k)[j] = b[j]
          /\ After(b, k) \in Seq(Char)
          /\ Len(After(b, k)) = Len(b) - k
          /\ \A j \in 1..Len(b) - k : After(b, k)[j] = b[k + j]
        BY <1>8, <2>1, Halves
    <2>3. \A j \in 1..Len(n) : b[j] = n[j]
        BY <1>2, <1>4, <1>8
    <2>4. \A j \in 1..Len(o) : b[k + j] = o[j]
        <3> SUFFICES ASSUME NEW j \in 1..Len(o)
                     PROVE  b[k + j] = o[j]
            OBVIOUS
        <3>1. k + j \in 1..h - 1
            BY <1>2
        <3> QED
            BY <1>4, <1>8, <3>1
    <2> HIDE DEF k
    <2>5. Before(b, k) = n
        BY <1>1, <2>1, <2>2, <2>3, SeqEqual
    <2>6. After(b, k) = o
        BY <1>1, <2>1, <2>2, <2>4, SeqEqual
    <2> QED
        BY <2>5, <2>6
<1>18. After(t, h) = r
    <2>1. Len(After(t, h)) = Len(r) /\ \A j \in 1..Len(r) : After(t, h)[j] = r[j]
        BY <1>2, <1>4, <1>8
    <2> QED
        BY <1>1, <1>8, <2>1, SeqEqual
<1>19. SetAt(t, h, k) = s
    BY <1>1, <1>16, <1>18 DEF SetAt, b
<1> QED
    BY <1>12, <1>13, <1>14, <1>15, <1>19 DEF t

\* With clean names every subject is read back from its text, and the two kinds
\* are told apart.
LEMMA SubjectRoundTrip ==
    ASSUME CleanNames, NEW s \in SubjectID \cup SubjectSet
    PROVE  /\ String(s) \in Seq(Char)
           /\ Decodes(String(s))
           /\ SubjectFromString(String(s)) = s
           /\ IsID(s) <=> s \in SubjectID
           /\ IsID(s) <=> ~ContainsHash(String(s))
           /\ IsID(s) <=> ~Like(String(s))
           /\ ~IsID(s) => /\ WellFormed(String(s))
                          /\ SubjectSetFromString(String(s)) = s
<1>1. CASE s \in SubjectID
    <2>1. IsID(s) /\ s.id \in Id /\ s = [id |-> s.id]
        BY <1>1 DEF IsID, SubjectID
    <2>2. String(s) = s.id /\ s.id \in Seq(Char)
        BY <2>1, TextAssumption DEF String
    <2>3. Without(s.id, {"#"})
        BY <2>1 DEF CleanNames
    <2>4. ~ContainsHash(s.id) /\ ~Like(s.id)
        BY <2>3 DEF ContainsHash, Like, Without
    <2> QED
        BY <1>1, <2>1, <2>2, <2>4 DEF Decodes, SubjectFromString
<1>2. CASE s \in SubjectSet
    <2>1. ~IsID(s) /\ s \notin SubjectID
        BY <1>2 DEF IsID, SubjectSet, SubjectID
    <2>2. String(s) = SetString(s)
        BY <2>1 DEF String
    <2> QED
        BY <1>2, <2>1, <2>2, SetRoundTrip, SetStringParts DEF Decodes, SubjectFromString
<1> QED
    BY <1>1, <1>2

\* s is x, then c, then y.
Split(s, x, c, y) ==
    /\ Len(s) = Len(x) + 1 + Len(y)
    /\ \A i \in 1..Len(x) : s[i] = x[i]
    /\ s[Len(x) + 1] = c
    /\ \A i \in 1..Len(y) : s[Len(x) + 1 + i] = y[i]

\* The concatenation of two texts with a character in between has them as its
\* parts at that place.
LEMMA ConcatSplits ==
    ASSUME NEW c \in Char, NEW x \in Seq(Char), NEW y \in Seq(Char)
    PROVE  Split(x \o <<c>> \o y, x, c, y)
BY DEF Split

\* The first c of a text is at one place.
LEMMA FirstUnique ==
    ASSUME NEW c, NEW s, NEW x \in Seq(Char), NEW y \in Seq(Char),
           NEW v \in Seq(Char), NEW w \in Seq(Char),
           Without(v, {c}), Split(s, x, c, y), Split(s, v, c, w)
    PROVE  ~(Len(x) < Len(v))
<1> SUFFICES ASSUME Len(x) < Len(v) PROVE FALSE
    OBVIOUS
<1>1. Len(x) \in Nat /\ Len(v) \in Nat /\ DOMAIN v = 1..Len(v)
    BY LenProperties
<1>2. Len(x) + 1 \in 1..Len(v)
    BY <1>1
<1>3. v[Len(x) + 1] = c
    BY <1>2 DEF Split
<1> QED
    BY <1>1, <1>2, <1>3 DEF Without

\* A text without c, then c, then a rest: text and rest are determined.
LEMMA SplitUnique ==
    ASSUME NEW c \in Char,
           NEW x \in Seq(Char), NEW y \in Seq(Char), NEW v \in Seq(Char), NEW w \in Seq(Char),
           Without(x, {c}), Without(v, {c}),
           x \o <<c>> \o y = v \o <<c>> \o w
    PROVE  x = v /\ y = w
<1>1. PICK s : s = x \o <<c>> \o y /\ s = v \o <<c>> \o w
    OBVIOUS
<1>2. Split(s, x, c, y)
    BY <1>1, ConcatSplits
<1>3. Split(s, v, c, w)
    BY <1>1, ConcatSplits
<1>4. ~(Len(x) < Len(v)) /\ ~(Len(v) < Len(x))
    BY <1>2, <1>3, FirstUnique
<1>5. Len(x) \in Nat /\ Len(y) \in Nat /\ Len(v) \in Nat /\ Len(w) \in Nat
    BY LenProperties
<1>6. Len(s) = Len(x) + 1 + Len(y) /\ Len(s) = Len(v) + 1 + Len(w)
    BY <1>2, <1>3 DEF Split
<1>7. Len(x) = Len(v) /\ Len(y) = Len(w)
    <2> HIDE <1>1
    <2> QED
        BY <1>4, <1>5, <1>6
<1>8. \A i \in 1..Len(x) : x[i] = v[i]
    BY <1>2, <1>3, <1>7, Zenon DEF Split
<1>9. \A i \in 1..Len(y) : y[i] = w[i]
    BY <1>2, <1>3, <1>7, Zenon DEF Split
<1>10. x = v
    BY <1>7, <1>8, SeqEqual, Zenon
<1>11. y = w
    BY <1>7, <1>9, SeqEqual, Zenon
<1> QED
    BY <1>10, <1>11

-----------------------------------------------------------------------------
\* Texts are sequences of characters, whatever the names.
LEMMA StringType ==
    ASSUME NEW s \in SubjectID \cup SubjectSet
    PROVE  String(s) \in Seq(Char)
<1>1. CASE s \in SubjectID
    <2>1. IsID(s) /\ s.id \in Id
        BY <1>1 DEF IsID, SubjectID
    <2> QED
        BY <2>1, TextAssumption DEF String
<1>2. CASE s \in SubjectSet
    <2>1. ~IsID(s)
        BY <1>2 DEF IsID, SubjectSet
    <2> QED
        BY <1>2, <2>1, SetStringParts DEF String
<1> QED
    BY <1>1, <1>2

\* With clean names two tuples have two rows.
LEMMA RowInjective ==
    ASSUME CleanNames, NEW t \in InternalRelationTuple, NEW w \in InternalRelationTuple,
           Row(t) = Row(w)
    PROVE  t = w
<1>1. /\ t.subject \in SubjectID \cup SubjectSet
      /\ w.subject \in SubjectID \cup SubjectSet
      /\ t = [object |-> t.object, relation |-> t.relation, subject |-> t.subject]
      /\ w = [object |-> w.object, relation |-> w.relation, subject |-> w.subject]
    BY DEF InternalRelationTuple
<1>2. t.object = w.object /\ t.relation = w.relation /\ String(t.subject) = String(w.subject)
    BY DEF Row
<1>3. t.subject = w.subject
    BY <1>1, <1>2, SubjectRoundTrip
<1> QED
    BY <1>1, <1>2, <1>3

\* With clean names the rows are those of the tuples that were written: the
\* invariant the queries rest on.
RowsOfWritten == CleanNames => rows = {Row(t) : t \in written}

\* Tuples and rows keep their types (Insert, Delete).
THEOREM TypeCorrect == Spec => []TypeOK
<1>1. Init => TypeOK
    BY DEF Init, TypeOK
<1>2. TypeOK /\ [Next]_vars => TypeOK'
    <2> SUFFICES ASSUME TypeOK, [Next]_vars PROVE TypeOK'
        OBVIOUS
    <2>1. ASSUME NEW t \in InternalRelationTuple
          PROVE  Row(t) \in [object : Object, relation : Relation, subject : Seq(Char)]
        <3>1. /\ t.object \in Object /\ t.relation \in Relation
              /\ t.subject \in SubjectID \cup SubjectSet
            BY DEF InternalRelationTuple
        <3> QED
            BY <3>1, StringType DEF Row
    <2>2. CASE \E t \in InternalRelationTuple : Insert(t)
        BY <2>1, <2>2 DEF TypeOK, Insert
    <2>3. CASE \E t \in InternalRelationTuple : Delete(t)
        BY <2>3 DEF TypeOK, Delete
    <2>4. CASE UNCHANGED vars
        BY <2>4 DEF TypeOK, vars
    <2> QED
        BY <2>2, <2>3, <2>4 DEF Next
<1> QED
    BY <1>1, <1>2, PTL DEF Spec

\* The table always holds just the rows of the written tuples.
LEMMA AlwaysRowsOfWritten == Spec => []RowsOfWritten
<1>1. Init => RowsOfWritten
    BY DEF Init, RowsOfWritten
<1>2. TypeOK /\ RowsOfWritten /\ [Next]_vars => RowsOfWritten'
    <2> SUFFICES ASSUME TypeOK, RowsOfWritten, [Next]_vars, CleanNames
                 PROVE  rows' = {Row(t) : t \in written'}
        BY DEF RowsOfWritten, CleanNames
    <2>0. rows = {Row(t) : t \in written} /\ written \subseteq InternalRelationTuple
        BY DEF RowsOfWritten, TypeOK
    <2>1. ASSUME NEW t \in InternalRelationTuple, Insert(t)
          PROVE  rows' = {Row(w) : w \in written'}
        BY <2>0, <2>1 DEF Insert
    <2>2. ASSUME NEW t \in InternalRelationTuple, Delete(t)
          PROVE  rows' = {Row(w) : w \in written'}
        <3>1. \A w \in written : Row(w) = Row(t) => w = t
            BY <2>0, RowInjective
        <3> QED
            BY <2>0, <2>2, <3>1 DEF Delete
    <2>3. CASE UNCHANGED vars
        BY <2>0, <2>3 DEF vars
    <2> QED
        BY <2>1, <2>2, <2>3 DEF Next
<1> QED
    BY <1>1, <1>2, TypeCorrect, PTL DEF Spec

\* With clean names of any length, the list of all tuples is what was written
\* (ListRelationTuples, SubjectFromString).
THEOREM AlwaysReadsWhatWasWritten == Spec => []ReadsWhatWasWritten
<1>1. TypeOK /\ RowsOfWritten => ReadsWhatWasWritten
    <2> SUFFICES ASSUME TypeOK, RowsOfWritten, CleanNames
                 PROVE  ~ListFails /\ ListRelationTuples = written
        BY DEF ReadsWhatWasWritten
    <2>0. rows = {Row(t) : t \in written} /\ written \subseteq InternalRelationTuple
        BY DEF RowsOfWritten, TypeOK
    <2>1. ASSUME NEW t \in written
          PROVE  Decodes(Row(t).subject) /\ Decoded(Row(t)) = t
        <3>1. /\ t.subject \in SubjectID \cup SubjectSet
              /\ t = [object |-> t.object, relation |-> t.relation, subject |-> t.subject]
            BY <2>0 DEF InternalRelationTuple
        <3>2. Decodes(String(t.subject)) /\ SubjectFromString(String(t.subject)) = t.subject
            BY <3>1, SubjectRoundTrip
        <3> QED
            BY <3>1, <3>2 DEF Row, Decoded
    <2>2. ~ListFails
        BY <2>0, <2>1 DEF ListFails
    <2>3. ListRelationTuples = written
        BY <2>0, <2>1 DEF ListRelationTuples
    <2> QED
        BY <2>2, <2>3
<1> QED
    BY <1>1, TypeCorrect, AlwaysRowsOfWritten, PTL

\* With clean names of any length, the queries of checkLeaf tell subject sets and
\* identifiers apart (SubjectSets, RowCount).
THEOREM AlwaysQueriesTellSubjectsApart == Spec => []QueriesTellSubjectsApart
<1>1. TypeOK /\ RowsOfWritten => QueriesTellSubjectsApart
    <2> SUFFICES ASSUME TypeOK, RowsOfWritten, CleanNames,
                        NEW o \in Object, NEW r \in Relation
                 PROVE  /\ ~SubjectSetsFails(o, r)
                        /\ SubjectSets(o, r) =
                            {t.subject : t \in {t \in written : /\ t.object = o /\ t.relation = r
                                                                /\ ~IsID(t.subject)}}
                        /\ \A i \in Id :
                            HasRow(o, r, i) <=>
                                [object |-> o, relation |-> r, subject |-> [id |-> i]] \in written
        BY DEF QueriesTellSubjectsApart
    <2> DEFINE Sets == {t \in written : t.object = o /\ t.relation = r /\ ~IsID(t.subject)}
    <2>0. rows = {Row(t) : t \in written} /\ written \subseteq InternalRelationTuple
        BY DEF RowsOfWritten, TypeOK
    <2>1. \A t \in written : t.subject \in SubjectID \cup SubjectSet
        BY <2>0 DEF InternalRelationTuple
    <2>2. \A t \in written :
            /\ Row(t).object = t.object /\ Row(t).relation = t.relation
            /\ Row(t).subject = String(t.subject)
        BY DEF Row
    <2>3. \A t \in written :
            /\ ~IsID(t.subject) <=> Like(Row(t).subject)
            /\ ~IsID(t.subject) => /\ WellFormed(Row(t).subject)
                                   /\ SubjectSetFromString(Row(t).subject) = t.subject
        BY <2>1, <2>2, SubjectRoundTrip
    <2>4. SetRows(o, r) = {Row(t) : t \in Sets}
        BY <2>0, <2>2, <2>3 DEF SetRows
    <2>5. ~SubjectSetsFails(o, r)
        BY <2>3, <2>4 DEF SubjectSetsFails
    <2>6. SubjectSets(o, r) = {t.subject : t \in Sets}
        BY <2>3, <2>4 DEF SubjectSets
    <2>7. ASSUME NEW i \in Id
          PROVE  HasRow(o, r, i) <=>
                    [object |-> o, relation |-> r, subject |-> [id |-> i]] \in written
        <3> DEFINE w == [object |-> o, relation |-> r, subject |-> [id |-> i]]
        <3>1. [id |-> i] \in SubjectID
            BY DEF SubjectID
        <3>2. w \in InternalRelationTuple
            BY <3>1 DEF InternalRelationTuple
        <3>3. Row(w) = [object |-> o, relation |-> r, subject |-> i]
            BY DEF Row, String, IsID
        <3> HIDE DEF w
        <3>4. HasRow(o, r, i) <=> Row(w) \in rows
            BY <3>3 DEF HasRow
        <3>5. \A t \in written : Row(t) = Row(w) => t = w
            BY <2>0, <3>2, RowInjective
        <3>6. HasRow(o, r, i) <=> w \in written
            BY <2>0, <3>4, <3>5
        <3> QED
            BY <3>6 DEF w
    <2> QED
        BY <2>5, <2>6, <2>7
<1> QED
    BY <1>1, TypeCorrect, AlwaysRowsOfWritten, PTL

\* With clean names of any length, no two stored tuples have the same text
\* (InternalRelationTuple.String, the keys of changelog and lookup table).
THEOREM AlwaysTextsAreKeys == Spec => []TextsAreKeys
<1>1. TypeOK => TextsAreKeys
    <2> SUFFICES ASSUME TypeOK, CleanNames, NEW t \in written, NEW w \in written,
                        TupleString(t) = TupleString(w)
                 PROVE  t = w
        BY DEF TextsAreKeys
    <2>1. /\ t \in InternalRelationTuple /\ w \in InternalRelationTuple
          /\ t = [object |-> t.object, relation |-> t.relation, subject |-> t.subject]
          /\ w = [object |-> w.object, relation |-> w.relation, subject |-> w.subject]
          /\ t.object \in Object /\ t.relation \in Relation
          /\ w.object \in Object /\ w.relation \in Relation
          /\ t.subject \in SubjectID \cup SubjectSet
          /\ w.subject \in SubjectID \cup SubjectSet
        BY DEF TypeOK, InternalRelationTuple
    <2>2. /\ t.object \in Seq(Char) /\ t.relation \in Seq(Char)
          /\ w.object \in Seq(Char) /\ w.relation \in Seq(Char)
          /\ Table \in Seq(Char)
          /\ String(t.subject) \in Seq(Char) /\ String(w.subject) \in Seq(Char)
        BY <2>1, TextAssumption, StringType
    <2>3. /\ Without(t.object, {"#"}) /\ Without(w.object, {"#"})
          /\ Without(t.relation, {"@"}) /\ Without(w.relation, {"@"})
        BY <2>1 DEF CleanNames, Without
    <2>4. "#" \in Char /\ "@" \in Char /\ ":" \in Char
        BY DEF Char
    <2> DEFINE Rest(x) == x.relation \o <<"@">> \o String(x.subject)
               FromObject(x) == x.object \o <<"#">> \o Rest(x)
    <2>5. ASSUME NEW x \in {t, w}
          PROVE  /\ Rest(x) \in Seq(Char)
                 /\ FromObject(x) \in Seq(Char)
                 /\ TupleString(x) = (Table \o <<":">>) \o FromObject(x)
        <3>1. /\ x.object \in Seq(Char) /\ x.relation \in Seq(Char)
              /\ String(x.subject) \in Seq(Char)
              /\ <<"#">> \in Seq(Char) /\ <<"@">> \in Seq(Char)
            BY <2>2, <2>4
        <3>2. Rest(x) \in Seq(Char)
            BY <3>1, ConcatProperties
        <3>3. FromObject(x) \in Seq(Char)
            BY <3>1, <3>2, ConcatProperties
        <3> QED
            BY <3>2, <3>3 DEF TupleString
    <2>6. FromObject(t) = FromObject(w)
        <3> HIDE DEF FromObject
        <3>1. Table \o <<":">> \in Seq(Char)
            BY <2>2, <2>4
        <3>2. (Table \o <<":">>) \o FromObject(t) = (Table \o <<":">>) \o FromObject(w)
            BY <2>5
        <3> QED
            BY <2>5, <3>1, <3>2, ConcatSimplifications
    <2>7. t.object = w.object /\ Rest(t) = Rest(w)
        <3>1. Rest(t) \in Seq(Char) /\ Rest(w) \in Seq(Char)
            BY <2>5
        <3> HIDE DEF Rest
        <3> QED
            BY <2>2, <2>3, <2>4, <2>6, <3>1, SplitUnique
    <2>8. t.relation = w.relation /\ String(t.subject) = String(w.subject)
        BY <2>2, <2>3, <2>4, <2>7, SplitUnique
    <2>9. t.subject = w.subject
        BY <2>1, <2>8, SubjectRoundTrip
    <2> QED
        BY <2>1, <2>7, <2>8, <2>9
<1> QED
    BY <1>1, TypeCorrect, PTL
=============================================================================
