------------------------ MODULE RelationTuplesProofs ------------------------
(***************************************************************************)
(* Proofs about RelationTuples, for any set of relation tuples, namespaces *)
(* and clients and any bounds.                                             *)
(***************************************************************************)
EXTENDS RelationTuples, TLAPS

\* The rows TransactRelationTuples adds to the lookup table, by tuple.
LEMMA LookupRowsType ==
  ASSUME NEW t \in Tuple
  PROVE  /\ LookupRows(t) \subseteq LookupRow
         /\ \A row \in LookupRows(t) : row.relationtuple = t
<1>1. t \in InternalRelationTuple
  BY TupleAssumption
<1>2. \A ref \in References(t) :
        ref[1] \in Namespace /\ ref[2] \in Relation \cup {Ellipsis}
  BY <1>1 DEF References, SubjectSet, InternalRelationTuple
<1> QED
  BY <1>2 DEF LookupRows, LookupRow

\* A request is of one of three kinds, told apart by its "kind".
LEMMA RequestKinds ==
  ASSUME TypeOK, NEW c \in Client
  PROVE  /\ request[c].kind = "tuples" => request[c] \in TupleRequest
         /\ request[c].kind = "config" => request[c] \in ConfigRequest
BY DEF TypeOK, Idle, TupleRequest, ConfigRequest

\* Type correctness of the tables and of the requests under way.
THEOREM TypeCorrect == Spec => []TypeOK
<1>1. Init => TypeOK
  BY MaxTxnsAssumption DEF Init, TypeOK, Idle
<1>2. TypeOK /\ [Next]_vars => TypeOK'
  <2> SUFFICES ASSUME TypeOK, [Next]_vars PROVE TypeOK'
    OBVIOUS
  <2>1. ASSUME NEW c \in Client, WriteRelationTuplesTxn(c) PROVE TypeOK'
    <3>1. PICK inserts \in SUBSET Tuple, deletes \in SUBSET Tuple :
            Begin(c, [kind |-> "tuples", inserts |-> inserts, deletes |-> deletes,
                      timestamp |-> clock + 1])
      BY <2>1 DEF WriteRelationTuplesTxn
    <3>2. clock + 1 \in Timestamp /\ clock + 1 \in 0..MaxTxns
      BY <3>1, MaxTxnsAssumption DEF Begin, TypeOK, Timestamp
    <3>3. [kind |-> "tuples", inserts |-> inserts, deletes |-> deletes,
           timestamp |-> clock + 1] \in TupleRequest
      BY <3>2 DEF TupleRequest
    <3> QED
      BY <3>1, <3>2, <3>3 DEF Begin, TypeOK
  <2>2. ASSUME NEW c \in Client, RefuseRelationTuples(c) PROVE TypeOK'
    BY <2>2 DEF RefuseRelationTuples, Respond, ToStatus, TypeOK
  <2>3. ASSUME NEW c \in Client, CommitRelationTuples(c) PROVE TypeOK'
    <3> DEFINE r == request[c]
    <3>1. r.inserts \subseteq Tuple /\ r.deletes \subseteq Tuple /\ r.timestamp \in Timestamp
      BY <2>3, RequestKinds DEF CommitRelationTuples, TupleRequest
    <3>2. tuples' \subseteq Tuple
      BY <2>3, <3>1 DEF CommitRelationTuples, TransactRelationTuples, TypeOK
    <3>3. \A t \in r.inserts : LookupRows(t) \subseteq LookupRow
      BY <3>1, LookupRowsType
    <3>4. lookup' \subseteq LookupRow
      BY <2>3, <3>3 DEF CommitRelationTuples, TransactRelationTuples, TypeOK
    <3>5. changelog' \subseteq ChangelogRow
      BY <2>3, <3>1
      DEF CommitRelationTuples, TransactRelationTuples, TypeOK, ChangelogRows, ChangelogRow
    <3> QED
      BY <2>3, <3>2, <3>4, <3>5 DEF CommitRelationTuples, Respond, TypeOK
  <2>4. ASSUME NEW c \in Client, WriteConfig(c) PROVE TypeOK'
    <3>1. PICK ns \in Namespace, relations \in SUBSET Relation :
            Begin(c, [kind |-> "config", namespace |-> ns, relations |-> relations,
                      timestamp |-> clock + 1])
      BY <2>4 DEF WriteConfig
    <3>2. clock + 1 \in Timestamp /\ clock + 1 \in 0..MaxTxns
      BY <3>1, MaxTxnsAssumption DEF Begin, TypeOK, Timestamp
    <3>3. [kind |-> "config", namespace |-> ns, relations |-> relations,
           timestamp |-> clock + 1] \in ConfigRequest
      BY <3>2 DEF ConfigRequest
    <3> QED
      BY <3>1, <3>2, <3>3 DEF Begin, TypeOK
  <2>5. ASSUME NEW c \in Client, CommitConfig(c) PROVE TypeOK'
    <3>1. request[c] \in ConfigRequest
      BY <2>5, RequestKinds DEF CommitConfig
    <3>2. configs' \subseteq ConfigRow
      BY <2>5, <3>1 DEF CommitConfig, UpsertConfig, ConfigRequest, ConfigRow, TypeOK
    <3> QED
      BY <2>5, <3>2 DEF CommitConfig, Respond, ToStatus, TypeOK
  <2>6. ASSUME NEW c \in Client, Abort(c) PROVE TypeOK'
    BY <2>6 DEF Abort, Respond, TypeOK
  <2>7. ASSUME NEW c \in Client, RefuseConfig(c) PROVE TypeOK'
    BY <2>7 DEF RefuseConfig, Respond, TypeOK
  <2>8. CASE UNCHANGED vars
    BY <2>8 DEF vars, TypeOK
  <2> QED
    BY <2>1, <2>2, <2>3, <2>4, <2>5, <2>6, <2>7, <2>8 DEF Next
<1> QED
  BY <1>1, <1>2, PTL DEF Spec

-----------------------------------------------------------------------------
\* The lookup table never misses a reference of a stored tuple: a transaction
\* removes only the lookup rows of tuples it also removes.
THEOREM AlwaysLookupCoversTuples == Spec => []LookupCoversTuples
<1>1. Init => LookupCoversTuples
  BY DEF Init, LookupCoversTuples
<1>2. TypeOK /\ LookupCoversTuples /\ [Next]_vars => LookupCoversTuples'
  <2> SUFFICES ASSUME TypeOK, LookupCoversTuples, [Next]_vars
               PROVE  LookupCoversTuples'
    OBVIOUS
  <2>1. ASSUME NEW c \in Client, CommitRelationTuples(c) PROVE LookupCoversTuples'
    <3> DEFINE r == request[c]
    <3>1. r.inserts \subseteq Tuple
      BY <2>1, RequestKinds DEF CommitRelationTuples, TupleRequest
    <3> SUFFICES ASSUME NEW t \in tuples', NEW row \in LookupRows(t)
                 PROVE  row \in lookup'
      BY DEF LookupCoversTuples, LookupRows, References
    <3>2. t \in tuples \cup r.inserts /\ t \notin r.deletes /\ t \in Tuple
      BY <2>1, <3>1 DEF CommitRelationTuples, TransactRelationTuples, TypeOK
    <3>3. row \in lookup \cup UNION {LookupRows(u) : u \in r.inserts}
      BY <3>2 DEF LookupCoversTuples
    <3>4. row.relationtuple = t
      BY <3>2, LookupRowsType
    <3>5. row \notin UNION {DeletedLookupRows(u) : u \in r.deletes}
      BY <3>2, <3>4 DEF DeletedLookupRows
    <3> QED
      BY <2>1, <3>3, <3>5 DEF CommitRelationTuples, TransactRelationTuples
  <2>2. ASSUME UNCHANGED <<tuples, lookup>> PROVE LookupCoversTuples'
    BY <2>2 DEF LookupCoversTuples, LookupRows, References
  <2> QED
    BY <2>1, <2>2 DEF Next, WriteRelationTuplesTxn, RefuseRelationTuples, RefuseConfig,
                      WriteConfig, CommitConfig, Abort, Begin, vars
<1> QED
  BY <1>1, <1>2, TypeCorrect, PTL DEF Spec

\* A version that is later than all others of its namespace is the one GetConfig
\* returns once it is stored.
LEMMA UpsertBecomesCurrent ==
  ASSUME TypeOK, NEW ns \in Namespace, NEW relations \in SUBSET Relation,
         NEW ts \in Timestamp, UpsertConfig(ns, relations, ts),
         \A d \in ConfigsOf(ns) : d.timestamp < ts
  PROVE  /\ CurrentRelations(ns)' = relations
         /\ \A m \in Namespace : m # ns => CurrentRelations(m)' = CurrentRelations(m)
<1> DEFINE new == [namespace |-> ns,
                   operation |-> IF ConfigsOf(ns) = {} THEN "ADD" ELSE "UPDATE",
                   relations |-> relations,
                   timestamp |-> ts]
<1>1. configs' = configs \cup {new}
  BY DEF UpsertConfig
<1>2. new.namespace = ns /\ new.timestamp = ts /\ new.relations = relations
  OBVIOUS
<1> HIDE DEF new
<1>3. ConfigsOf(ns)' = ConfigsOf(ns) \cup {new}
  BY <1>1, <1>2 DEF ConfigsOf
<1>4. \A d \in ConfigsOf(ns) : d.timestamp \in Nat
  BY MaxTxnsAssumption DEF ConfigsOf, TypeOK, ConfigRow, Timestamp
<1>5. ts \in Nat
  BY MaxTxnsAssumption DEF Timestamp
<1>6. \A x \in ConfigsOf(ns)' :
        (\A d \in ConfigsOf(ns)' : d.timestamp <= x.timestamp) <=> x = new
  BY <1>2, <1>3, <1>4, <1>5
<1>7. GetConfig(ns)' = new
  BY <1>3, <1>6 DEF GetConfig
<1>8. CurrentRelations(ns)' = relations
  BY <1>2, <1>3, <1>7 DEF CurrentRelations
<1>9. ASSUME NEW m \in Namespace, m # ns
      PROVE  CurrentRelations(m)' = CurrentRelations(m)
  <2>1. ConfigsOf(m)' = ConfigsOf(m)
    BY <1>1, <1>2, <1>9 DEF ConfigsOf
  <2> QED
    BY <2>1 DEF CurrentRelations, GetConfig
<1> QED
  BY <1>8, <1>9

\* WriteConfig never removes a relation that a stored tuple refers to.
THEOREM AlwaysRemovalIsSafe == Spec => RemovalIsSafe
<1> DEFINE Safe == \A ns \in Namespace :
                     \A r \in CurrentRelations(ns) \ CurrentRelations(ns)' :
                        \A t \in tuples : <<ns, r>> \notin References(t)
<1>1. TypeOK /\ LookupCoversTuples /\ [Next]_vars => [Safe]_vars
  <2> SUFFICES ASSUME TypeOK, LookupCoversTuples, [Next]_vars
               PROVE  Safe \/ UNCHANGED vars
    OBVIOUS
  <2>1. ASSUME NEW c \in Client, CommitConfig(c) PROVE Safe
    <3>0. request[c] \in ConfigRequest
      BY <2>1, RequestKinds DEF CommitConfig
    <3>1. PICK ns \in Namespace, relations \in SUBSET Relation, ts \in Timestamp :
            /\ ns = request[c].namespace
            /\ relations = request[c].relations
            /\ ts = request[c].timestamp
      BY <3>0 DEF ConfigRequest
    <3> DEFINE removed == CurrentRelations(ns) \ relations
    <3>2. CASE LookupRelationReferences(ns, removed) = {}
      <4>1. UpsertConfig(ns, relations, ts) /\ \A d \in ConfigsOf(ns) : d.timestamp < ts
        BY <2>1, <3>1, <3>2 DEF CommitConfig
      <4>2. /\ CurrentRelations(ns)' = relations
            /\ \A m \in Namespace : m # ns => CurrentRelations(m)' = CurrentRelations(m)
        BY <4>1, UpsertBecomesCurrent
      <4> SUFFICES ASSUME NEW r \in removed, NEW t \in tuples, <<ns, r>> \in References(t)
                   PROVE  FALSE
        BY <4>2
      <4>3. [namespace |-> ns, relation |-> r, relationtuple |-> t] \in lookup
        BY DEF LookupCoversTuples, LookupRows
      <4> QED
        BY <3>2, <4>3 DEF LookupRelationReferences
    <3>3. CASE LookupRelationReferences(ns, removed) # {}
      <4>1. configs' = configs
        BY <2>1, <3>1, <3>3 DEF CommitConfig
      <4> QED
        BY <4>1 DEF CurrentRelations, ConfigsOf, GetConfig
    <3> QED
      BY <3>2, <3>3
  <2>2. ASSUME configs' = configs PROVE Safe
    BY <2>2 DEF CurrentRelations, ConfigsOf, GetConfig
  <2> QED
    BY <2>1, <2>2 DEF Next, WriteRelationTuplesTxn, RefuseRelationTuples, RefuseConfig,
                      CommitRelationTuples, WriteConfig, Abort, Begin
<1> QED
  BY <1>1, TypeCorrect, AlwaysLookupCoversTuples, PTL DEF Spec, RemovalIsSafe

-----------------------------------------------------------------------------
(***************************************************************************)
(* TupleRelationsWereDefined is not inductive: the inserts of a            *)
(* transaction under way must have been validated too.                     *)
(***************************************************************************)
PendingInsertsAllowed ==
    \A c \in Client : request[c].kind = "tuples" =>
        \A t \in request[c].inserts : InsertAllowed(t)

\* No step deletes a version of a configuration, so what a version allowed to be
\* inserted stays allowed.
LEMMA InsertAllowedStable ==
  ASSUME [Next]_vars, NEW t, InsertAllowed(t)
  PROVE  InsertAllowed(t)'
<1>1. configs \subseteq configs'
  BY DEF Next, vars, WriteRelationTuplesTxn, RefuseRelationTuples, RefuseConfig,
         CommitRelationTuples, WriteConfig, CommitConfig, UpsertConfig, Abort, Begin
<1>2. \A ns : ConfigsOf(ns) \subseteq ConfigsOf(ns)'
  BY <1>1 DEF ConfigsOf
<1>3. ASSUME NEW ref \in References(t)
      PROVE  /\ ConfigsOf(ref[1])' # {}
             /\ ref[2] # Ellipsis => Defined(ref[1], ref[2])'
  <2>1. /\ ConfigsOf(ref[1]) # {}
        /\ ref[2] # Ellipsis => Defined(ref[1], ref[2])
    BY DEF InsertAllowed
  <2> QED
    BY <1>2, <2>1 DEF Defined
<1> QED
  BY <1>3 DEF InsertAllowed, References

\* The strengthened invariant.
LEMMA InsertsAreAllowed == Spec => [](TupleRelationsWereDefined /\ PendingInsertsAllowed)
<1> DEFINE Inv == TupleRelationsWereDefined /\ PendingInsertsAllowed
<1>1. Init => Inv
  BY DEF Init, TupleRelationsWereDefined, PendingInsertsAllowed, Idle
<1>2. TypeOK /\ Inv /\ [Next]_vars => Inv'
  <2> SUFFICES ASSUME TypeOK, TupleRelationsWereDefined, PendingInsertsAllowed,
                      [Next]_vars
               PROVE  TupleRelationsWereDefined' /\ PendingInsertsAllowed'
    OBVIOUS
  <2>0. \A t : InsertAllowed(t) => InsertAllowed(t)'
    BY InsertAllowedStable
  <2>1. TupleRelationsWereDefined'
    <3>1. \A t \in tuples' : InsertAllowed(t)
      BY DEF Next, vars, WriteRelationTuplesTxn, RefuseRelationTuples, RefuseConfig,
             CommitRelationTuples, TransactRelationTuples, WriteConfig, CommitConfig,
             Abort, Begin, TupleRelationsWereDefined, PendingInsertsAllowed
    <3> QED
      BY <2>0, <3>1 DEF TupleRelationsWereDefined
  <2>2. ASSUME NEW c \in Client, request'[c].kind = "tuples",
               NEW t \in request'[c].inserts
        PROVE  InsertAllowed(t)
    <3>1. CASE request'[c] = request[c]
      BY <2>2, <3>1 DEF PendingInsertsAllowed
    <3>2. ASSUME NEW d \in Client, NEW code, Respond(d, code), request'[c] # request[c]
          PROVE  FALSE
      BY <2>2, <3>2 DEF Respond, Idle, TypeOK
    <3>3. ASSUME NEW d \in Client, WriteConfig(d), request'[c] # request[c]
          PROVE  FALSE
      BY <2>2, <3>3 DEF WriteConfig, Begin, TypeOK
    <3>4. ASSUME NEW d \in Client, WriteRelationTuplesTxn(d), request'[c] # request[c]
          PROVE  InsertAllowed(t)
      BY <2>2, <3>4 DEF WriteRelationTuplesTxn, Begin, TypeOK
    <3>5. CASE UNCHANGED vars
      BY <3>1, <3>5 DEF vars
    <3> QED
      BY <3>1, <3>2, <3>3, <3>4, <3>5
      DEF Next, RefuseRelationTuples, RefuseConfig, CommitRelationTuples, CommitConfig, Abort
  <2> QED
    BY <2>0, <2>1, <2>2 DEF PendingInsertsAllowed
<1> QED
  BY <1>1, <1>2, TypeCorrect, PTL DEF Spec

\* Every relation a stored tuple uses was defined by some version of its
\* namespace.
THEOREM AlwaysTupleRelationsWereDefined == Spec => []TupleRelationsWereDefined
BY InsertsAreAllowed, PTL

\* The "ADD" entry of a namespace is its earliest version, and the only one.
THEOREM AlwaysAddIsFirst == Spec => []AddIsFirst
<1>1. Init => AddIsFirst
  BY DEF Init, AddIsFirst
<1>2. TypeOK /\ AddIsFirst /\ [Next]_vars => AddIsFirst'
  <2> SUFFICES ASSUME TypeOK, AddIsFirst, [Next]_vars PROVE AddIsFirst'
    OBVIOUS
  <2>1. ASSUME NEW ns \in Namespace, NEW relations \in SUBSET Relation,
               NEW ts \in Timestamp, UpsertConfig(ns, relations, ts),
               \A d \in ConfigsOf(ns) : d.timestamp < ts
        PROVE  AddIsFirst'
    <3> DEFINE new == [namespace |-> ns,
                       operation |-> IF ConfigsOf(ns) = {} THEN "ADD" ELSE "UPDATE",
                       relations |-> relations,
                       timestamp |-> ts]
    <3>1. configs' = configs \cup {new}
      BY <2>1 DEF UpsertConfig
    <3>2. /\ new.namespace = ns /\ new.timestamp = ts
          /\ new.operation = IF ConfigsOf(ns) = {} THEN "ADD" ELSE "UPDATE"
      OBVIOUS
    <3> HIDE DEF new
    <3>3. \A d \in configs : d.timestamp \in Nat
      BY MaxTxnsAssumption DEF TypeOK, ConfigRow, Timestamp
    <3>4. ts \in Nat
      BY MaxTxnsAssumption DEF Timestamp
    <3>5. /\ ConfigsOf(ns)' = ConfigsOf(ns) \cup {new}
          /\ \A m : m # ns => ConfigsOf(m)' = ConfigsOf(m)
      BY <3>1, <3>2 DEF ConfigsOf
    <3> SUFFICES ASSUME NEW d \in configs'
                 PROVE  d.operation = "ADD" <=>
                          \A e \in ConfigsOf(d.namespace)' : d.timestamp <= e.timestamp
      BY <3>5 DEF AddIsFirst, ConfigsOf
    <3>6. CASE d = new
      <4>1. CASE ConfigsOf(ns) = {}
        BY <3>2, <3>4, <3>5, <3>6, <4>1
      <4>2. CASE ConfigsOf(ns) # {}
        <5>1. PICK e \in ConfigsOf(ns) : TRUE
          BY <4>2
        <5>2. e.timestamp < ts /\ e.timestamp \in Nat
          BY <2>1, <3>3, <5>1 DEF ConfigsOf
        <5>3. ~(d.timestamp <= e.timestamp) /\ e \in ConfigsOf(d.namespace)'
          BY <3>2, <3>4, <3>5, <3>6, <5>2
        <5> QED
          BY <3>2, <3>6, <4>2, <5>3
      <4> QED
        BY <4>1, <4>2
    <3>7. CASE d \in configs /\ d.namespace = ns
      <4>1. d.timestamp < ts /\ d.timestamp \in Nat
        BY <2>1, <3>3, <3>7 DEF ConfigsOf
      <4>2. (\A e \in ConfigsOf(ns)' : d.timestamp <= e.timestamp) <=>
              (\A e \in ConfigsOf(ns) : d.timestamp <= e.timestamp)
        BY <3>2, <3>4, <3>5, <4>1
      <4> QED
        BY <3>7, <4>2 DEF AddIsFirst
    <3>8. CASE d \in configs /\ d.namespace # ns
      BY <3>5, <3>8 DEF AddIsFirst
    <3> QED
      BY <3>1, <3>6, <3>7, <3>8
  <2>2. ASSUME configs' = configs PROVE AddIsFirst'
    BY <2>2 DEF AddIsFirst, ConfigsOf
  <2>3. ASSUME NEW c \in Client, CommitConfig(c) PROVE AddIsFirst'
    <3>1. request[c] \in ConfigRequest
      BY <2>3, RequestKinds DEF CommitConfig
    <3>2. CASE configs' = configs
      BY <2>2, <3>2
    <3>3. CASE configs' # configs
      BY <2>1, <2>3, <3>1, <3>3 DEF CommitConfig, ConfigRequest
    <3> QED
      BY <3>2, <3>3
  <2>4. ASSUME NEW c \in Client, WriteRelationTuplesTxn(c) \/ WriteConfig(c)
        PROVE  configs' = configs
    BY <2>4 DEF WriteRelationTuplesTxn, WriteConfig, Begin
  <2>5. ASSUME NEW c \in Client,
               \/ RefuseRelationTuples(c) \/ CommitRelationTuples(c)
               \/ RefuseConfig(c) \/ Abort(c)
        PROVE  configs' = configs
    BY <2>5 DEF RefuseRelationTuples, CommitRelationTuples, RefuseConfig, Abort
  <2>6. CASE UNCHANGED vars
    BY <2>2, <2>6 DEF vars
  <2> QED
    BY <2>2, <2>3, <2>4, <2>5, <2>6 DEF Next
<1> QED
  BY <1>1, <1>2, TypeCorrect, PTL DEF Spec

-----------------------------------------------------------------------------
(***************************************************************************)
(* The changelog.  Two entries for a tuple in one transaction, an insert   *)
(* and a delete, leave it out of the table, as the log says.               *)
(***************************************************************************)

\* What a transaction adds to the log under one operation.
LEMMA ChangelogRowsLog ==
  ASSUME NEW operation, NEW ts, NEW S
  PROVE  /\ \A e \in ChangelogRows(operation, ts, S) :
              e.operation = operation /\ e.relationtuple \in S
         /\ \A t \in S : \E e \in ChangelogRows(operation, ts, S) :
              e.operation = operation /\ e.relationtuple = t
<1> DEFINE row(u) == [operation |-> operation, relationtuple |-> u, timestamp |-> ts]
<1>1. \A u : row(u).operation = operation /\ row(u).relationtuple = u
  OBVIOUS
<1>2. \A e : e \in ChangelogRows(operation, ts, S) <=> \E u \in S : e = row(u)
  BY DEF ChangelogRows
<1> HIDE DEF row
<1> QED
  BY <1>1, <1>2

\* Every stored tuple has an insert in the log, and every tuple that was inserted
\* and is not stored has a delete.
THEOREM AlwaysChangelogAccountsForTuples == Spec => []ChangelogAccountsForTuples
<1>1. Init => ChangelogAccountsForTuples
  BY DEF Init, ChangelogAccountsForTuples, Logged
<1>2. TypeOK /\ ChangelogAccountsForTuples /\ [Next]_vars => ChangelogAccountsForTuples'
  <2> SUFFICES ASSUME TypeOK, ChangelogAccountsForTuples, [Next]_vars
               PROVE  ChangelogAccountsForTuples'
    OBVIOUS
  <2>1. ASSUME NEW c \in Client, CommitRelationTuples(c)
        PROVE  ChangelogAccountsForTuples'
    <3> DEFINE ins == request[c].inserts
               del == request[c].deletes
               ts == request[c].timestamp
    <3>1. /\ tuples' = (tuples \cup ins) \ del
          /\ changelog' = changelog \cup ChangelogRows("INSERT", ts, ins)
                                    \cup ChangelogRows("DELETE", ts, del)
      BY <2>1 DEF CommitRelationTuples, TransactRelationTuples
    <3> HIDE DEF ins, del, ts
    <3>2. ASSUME NEW op, NEW t
          PROVE  Logged(op, t)' <=>
                    \/ Logged(op, t)
                    \/ op = "INSERT" /\ t \in ins
                    \/ op = "DELETE" /\ t \in del
      <4> DEFINE I == ChangelogRows("INSERT", ts, ins)
                 D == ChangelogRows("DELETE", ts, del)
      <4>1. /\ \A e \in I : e.operation = "INSERT" /\ e.relationtuple \in ins
            /\ \A u \in ins : \E e \in I : e.operation = "INSERT" /\ e.relationtuple = u
        BY ChangelogRowsLog
      <4>2. /\ \A e \in D : e.operation = "DELETE" /\ e.relationtuple \in del
            /\ \A u \in del : \E e \in D : e.operation = "DELETE" /\ e.relationtuple = u
        BY ChangelogRowsLog
      <4>3. changelog' = changelog \cup I \cup D
        BY <3>1
      <4> HIDE DEF I, D
      <4> QED
        BY <4>1, <4>2, <4>3 DEF Logged
    <3> QED
      BY <3>1, <3>2 DEF ChangelogAccountsForTuples
  <2>2. ASSUME UNCHANGED <<tuples, changelog>> PROVE ChangelogAccountsForTuples'
    BY <2>2 DEF ChangelogAccountsForTuples, Logged
  <2> QED
    BY <2>1, <2>2 DEF Next, WriteRelationTuplesTxn, RefuseRelationTuples, RefuseConfig,
                      WriteConfig, CommitConfig, Abort, Begin, vars
<1> QED
  BY <1>1, <1>2, TypeCorrect, PTL DEF Spec

-----------------------------------------------------------------------------
(***************************************************************************)
(* The refinement.  A commit is a step of TupleStore; everything else, the *)
(* begin of a transaction included, leaves the store as it is.             *)
(***************************************************************************)
Current == [ns \in Namespace |-> CurrentRelations(ns)]
Versions == [ns \in Namespace |-> {c.relations : c \in ConfigsOf(ns)}]

\* The pairs a tuple refers to are in the domain of the store.
LEMMA ReferencesType ==
  ASSUME NEW t \in Tuple, NEW ref \in References(t)
  PROVE  ref[1] \in Namespace
<1>1. t \in InternalRelationTuple
  BY TupleAssumption
<1> QED
  BY <1>1 DEF References, SubjectSet, InternalRelationTuple

\* What a validated insert uses is known to the store.
LEMMA AllowedIsKnown ==
  ASSUME NEW t \in Tuple, InsertAllowed(t), NEW ref \in References(t)
  PROVE  Store!Known(ref[1], ref[2])
<1>1. ref[1] \in Namespace
  BY ReferencesType
<1>2. /\ ConfigsOf(ref[1]) # {}
      /\ ref[2] # Ellipsis => \E d \in ConfigsOf(ref[1]) : ref[2] \in d.relations
  BY DEF InsertAllowed, Defined
<1> QED
  BY <1>1, <1>2 DEF Store!Known

\* Tables, transactions and the reverse lookup implement TupleStore.
THEOREM RefinesTupleStore == Spec => ImplementsTupleStore
<1>1. Init => Store!Init
  BY DEF Init, Store!Init, CurrentRelations, ConfigsOf
<1>2. TypeOK /\ LookupCoversTuples /\ PendingInsertsAllowed /\ [Next]_vars
        => [Store!Next]_(Store!storeVars)
  <2> SUFFICES ASSUME TypeOK, LookupCoversTuples, PendingInsertsAllowed, [Next]_vars
               PROVE  Store!Next \/ UNCHANGED <<tuples, Current, Versions>>
    BY DEF Store!storeVars, Current, Versions
  <2>1. ASSUME UNCHANGED <<tuples, configs>>
        PROVE  UNCHANGED <<tuples, Current, Versions>>
    BY <2>1 DEF Current, Versions, CurrentRelations, ConfigsOf, GetConfig
  <2>2. ASSUME NEW c \in Client, CommitRelationTuples(c)
        PROVE  Store!Next
    <3>1. request[c] \in TupleRequest /\ request[c].kind = "tuples"
      BY <2>2, RequestKinds DEF CommitRelationTuples
    <3>2. PICK inserts \in SUBSET Tuple, deletes \in SUBSET Tuple :
            inserts = request[c].inserts /\ deletes = request[c].deletes
      BY <3>1 DEF TupleRequest
    <3>3. \A t \in inserts : \A ref \in References(t) : Store!Known(ref[1], ref[2])
      <4> SUFFICES ASSUME NEW t \in inserts, NEW ref \in References(t)
                   PROVE  Store!Known(ref[1], ref[2])
        OBVIOUS
      <4>1. t \in Tuple /\ InsertAllowed(t)
        BY <3>1, <3>2 DEF PendingInsertsAllowed
      <4> QED
        BY <4>1, AllowedIsKnown
    <3>4. tuples' = (tuples \cup inserts) \ deletes
      BY <2>2, <3>2 DEF CommitRelationTuples, TransactRelationTuples
    <3>5. Current' = Current /\ Versions' = Versions
      BY <2>2 DEF CommitRelationTuples, Current, Versions, CurrentRelations, ConfigsOf,
                  GetConfig
    <3>6. Store!WriteTuples(inserts, deletes)
      BY <3>3, <3>4, <3>5 DEF Store!WriteTuples, Current, Versions
    <3> QED
      BY <3>6 DEF Store!Next
  <2>3. ASSUME NEW c \in Client, CommitConfig(c), configs' # configs
        PROVE  Store!Next
    <3>0. request[c] \in ConfigRequest
      BY <2>3, RequestKinds DEF CommitConfig
    <3>1. PICK ns \in Namespace, relations \in SUBSET Relation, ts \in Timestamp :
            /\ ns = request[c].namespace
            /\ relations = request[c].relations
            /\ ts = request[c].timestamp
      BY <3>0 DEF ConfigRequest
    <3>2. /\ LookupRelationReferences(ns, CurrentRelations(ns) \ relations) = {}
          /\ UpsertConfig(ns, relations, ts)
          /\ \A d \in ConfigsOf(ns) : d.timestamp < ts
          /\ tuples' = tuples
      BY <2>3, <3>1 DEF CommitConfig
    <3>3. /\ CurrentRelations(ns)' = relations
          /\ \A m \in Namespace : m # ns => CurrentRelations(m)' = CurrentRelations(m)
      BY <3>2, UpsertBecomesCurrent
    <3>4. Current' = [Current EXCEPT ![ns] = relations]
      BY <3>3 DEF Current
    <3>5. Versions' = [Versions EXCEPT ![ns] = @ \cup {relations}]
      <4> DEFINE new == [namespace |-> ns,
                         operation |-> IF ConfigsOf(ns) = {} THEN "ADD" ELSE "UPDATE",
                         relations |-> relations,
                         timestamp |-> ts]
      <4>1. configs' = configs \cup {new}
        BY <3>2 DEF UpsertConfig
      <4>2. new.namespace = ns /\ new.relations = relations
        OBVIOUS
      <4> HIDE DEF new
      <4>3. /\ ConfigsOf(ns)' = ConfigsOf(ns) \cup {new}
            /\ \A m : m # ns => ConfigsOf(m)' = ConfigsOf(m)
        BY <4>1, <4>2 DEF ConfigsOf
      <4>4. {d.relations : d \in ConfigsOf(ns)'}
              = {d.relations : d \in ConfigsOf(ns)} \cup {relations}
        BY <4>2, <4>3
      <4>5. \A m \in Namespace : m # ns =>
              {d.relations : d \in ConfigsOf(m)'} = {d.relations : d \in ConfigsOf(m)}
        BY <4>3
      <4> QED
        BY <4>4, <4>5 DEF Versions
    <3>6. ASSUME NEW t \in tuples, NEW r \in Current[ns] \ relations,
                 <<ns, r>> \in References(t)
          PROVE  FALSE
      <4>1. [namespace |-> ns, relation |-> r, relationtuple |-> t] \in lookup
        BY <3>6 DEF LookupCoversTuples, LookupRows
      <4> QED
        BY <3>2, <4>1 DEF LookupRelationReferences, Current
    <3>7. Store!WriteVersion(ns, relations)
      BY <3>2, <3>4, <3>5, <3>6 DEF Store!WriteVersion, Current, Versions
    <3> QED
      BY <3>7 DEF Store!Next
  <2>4. \/ \E c \in Client : CommitRelationTuples(c)
        \/ \E c \in Client : CommitConfig(c) /\ configs' # configs
        \/ UNCHANGED <<tuples, configs>>
    BY DEF Next, vars, WriteRelationTuplesTxn, RefuseRelationTuples, RefuseConfig,
           WriteConfig, CommitConfig, Abort, Begin
  <2> QED
    BY <2>1, <2>2, <2>3, <2>4
<1> QED
  BY <1>1, <1>2, TypeCorrect, AlwaysLookupCoversTuples, InsertsAreAllowed, PTL
  DEF Spec, ImplementsTupleStore, Store!Spec
=============================================================================
