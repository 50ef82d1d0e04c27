--------------------------- MODULE RelationTuples ---------------------------
(***************************************************************************)
(* The tables of the shared database and the two kinds of request that     *)
(* write them: WriteRelationTuplesTxn, which inserts and deletes relation  *)
(* tuples, and WriteConfig, which adds a version of a namespace            *)
(* configuration.  The namespace-relation-lookup table ties them together: *)
(* it is what WriteConfig consults before it lets a relation go.           *)
(*                                                                         *)
(* The database (CockroachDB, external) runs transactions serializably: a  *)
(* transaction takes effect at its commit, as if it had read everything    *)
(* there, or not at all.  NOW() is the time a transaction BEGINS.          *)
(*                                                                         *)
(* A tuple write is validated before its transaction, against the config   *)
(* snapshots chooseNamespaceConfigSnapshot selects for its namespaces.     *)
(* Module ConfigSnapshots shows what that choice guarantees; here it is    *)
(* any committed version, or none.                                         *)
(***************************************************************************)
EXTENDS Naturals, FiniteSets

CONSTANTS
    Namespace, Object, Relation, SubjectID,
    Ellipsis,      \* the relation "..." of a subject set
    Tuple,         \* the relation tuples clients write
    Client,        \* clients, each with one request under way at a time
    MaxDeltas,     \* bound: deltas of a WriteRelationTuplesTxn request
    MaxTxns        \* bound: transactions begun

SubjectSet ==
    [namespace : Namespace, object : Object, relation : Relation \cup {Ellipsis}]

InternalRelationTuple ==
    [namespace : Namespace, object : Object, relation : Relation,
     subject : SubjectID \cup SubjectSet]

ASSUME TupleAssumption == Tuple \subseteq InternalRelationTuple
ASSUME MaxTxnsAssumption == MaxTxns \in Nat

VARIABLES
    configs,    \* the rows of "namespace-configs" and "namespace-changelog",
                \*   which UpsertConfig writes together
    tuples,     \* the rows of the namespaces' own tables
    lookup,     \* the rows of "namespace-relation-lookup"
    changelog,  \* the rows of "changelog"
    request,    \* request[c]: the transaction of client c's request, or Idle
    response,   \* response[c]: the status code of client c's last request
    clock       \* NOW() of the transaction begun last

vars == <<configs, tuples, lookup, changelog, request, response, clock>>

Timestamp == 1..MaxTxns

ConfigRow ==
    [namespace : Namespace, operation : {"ADD", "UPDATE"},
     relations : SUBSET Relation, timestamp : Timestamp]

LookupRow ==
    [namespace : Namespace, relation : Relation \cup {Ellipsis},
     relationtuple : Tuple]

ChangelogRow ==
    [operation : {"INSERT", "DELETE"}, relationtuple : Tuple,
     timestamp : Timestamp]

Idle == [kind |-> "idle"]

TupleRequest ==
    [kind : {"tuples"}, inserts : SUBSET Tuple, deletes : SUBSET Tuple,
     timestamp : Timestamp]

ConfigRequest ==
    [kind : {"config"}, namespace : Namespace, relations : SUBSET Relation,
     timestamp : Timestamp]

TypeOK ==
    /\ configs \subseteq ConfigRow
    /\ tuples \subseteq Tuple
    /\ lookup \subseteq LookupRow
    /\ changelog \subseteq ChangelogRow
    /\ request \in [Client -> {Idle} \cup TupleRequest \cup ConfigRequest]
    /\ response \in [Client -> {"none", "OK", "InvalidArgument",
                                "FailedPrecondition", "Internal", "Unknown"}]
    /\ clock \in 0..MaxTxns

-----------------------------------------------------------------------------
(***************************************************************************)
(* Reading the configuration tables.                                       *)
(***************************************************************************)

ConfigsOf(ns) == {c \in configs : c.namespace = ns}

\* GetConfig: the version of ns with the MAX(timestamp)
GetConfig(ns) ==
    CHOOSE c \in ConfigsOf(ns) : \A d \in ConfigsOf(ns) : d.timestamp <= c.timestamp

\* the relations that the latest version of ns defines
CurrentRelations(ns) ==
    IF ConfigsOf(ns) = {} THEN {} ELSE GetConfig(ns).relations

\* LookupRelationReferencesByCount: those of the relations that have a count
LookupRelationReferences(ns, relations) ==
    {r \in relations : \E row \in lookup : row.namespace = ns /\ row.relation = r}

\* ToStatus: the code of a NamespaceConfigError
ToStatus(type) ==
    IF type \in {"NamespaceDoesntExist", "NamespaceRelationUndefined",
                 "NamespaceUpdateFailedPrecondition"}
    THEN "InvalidArgument"
    ELSE "Unknown"

-----------------------------------------------------------------------------
(***************************************************************************)
(* Validating a tuple write.                                               *)
(***************************************************************************)

\* the (namespace, relation) pairs a tuple refers to: its own and, if its
\* subject is a subject set, the subject set's
References(t) ==
    {<<t.namespace, t.relation>>} \cup
    {<<s.namespace, s.relation>> : s \in {t.subject} \cap SubjectSet}

\* rewriteFromNamespaceConfig finds r in some version of ns
Defined(ns, r) == \E c \in ConfigsOf(ns) : r \in c.relations

\* the checks of an insert: its relation and that of its subject set are
\* defined, except that for "..." the namespace is enough
InsertAllowed(t) ==
    \A ref \in References(t) :
        /\ ConfigsOf(ref[1]) # {}
        /\ ref[2] # Ellipsis => Defined(ref[1], ref[2])

DeleteAllowed(t) == ConfigsOf(t.namespace) # {}

-----------------------------------------------------------------------------
(***************************************************************************)
(* What TransactRelationTuples writes: every insert, then every delete.    *)
(***************************************************************************)

\* Mutant: only the tuple's own relation is looked up by
LookupRowsTupleOnly(t) ==
    {[namespace |-> t.namespace, relation |-> t.relation, relationtuple |-> t]}

LookupRows(t) ==
    {[namespace |-> ref[1], relation |-> ref[2], relationtuple |-> t] :
        ref \in References(t)}

\* Mutant: the rows of the relation, whichever tuple they are for
DeletedLookupRowsOfRelation(t) ==
    {row \in LookupRow : <<row.namespace, row.relation>> \in References(t)}

\* the lookup rows that the deletion of t removes: the expressions for the
\* tuple's relation and for its subject set's are joined by AND
DeletedLookupRows(t) ==
    {row \in LookupRow :
        /\ row.relationtuple = t
        /\ \A ref \in References(t) :
            row.namespace = ref[1] /\ row.relation = ref[2]}

\* Mutants: every operation is logged as an insert, or under another name
ChangelogRowsInsert(operation, ts, S) ==
    {[operation |-> "INSERT", relationtuple |-> t, timestamp |-> ts] : t \in S}

ChangelogRowsTouch(operation, ts, S) ==
    {[operation |-> "TOUCH", relationtuple |-> t, timestamp |-> ts] : t \in S}

ChangelogRows(operation, ts, S) ==
    {[operation |-> operation, relationtuple |-> t, timestamp |-> ts] : t \in S}

TransactRelationTuples(inserts, deletes, ts) ==
    /\ tuples' = (tuples \cup inserts) \ deletes
    /\ lookup' = (lookup \cup UNION {LookupRows(t) : t \in inserts})
                    \ UNION {DeletedLookupRows(t) : t \in deletes}
    /\ changelog' = changelog \cup ChangelogRows("INSERT", ts, inserts)
                              \cup ChangelogRows("DELETE", ts, deletes)

-----------------------------------------------------------------------------
Init ==
    /\ configs = {}
    /\ tuples = {}
    /\ lookup = {}
    /\ changelog = {}
    /\ request = [c \in Client |-> Idle]
    /\ response = [c \in Client |-> "none"]
    /\ clock = 0

\* a transaction begins: NOW() is fixed
Begin(c, txn) ==
    /\ request[c] = Idle
    /\ clock < MaxTxns
    /\ clock' = clock + 1
    /\ request' = [request EXCEPT ![c] = txn]
    /\ response' = [response EXCEPT ![c] = "none"]
    /\ UNCHANGED <<configs, tuples, lookup, changelog>>

\* a request is answered
Respond(c, code) ==
    /\ request' = [request EXCEPT ![c] = Idle]
    /\ response' = [response EXCEPT ![c] = code]

\* Mutant: the relation of a subject set is not validated
WriteRelationTuplesTxnTrusting(c) ==
    \E inserts, deletes \in SUBSET Tuple :
        /\ Cardinality(inserts) + Cardinality(deletes) \in 1..MaxDeltas
        /\ \A t \in inserts : Defined(t.namespace, t.relation)
        /\ \A t \in deletes : DeleteAllowed(t)
        /\ Begin(c, [kind |-> "tuples", inserts |-> inserts, deletes |-> deletes,
                     timestamp |-> clock + 1])

\* WriteRelationTuplesTxn up to the begin of its transaction
WriteRelationTuplesTxn(c) ==
    \E inserts, deletes \in SUBSET Tuple :
        /\ Cardinality(inserts) + Cardinality(deletes) \in 1..MaxDeltas
        /\ \A t \in inserts : InsertAllowed(t)
        /\ \A t \in deletes : DeleteAllowed(t)
        /\ Begin(c, [kind |-> "tuples", inserts |-> inserts, deletes |-> deletes,
                     timestamp |-> clock + 1])

\* WriteRelationTuplesTxn refuses a request: a namespace or relation is
\* undefined in the snapshots selected on the node, which may lag behind (an
\* empty field, or no delta at all, has the same code)
RefuseRelationTuples(c) ==
    /\ request[c] = Idle
    /\ \E type \in {"NamespaceDoesntExist", "NamespaceRelationUndefined"} :
        Respond(c, ToStatus(type))
    /\ UNCHANGED <<configs, tuples, lookup, changelog, clock>>

CommitRelationTuples(c) ==
    /\ request[c].kind = "tuples"
    /\ TransactRelationTuples(request[c].inserts, request[c].deletes,
                              request[c].timestamp)
    /\ Respond(c, "OK")
    /\ UNCHANGED <<configs, clock>>

\* WriteConfig up to the begin of its transaction
WriteConfig(c) ==
    \E ns \in Namespace, relations \in SUBSET Relation :
        Begin(c, [kind |-> "config", namespace |-> ns, relations |-> relations,
                  timestamp |-> clock + 1])

\* WriteConfig refuses a request before its transaction: the config or its name
\* is missing, or validateRewriteRelations finds a rewrite that is malformed or
\* names a relation the config does not define
RefuseConfig(c) ==
    /\ request[c] = Idle
    /\ Respond(c, "InvalidArgument")
    /\ UNCHANGED <<configs, tuples, lookup, changelog, clock>>

\* Mutant: the row count is ignored
UpsertConfigAdd(ns, relations, ts) ==
    configs' = configs \cup
        {[namespace |-> ns, operation |-> "ADD", relations |-> relations,
          timestamp |-> ts]}

\* UpsertConfig
UpsertConfig(ns, relations, ts) ==
    configs' = configs \cup
        {[namespace |-> ns,
          operation |-> IF ConfigsOf(ns) = {} THEN "ADD" ELSE "UPDATE",
          relations |-> relations,
          timestamp |-> ts]}

\* the transaction of WriteConfig: relations that are to go must not be
\* referenced.  Serializability orders the versions of one namespace: a
\* transaction that would commit a version older than one it has read from is
\* aborted.
CommitConfig(c) ==
    /\ request[c].kind = "config"
    /\ LET ns        == request[c].namespace
           relations == request[c].relations
           ts        == request[c].timestamp
           removed   == CurrentRelations(ns) \ relations
       IN  /\ \A d \in ConfigsOf(ns) : d.timestamp < ts
           /\ IF LookupRelationReferences(ns, removed) = {}
              THEN /\ UpsertConfig(ns, relations, ts)
                   /\ Respond(c, "OK")
              ELSE /\ UNCHANGED configs
                   /\ Respond(c, ToStatus("NamespaceUpdateFailedPrecondition"))
    /\ UNCHANGED <<tuples, lookup, changelog, clock>>

\* a statement or the commit fails, in either kind of request: nothing of the
\* transaction takes effect
Abort(c) ==
    /\ request[c] # Idle
    /\ Respond(c, "Internal")
    /\ UNCHANGED <<configs, tuples, lookup, changelog, clock>>

Next ==
    \E c \in Client :
        \/ WriteRelationTuplesTxn(c)
        \/ RefuseRelationTuples(c)
        \/ CommitRelationTuples(c)
        \/ WriteConfig(c)
        \/ RefuseConfig(c)
        \/ CommitConfig(c)
        \/ Abort(c)

Spec == Init /\ [][Next]_vars

-----------------------------------------------------------------------------
(***************************************************************************)
(* Properties.                                                             *)
(***************************************************************************)

\* Every relation a stored tuple refers to has its lookup row, after any
\* sequence of inserts, deletes and re-inserts: the reverse lookup never misses
\* a reference.
LookupCoversTuples ==
    \A t \in tuples : LookupRows(t) \subseteq lookup

\* WriteConfig: "Removing an existing relation that has one or more relation
\* tuples referencing it will lead to an error", whatever is committed between
\* the request and its transaction.
RemovalIsSafe ==
    [][\A ns \in Namespace : \A r \in CurrentRelations(ns) \ CurrentRelations(ns)' :
          \A t \in tuples : <<ns, r>> \notin References(t)]_vars

\* The requests, their validation against old snapshots, their transactions and
\* the reverse lookup implement a store that changes in single steps, in which a
\* tuple's relations are known and no relation in use is dropped.
Store == INSTANCE TupleStore WITH
    current  <- [ns \in Namespace |-> CurrentRelations(ns)],
    versions <- [ns \in Namespace |-> {c.relations : c \in ConfigsOf(ns)}]

ImplementsTupleStore == Store!Spec

\* A stored tuple only uses relations that some version of their namespace
\* defined, though not always the current one: it is validated before its
\* transaction, and against a snapshot that may be old.
TupleRelationsWereDefined ==
    \A t \in tuples : InsertAllowed(t)

Logged(op, t) == \E e \in changelog : e.operation = op /\ e.relationtuple = t

\* The changelog accounts for the tables: a stored tuple was inserted, and one
\* that was inserted and is not stored was deleted.
ChangelogAccountsForTuples ==
    \A t \in Tuple :
        /\ t \in tuples => Logged("INSERT", t)
        /\ Logged("INSERT", t) /\ t \notin tuples => Logged("DELETE", t)

\* The earliest version of a namespace, by timestamp, and no other, is the one
\* logged as "ADD", whoever raced to create the namespace.
AddIsFirst ==
    \A d \in configs :
        d.operation = "ADD" <=>
            \A e \in ConfigsOf(d.namespace) : d.timestamp <= e.timestamp

\* namespace_service.proto: "move all existing relation tuples referencing it
\* over to the new relation and then delete the old relation once all tuples have
\* been migrated".  A removal is refused only if some tuple refers to a relation
\* to be removed.
RefusalHasCause ==
    [][\A c \in Client :
          (request[c] # Idle /\ request[c].kind = "config"
             /\ response'[c] \in {"InvalidArgument", "FailedPrecondition"})
          => \E t \in tuples :
                \E r \in CurrentRelations(request[c].namespace) \ request[c].relations :
                    <<request[c].namespace, r>> \in References(t)]_vars
=============================================================================
