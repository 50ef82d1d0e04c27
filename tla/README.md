# access-controller: TLA+ models, checks and proofs

The access-controller is an implementation of Zanzibar: a cluster of Go
servers that answer whether a subject has a relation to an object, from relation
tuples and namespace configurations in a shared database. This directory holds
TLA+ models of its core, TLC configurations that check them on small instances,
and TLAPS proofs of the properties that matter most. `PROJECT.json` maps every
definition to the lines it models and lists runs, mutants, hazards, findings and
theorems.

    tlc -config RelationTuples.cfg MCRelationTuples     # one run
    tlapm ConfigSnapshotsProofs.tla                     # one proof module

## 1. Inventory

| component | state | operations |
|---|---|---|
| peer namespace config store (`namespacemgr.go`) | peer -> namespace -> timestamp -> config, in memory | set, list per namespace, get, delete a peer |
| config watcher (`watchNamespaceConfigs`) | the rows of one poll | poll the top three changes every two seconds, record them |
| cluster membership (`memberlist`, external; callbacks in `access-controller.go`) | the hashring, the clients, the peer store | `LocalState`, `MergeRemoteState`, `NotifyJoin`, `NotifyLeave`, `Close` |
| hashring and client router (`hashring.go`, `client-router.go`) | ring members, peer -> RPC client, a lock each | add, remove, locate, checksum, get |
| snapshot choice (`chooseNamespaceConfigSnapshot`) | reads the store | pick the version a request is evaluated with |
| tuple store (`sql-store.go`) | a table per namespace, `changelog`, `namespace-relation-lookup` | transact, list, count, subject sets |
| subject and tuple codec (`relation-tuple.go`) | none | subjects and tuples to text and back |
| namespace manager (`postgres/manager.go`) | `namespace-configs`, `namespace-changelog` | upsert, get, top changes, reverse lookup, transactions |
| write API (`WriteRelationTuplesTxn`, `WriteConfig`) | none of its own | validate, then one transaction |
| check (`check`, `checkRewrite`, `checkLeaf`) | goroutines and channels of a request | route to the owner of the object, evaluate a rewrite concurrently |
| expand, list, read, health | none | queries |

How they interact. `WriteConfig` adds a version to the database; every node's
watcher finds it by polling and puts it in the node's own entry of its store;
push/pull carries that entry to the other nodes, which record it under the
sender's name. Every request begins by choosing the version that, by these
records, the others have as well. `WriteRelationTuplesTxn` validates against
that choice and then writes; `WriteConfig` consults the lookup table those writes
maintain before it lets a relation go. `check` forwards to the owner of the object
on the hashring or evaluates the rewrite of the relation itself, one goroutine
per child; a child that meets a subject set calls `check` again. Ring and clients
change under it, by the callbacks of memberlist.

What is hard. Beliefs about peers are exchanged asynchronously and outlive
restarts and departures; validation happens before, and outside, the transaction
it is for; the evaluation of a rewrite returns on the first of several racing
channels; forwarding retries while ring and clients change, with values in a
context that no peer receives; subjects are compared as texts. The hazards in
`PROJECT.json` list each at its line.

What makes each part correct:

- snapshots: a belief about a peer is never ahead of the peer; a choice is one
  that every peer can use; after changes and faults end, all choose the latest;
- writes: the lookup table misses no reference, so a relation in use is never
  removed; the logs account for the tables; what is refused is refused for a cause;
- evaluation: an outcome is the logical value of the rewrite whatever fails or
  hangs, and it is returned as soon as it is determined; the value is the one the
  tuples give it, also when they change between the queries, as far as that can
  be said, and Expand leaves out nobody who has it and shows nobody else;
- routing: every request is answered; a failure at a peer is made good by the caller
  while the membership is settled; a check uses one version of the configuration on
  a node;
- codec: what was written is read back, and different tuples have different texts.

## 2. Modules

| module | models | used by |
|---|---|---|
| `ConfigSnapshots` | watcher, peer store, gossip, choice | |
| `TupleStore` | abstract: tuples and versions, changed in single steps | implemented by `RelationTuples` |
| `RelationTuples` | tuple writes, configuration writes, the tables | |
| `RewriteTree` | the tree of a rewrite, its value in three-valued logic | `CheckOutcome`, `CheckRewrite` |
| `CheckOutcome` | abstract: from the answers of the leaves to a verdict in one step | implemented by `CheckRewrite` |
| `CheckRewrite` | concurrent evaluation of a rewrite | |
| `Membership` | hashring and clients under memberlist's callbacks | extended by `DistributedCheck` |
| `DistributedCheck` | one Check request through the cluster | |
| `RewriteRules` | tuples, rewrites and their validation, the queries, writes | extended by the next two |
| `CheckUnderWrites` | what the answer of a check means while tuples and configs are written | |
| `ExpandUnderWrites` | whom the tree of an Expand shows meanwhile | |
| `SubjectCodec` | texts of subjects and tuples, the queries that compare them | |
| `*Proofs` | theorems about each | section 5 |
| `MC*` | instances for TLC: tuples, trees, configs, owners, symmetry | |

### ConfigSnapshots

`configs[n][p][ns]` is `configs` of node n's in-memory store: the timestamps of
`ns` recorded for peer p. A timestamp is the rank of a change in the changelog
of its namespace: the database serializes the versions of one namespace, so rank
order is timestamp order. `fetched[n]` is the part of the poll result the
watcher has yet to record, `net[a][b]` the part of a's `LocalState` that b has yet
to merge; both loops lock the store anew in every turn, so every turn is a step of
its own. `ring[n]` is the hashring, which also says which members n has been
told of. Actions are named after the functions. `Close` includes the
`NotifyLeave` memberlist delivers to the leaving node itself; the watcher's
goroutine never ends (only the function that started it does), so `Poll` goes on
until `Exit`.

`ChooseNamespaceConfigSnapshot(n, ns)` is the set of timestamps the function may
return: Go's map order decides between peers with equally few snapshots.

External (memberlist): who is reported to whom, and when. A departure is
reported after the node has left or crashed, or, as a fault, while it is up. A
push/pull is between a node and a member it was told of, or a node that is leaving
(`LocalState`); its state may be merged after the sender was reported gone, because
push/pull runs on a connection of its own.

### RelationTuples and TupleStore

A request is a begin, at which `NOW()` is fixed, and a commit or an abort. The
database is CockroachDB with its default serializable isolation, so a transaction
is modelled as taking effect at its commit; one that would commit a version of a
namespace older than a version already committed is aborted, since it would have
read a state it did not see. Validation of a tuple write precedes the begin and
uses whatever version the node's choice returned, so `Defined` asks for some
committed version. `DeletedLookupRows` keeps the AND of the two expressions in
`TransactRelationTuples`. Tuples are records here; that two tuples never share a
text is `TextsAreKeys` of `SubjectCodec`.

`TupleStore` is what a caller may rely on: tuples come and go in single steps and
use only relations that some version defined; a version drops no relation that a
tuple uses. `ImplementsTupleStore` maps the newest row of `namespace-configs` to
`current` and all rows to `versions`; requests, refusals, aborts, the logs and the
lookup table are invisible.

### CheckRewrite and CheckOutcome

`Parent` gives the tree, `pc[n]` the place of the goroutine that evaluates n:
`started`, `selecting` (in the select of `checkRewrite`), `sending` (blocked on an
unbuffered channel), `done`. The two channels of a node are one set of senders,
since select takes from any. The goroutine behind `wg.Wait` can only send once all
children are done (`AllChildrenDone`). The answers of the leaves are chosen in
`Init`, a hang included; a leaf whose context is done may fail instead. gRPC ends
the context when the handler returns (`HandlerReturns`, external). A rewrite that
is neither a union nor an intersection, which `checkRewrite` answers with a
denial, is left out: an inner node is one or the other.

`CheckOutcome` has no goroutines: a verdict is given in one step, it is the value
of the rewrite or an error with a cause, and it must be given once the answers
determine it. `KeepsPromise` says that `CheckRewrite` implements it, liveness
included.

### Membership and DistributedCheck

`NotifyJoin` stores the client and then adds the ring member, `NotifyLeave` removes
the client and then the member, under two locks: each is two actions, and
`callback[n]` is the one that is half way (memberlist calls one at a time). `addr`
is the port in a peer's metadata. A restarted node comes back with any port;
`NotifyUpdate` is empty, so a peer whose death went unnoticed keeps the client for
its old port. memberlist may be wrong both ways: it may report the departure of a
peer that runs (`MaxFaults`), and the join of one that has ended, when a node merges
the view of a member that has not noticed (`MaxStale`). The checksum stands for the
set of members (no CRC collisions).

`DistributedCheck` follows one request. The calls of `check` that wait for each
other, on whatever nodes, are a stack of frames; a frame has the values of its
context (`sum`, `ts`), its place in `check` and the locals that outlive a step.
A call is "proxied", over gRPC, where the context's values are lost, or "nested",
from `checkLeaf`, with the context. Between any two steps the membership may
change, calls may fail or break, nodes may die with their frames, snapshots may
move on, and the client may give up. `LocateKey` is any function from an object
and a set of members to a member: the consistent hash with bounded loads is only
assumed to depend on the members. A snapshot that the node has just chosen may be
missing from its own store (`MayLackSnapshot`): not with one peer, by
`PairChoiceUsable` of `ConfigSnapshots`, but with more, by finding (1), and entries of
departed peers count. Once it was found it stays until `Close`, when the server has
stopped, so a timestamp from the context is always found. A query of `checkLeaf` may fail at any evaluation (`QueryFails`);
`failedAt` remembers on which node, for `InternalIsOwnFailure`. The branch for a
failed type assertion cannot be taken and is left out. The evaluation of a rewrite is
one path of nested checks: which of several children decides is the matter of
`CheckRewrite`.

### RewriteRules

What Check and Expand read. A rule is a rewrite or a child of one, on any level; a
call is the evaluation of a rule for an object. `tuples` is the tuple table,
`versions` the configs that `WriteConfig` accepted so far; `Writes` changes both
between any two steps of a request. A node selects any accepted version, which is
more than `ConfigSnapshots` allows it. The histories `ever` and `always` are the
tuples that were stored at some, and at every, moment of the request.
`ValidateRewriteRelations` is the function of that name with its return at the
first nested rewrite: it calls itself for one rewrite after the other, and the set
`R` of these stands for the recursion.

The reference `Granted(every, C, T, V)` is the least fixed point of the rules over
the tuples `T` and the configs `V`, as what is in every set of calls that is closed
under them. `every` says how configs of one namespace that differ are read: a
relation is had by every one of them, or by some. Sets that are closed take the
place of recursion here and in the modules below, so that all of it can be proved
about.

### CheckUnderWrites

A check makes many queries in no transaction. The state is what the calls of a
request have found: `missed` (a row count of 0), `lists` (subject sets that were
read), `allowed` and `denied` (calls that returned true or false). A call may be
evaluated several times with different results; all are kept, so the module says
what may be put together in any order, by any number of goroutines and nodes. A
list may break off (`cut`), as in `SubjectSets` of the SQL store. A nested check
that is forwarded is evaluated with the config of the other node, so every call may
have another one (`NestedSameSnapshot` says that those of one node have one).

What holds is a bound from each side: what is allowed is granted by `ever` and some
configs, what is denied is not granted by `always` under all of them. Nothing
between the two is promised: a user who was granted a relation at every moment, but
first by a row of their own and then through a group, may be denied, and one who
had two relations at different moments only may be allowed their intersection.

### ExpandUnderWrites

The same for `expand` and `expandWithRewrite`. Of a tree it is kept whether the user
is one of its leaves (`shown`, `hidden`); a leaf of another user is the same
question asked for them. An intersection is read as a union, since its children are
put into one list; `...` is the relation at hand, in a tupleset and in a subject
set, where Check takes the computed relation of a tupleset's rows and looks for a
relation "..." otherwise; the users among the rows of a tupleset are leaves, which
Check does not ask for. `Alike` are the calls where this makes no difference to who
may be left out, `Plain` those where it makes none at all, they and the calls they
lead to. An intersection without children is in neither: Check allows it to
everybody, Expand shows nobody.

### SubjectCodec

Names are sequences of characters of which `:`, `#` and `@` matter. `String`,
`SubjectFromString`, `SubjectSetFromString`, `FromString`, the `LIKE` pattern and
the equality of the queries are modelled by what they do with them. Rows hold the
texts; `written` is what the callers asked for. `CleanNames` is a condition under
which the codec is one, and which the code does not enforce: no `:` or `#` in namespaces and objects,
no `#` or `@` in relations, no `#` in subject ids, names not empty; `@` in objects
and `:` in relations and ids are harmless.

## 3. Runs

| run | instance | result |
|---|---|---|
| `converge` | 2 nodes, 2 namespaces, 2 changes in all, polls of 1, 1 fault, restarts | 5 invariants, 1 action property and `Convergence` hold |
| `common` | 3 nodes, no fault | `ChosenCommonToAll` is violated (1) |
| `ghost` | 2 nodes, 2 namespaces, 1 fault, fair | `NewNamespacePropagates` is violated (2) |
| `tuples` | 2 clients, 2 namespaces, 2 tuples, 2 deltas, 5 transactions | 5 invariants, 1 action property and the refinement hold |
| `causeless` | the same, 4 tuples | `RefusalHasCause` is violated (3) |
| `union` | union of an intersection of two leaves and a leaf | 2 invariants, the refinement and 2 liveness properties hold |
| `routing_pair` | 2 nodes, 2 objects, 2 versions, 1 retry, depth 4, 2 ports, 1 fault, failing queries | 3 invariants, `ChecksMoveOn` and `CheckAnswered` hold |
| `cluster` | 3 nodes, 1 object, no retry, depth 3, 1 fault, 1 join of a dead peer | 3 invariants and `RingsConverge` hold |
| `fallback` | 2 nodes, 1 fault | `FallbackNotRefused` is violated (4) |
| `under_writes` | 1 object, 5 rules, 3 tuples, 3 configs of which 2 are accepted, any writes | 4 invariants and `CheckReturns` hold |
| `expand` | 1 object, 5 rules, 3 tuples, the same configs, any writes | 2 invariants and `ExpandReturns` hold |
| `codec` | names of 1 or 2 characters, clean | 3 invariants hold |

Bounds. Two changes (`MaxWrites`) are either two versions of one namespace, so that
with polls of one a node misses a version between two polls, the gap that makes the
choice hard, or a version of each, so that a peer is known by one namespace and not
yet aware of the other. One fault suffices for a restart with stale beliefs around,
or a late merge from a node that left, since starts are not counted as faults.
Five transactions are two configurations, an insert, a delete and a removal, or one
configuration, an insert, a delete, the same insert and a removal. Of the tuples of
`tuples` one has a plain subject, whose lookup row goes when it is deleted, and one a
set of another namespace, whose rows stay; `causeless` adds a set of the tuple's own
relation and one by `...`. The tree has both connectives, one inside the other, with leaves at two
depths. A depth of four is a check, its forwarding, a nested check and its
forwarding; a check deeper in the stack does not call (`MaxDepth` is in the guard
of `Push`) but may still be evaluated. One retry instead of five leaves a second
round with another owner, another client or none; the code's constant is only
compared with the counter. Two ports tell a stale client from a fresh one. Nodes
start with a choice of `FirstChoice`: in `routing_pair` one of them, or both, may not
know the namespace yet. A dead peer is reported as joined once (`MaxStale`) in
`cluster`, to a node that restarts or was told of its end. The
rules of `under_writes` are an intersection of a computed and a tupleset child over
a relation that holds by a set and by the user's own row; a tuple closes the circle
that `CheckReturns` excepts. `expand` has the same rules; of the two rows of the
tupleset one is a set that Check and Expand read alike, so that the intersection is
granted through a set, and the other one that they read differently, which to Expand
closes a circle. One config
defines both relations, one only members, and one, which is refused, mentions an
undefined relation in a nested rewrite. Longer lists, more objects and deeper
rewrites are in the theorems. For everything but liveness the theorems do away
with the bounds.

Symmetry is used where no liveness property is checked: of nodes in `common`, of
clients in `tuples`. Deadlock is not checked for `CheckRewrite`
(an evaluation ends) and `DistributedCheck` (a request ends, and what may change
is bounded). `CheckUnderWrites` and `ExpandUnderWrites` never
stop, since a write is always possible. `ConfigSnapshots` never stops: a poll is always possible on a running
node, and a node that is down can start. `RelationTuples` can always refuse.

What the violated runs show. (1) With three or more peers the choice need only be
shared by two. (2) A late merge revives a departed peer's entry for good, which
blocks every namespace added after. (3) Deleting a tuple whose subject is a set
leaves its lookup rows, and the relations it used can never be removed. (4) A node
that becomes the owner while it retries refuses its own nested checks: the context
still has the checksum of the former ring.

Other disagreements met while modelling. The models have the code's behaviour, no
run is about them, and the properties above are stated so as to say what holds in
spite of them:

- the refusal to remove a relation is INVALID_ARGUMENT (`namespacemgr.go:54`),
  documented as FAILED_PRECONDITION;
- the timestamp of a version is the begin, not the commit, of its transaction;
- checksum and timestamp are values of the Go context, which does not cross gRPC: a
  peer with another ring does not refuse, it chooses a version of its own, and while
  rings disagree a check may be forwarded in a circle (`SettledForwardsOnce` says
  that it is not otherwise);
- the validation of a rewrite stops at its first nested rewrite
  (`NestedLastClosed` is about configs where nothing follows it, and says that
  nothing is missed there);
- Expand reads `...` in a tupleset as the relation being expanded, Check as the
  computed one, and Expand puts all subjects of an intersection's children into one
  list (`PlainShowsGranted` is about calls that meet neither, `ShowsWhoStands` admits
  intersections); its depth is compared with nothing;
- the timestamp that `expand` puts into the context is not read: a nested `expand`
  selects a config of its own (`Shows` and `Hides` take any accepted one);
- `rows.Err` is not consulted, so a query that fails halfway is a denial
  (`DeniesWhatWasNotStanding` excepts it, `AllowsWhatWasGranted` does not);
- a subject id with `#` fails the lists of its namespace, or comes back as a subject
  set (`CleanNames`), and the subject filter of `ListRelationTuples` compares with
  protobuf's text format and finds nothing.

## 4. Fairness

`ConfigSnapshots`: the watcher's loop has no exit (`Watch`), push/pull is periodic
and what it brings is merged (`PushPull`), memberlist reports joins and departures in
the end (`Report`), and `main` returns after `Close`: weak fairness of each, for every
node or pair. Nothing is assumed of changes, starts,
faults or false suspicions; `RestartSpec` adds that what went down is started
again, as a process supervisor does, and is used only for `Convergence`: a node
that stays down after a late merge is finding (2).

`CheckRewrite`: runnable goroutines run and a select with a ready case proceeds:
weak fairness of each. A leaf that hangs is under no obligation, not even when its
context ends (the SQL store ignores its context); a client need not cancel.

`Membership`: callbacks run to their end, and memberlist's gossip and failure
detection report who joined and who is down in the end: weak fairness, for each node,
of `CallbackDue`, the second half of a callback or a report that is right, whichever
comes first. Nothing is assumed of crashes, restarts and wrong reports; what is shown for
`RingsConverge` is what holds after the last of them. `ClusterSpec` is the composed
system with this fairness and none of the check's.

`DistributedCheck`: `CheckStep`, the goroutine of the topmost call, goes on; no
step of the membership, the network or the client has to happen. A call that the
peer never answers is a proxied frame that does go on; a peer that hangs is not
modelled, since nothing but the client's deadline ends such a call in the code.

`CheckUnderWrites` and `ExpandUnderWrites`: queries are answered and the goroutine
of a call that has not returned goes on (`Continue`): weak fairness for each call. A
second query of the same leaf, a broken result and a write need not happen. Writes
may go on for good: a circle that is never stored at one moment may still keep a
recursion going, so circles are those over `ever`. That a call fails, and its
request with it, is not a way to return here: under this fairness it does not.

## 5. Proofs

All theorems hold for every value of the constants that satisfies the assumptions
`TopNAssumption`, `BoundsAssumption`, `TupleAssumption`, `MaxTxnsAssumption`,
`TreeAssumption`, `MembershipAssumption`, `CheckAssumption`, `RulesAssumption` and `TextAssumption`,
which TLC evaluates in the runs of the modules that state them. The types of
`CheckRewrite`, `SubjectCodec`, `CheckUnderWrites` and `ExpandUnderWrites`, the lemma
`EndedChildrenUndecided` and the two `StuckInCircles` are proved and not run.

- `ConfigSnapshotsProofs`: `TypeCorrect`, `Inductive`, `NeverFalseLead`,
  `AlwaysChosenOnlyWhenAllAware`, `AlwaysChoiceNotBehindCommon`,
  `AlwaysPairChoiceUsable`, `AlwaysPairChoiceNeverBack`. `NoFalseLead` is not inductive as it stands: a
  restart replaces what the node holds by the top changes, so one must know that
  what others recorded of its former life is in the changelog and hence not ahead
  of its latest entry. `IInv` adds `OnlyLogged`: everything recorded, fetched or on
  its way is logged. The next three are consequences of `NoFalseLead` and of what
  the operators of the choice return. The last: the choice of a node that knows one
  peer is the latest version both records have, and no step but a restart or a
  departure takes a version out of a record. With three peers or more this is
  false: a record that grows may no longer be the smallest, and the choice is
  then made from another.
- `RelationTuplesProofs`: `TypeCorrect`, `AlwaysLookupCoversTuples`,
  `AlwaysRemovalIsSafe`, `AlwaysTupleRelationsWereDefined`, `AlwaysAddIsFirst`,
  `AlwaysChangelogAccountsForTuples`, `RefinesTupleStore`. `LookupCoversTuples` is
  inductive with the types: the rows a deletion removes are those of the deleted
  tuple. `RemovalIsSafe` follows from it and the guard of `CommitConfig`.
  `TupleRelationsWereDefined` needs that the inserts of requests under way were
  allowed, and that allowed stays allowed as versions are only added. The
  refinement has one step per action: the two commits are the two steps of
  `TupleStore`, where the guards follow from those invariants, all else stutters.
- `CheckRewriteProofs`: `TypeCorrect`, `AlwaysEndedChildrenUndecided`,
  `AlwaysVerdictSound`, `AlwaysErrorHasCause`, `ImplementsCheckOutcome`. The
  invariant relates `pc` and `result` of parent and child: a child that is done
  under a selecting parent returned the parent's default. Soundness is one step of
  three-valued evaluation per node; the reference valuation is any solution of the
  tree's equations, so no recursion is needed. The refinement is then: only the
  root's return changes the verdict, and what it returns is justified.
- `DistributedCheckProofs`: `MembershipTypeCorrect`,
  `AlwaysRingMembersHaveClients` (with what `NotifyJoin` did before its second
  half), `ImplementsMembership`, which carries both over to the composed system,
  `TypeCorrect`, `AlwaysNestedSameSnapshot`, `AlwaysInternalIsOwnFailure`,
  `AlwaysSettledForwardsOnce`, `AlwaysClientsAreMembers`, `AlwaysChecksMoveOn`. `StackInv` is the invariant: a frame below the top
  waits and has its timestamp, a nested frame has its caller's, and, as long as
  nothing disturbed the check, rings are complete, stamps are their checksum, and a
  proxied frame is at its object's owner and so never asks a peer. Three lemmas say
  when a move of the top, a call and a return keep it; each action is one of these.
  `ClientsAreMembers` needs to know which half of a callback has been done on the
  node. `InternalIsOwnFailure` needs that a nested frame is on its caller's node, so
  that what it passes up failed there, and that a failure never passes a proxied
  frame. `ChecksMoveOn` is the safety half of `CheckAnswered`: a call that stays on
  the stack is untouched or further on in a bounded order. That such steps do happen
  is what fairness adds, and TLC checks. It needs that
  a frame waits for the call above it and that a nested call is on its caller's
  node, so that both die together.
- `RewriteRulesProofs`: the lemmas of the next two. What the rules give grows with
  the calls, the tuples and, when some config is enough, the configs; when every
  config must agree it shrinks with the configs. `AcceptedClosed` is the argument
  for `NestedLastClosed`: the rewrites that validation passes, with the valid leaves,
  are a set that has the rewrites of all relations and, where nested rewrites are
  last, every child of its members, so it has all rules of the config.
- `CheckUnderWritesProofs`: `TypeCorrect`, `Inductive`,
  `AlwaysAllowsWhatWasGranted`, `AlwaysDeniesWhatWasNotStanding`,
  `AlwaysQuietCheckIsExact`, `AlwaysNestedLastClosed`, `AlwaysStuckInCircles`, for all
  configs (circular ones too), tuples, writes and orders of evaluation. `IInv` says
  that the table lies between the histories and configs were accepted, that what was
  read lies between them too (`ReadsInWindow`), that `allowed` is in every set closed
  under the rules over `ever` (`AllowsFollow`), and that no denied call can be
  derived from the calls that were not denied, over `always` (`DenialsStand`): those
  calls are a closed set without it, so it is not granted. Closed sets instead of a
  computed fixed point make the argument one without induction.
  `StuckInCircles` is the safety half of `CheckReturns`: if no call that has not
  returned can go on, each of them leads to another such call. `CanContinue` writes
  the guards out, since `ENABLED` is beyond the prover.
- `ExpandUnderWritesProofs`: `TypeCorrect`, `Inductive`, `AlwaysShowsWhoStands`,
  `AlwaysPlainShowsGranted`, `AlwaysStuckInCircles`. `IInv` has the same parts, in
  Expand's own reading of the rules (`ExpandDerives`), in which they are inductive
  for all calls. The two theorems then carry closed sets from one reading to the
  other: all calls but those of `Alike` that hide the user are closed in Check's
  reading over `always`; a set that is closed in Check's reading over `ever`, with
  all calls that are not `Plain`, is closed in Expand's. Both need that `Alike` and
  `Plain` lead only into themselves.
- `SubjectCodecProofs`: `TypeCorrect`, `AlwaysReadsWhatWasWritten`,
  `AlwaysQueriesTellSubjectsApart`, `AlwaysTextsAreKeys`, for names of any length:
  the first delimiter of a text is where the clean name before it ends, so the
  parts are recovered (`SetRoundTrip`, `SplitUnique`) and rows are in bijection
  with tuples.

Only model-checked: liveness (`Convergence`, `SenderServed`, `NoSelectLeftBehind`,
`RingsConverge`, `CheckAnswered`, `CheckReturns`, `ExpandReturns` and the fairness
part of `KeepsPromise`), which is beyond the prover. Every invariant and action
property of the passing runs is stated by a theorem.

## 6. Not modelled

- JSON forms and `Equals` of subjects and tuples, the contents of configurations
  outside `RewriteRules`, the shape of Expand's trees, snap tokens and paging, which the code does not implement.
- The connection pool: a statement that fails leaves its transaction open on a
  connection. The database has dropped its locks by then; only the connection is
  lost.
- The unlocked read of live inner maps by the choice: an inner map only grows or
  is dropped whole, and the process abort Go may answer with is `Crash`.
- The required fields and status codes of the handlers; the failure of
  `NotifyJoin` to parse metadata, which its peer's `NodeMeta` wrote.
- The hash and bounded loads of the ring, and CRC collisions of its checksum.
- Health checking, flags, gateway, migrations: input and output without state.

## 7. Plan

Done: the components of the core, their abstract specifications, the safety proofs
and the safety halves of three of the liveness properties. Left:

1. the watcher, the choice and the routing composed, instead of `choice[n]` and of
   any accepted version;
2. several concurrent evaluations over one path of the stack (a `CheckRewrite` whose
   leaves are the frames of `DistributedCheck`), if a property needs it.
