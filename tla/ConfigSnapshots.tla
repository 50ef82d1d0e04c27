-------------------------- MODULE ConfigSnapshots --------------------------
(***************************************************************************)
(* How the nodes of an access-controller cluster come to agree on the      *)
(* version of a namespace configuration to evaluate a request with.        *)
(*                                                                         *)
(* Every node polls the changelog of the shared database for the TopN most *)
(* recent changes of every namespace and records them as its own config    *)
(* snapshots (watchNamespaceConfigs).  The membership layer (memberlist,   *)
(* external) exchanges those records between nodes (LocalState and         *)
(* MergeRemoteState) and reports joins and departures (NotifyJoin and      *)
(* NotifyLeave).  A request is evaluated with the snapshot that            *)
(* chooseNamespaceConfigSnapshot picks from what the node believes every   *)
(* known peer to hold.                                                     *)
(*                                                                         *)
(* A change of a namespace is identified by its rank in the changelog of   *)
(* that namespace, which stands for its timestamp: the changes of one      *)
(* namespace are serialized by the database, so ranks and timestamps are   *)
(* ordered alike.  The contents of a configuration play no part in the     *)
(* choice.                                                                 *)
(***************************************************************************)
EXTENDS Naturals, FiniteSets

CONSTANTS
    Node,        \* the identifiers (ServerID) nodes run under
    Namespace,   \* the names of namespaces
    TopN,        \* how many changes per namespace a poll asks for; 3 in the code
    MaxChanges,  \* bound: changes written per namespace
    MaxWrites,   \* bound: changes written in all
    MaxFaults    \* bound: crashes, shutdowns, false suspicions, aborted polls

ASSUME TopNAssumption == TopN \in Nat \ {0}
ASSUME BoundsAssumption ==
    MaxChanges \in Nat /\ MaxWrites \in Nat /\ MaxFaults \in Nat

VARIABLES
    changes,  \* changes[ns]: number of entries of ns in "namespace-changelog"
    status,   \* status[n]: "down", "up", or "leaving" (Close called, not yet exited)
    configs,  \* configs[n][p][ns]: timestamps of ns that node n's
              \*   PeerNamespaceConfigStore records for peer p
    fetched,  \* fetched[n]: changelog entries n's watcher has yet to record
    ring,     \* ring[n]: members of node n's hashring
    net,      \* net[a][b]: entries of a LocalState of a that b has yet to merge
    faults    \* faults spent

vars == <<changes, status, configs, fetched, ring, net, faults>>

NoTs == 0                                  \* "no snapshot"
Timestamp == 1..MaxChanges
Entry == Namespace \X Timestamp

TypeOK ==
    /\ changes \in [Namespace -> 0..MaxChanges]
    /\ status \in [Node -> {"down", "up", "leaving"}]
    /\ configs \in [Node -> [Node -> [Namespace -> SUBSET Timestamp]]]
    /\ fetched \in [Node -> SUBSET Entry]
    /\ ring \in [Node -> SUBSET Node]
    /\ net \in [Node -> [Node -> SUBSET Entry]]
    /\ faults \in 0..MaxFaults

-----------------------------------------------------------------------------
(***************************************************************************)
(* The changelog and the per-peer store.                                   *)
(***************************************************************************)

\* Mutants of TopChanges: one change too many, and the oldest changes
TopChangesOffByOne(ns) == {t \in 0..changes[ns] : t + TopN >= changes[ns]}
TopChangesOldest(ns) == {t \in 1..changes[ns] : t <= TopN}

\* TopChanges: the most recent TopN changes of ns
TopChanges(ns) == {t \in 1..changes[ns] : t + TopN > changes[ns]}

NoSnapshots == [ns \in Namespace |-> {}]

Running(n) == status[n] # "down"

\* Mutant: a snapshot takes the place of the ones before it
SetNamespaceConfigSnapshotReplaces(n, p, ns, t) ==
    configs' = [configs EXCEPT ![n][p][ns] = {t}]

\* SetNamespaceConfigSnapshot on node n: the snapshot is added to what n
\* records for p; the entries of p and of ns are created as needed
SetNamespaceConfigSnapshot(n, p, ns, t) ==
    configs' = [configs EXCEPT ![n][p][ns] = @ \cup {t}]

\* the peers that have an entry in node n's store; SetNamespaceConfigSnapshot
\* creates an entry together with its first snapshot
KnownPeers(n) == {p \in Node : \E ns \in Namespace : configs[n][p][ns] # {}}

\* Mutant: a peer that "isn't aware of the namespace yet" is passed over
ListNamespaceConfigSnapshotsAware(n, ns) ==
    [p \in {q \in KnownPeers(n) : configs[n][q][ns] # {}} |-> configs[n][p][ns]]

\* ListNamespaceConfigSnapshots on node n: the snapshots of ns of every known
\* peer, none for a peer that "isn't aware of the namespace yet"
ListNamespaceConfigSnapshots(n, ns) ==
    [p \in KnownPeers(n) |-> configs[n][p][ns]]

-----------------------------------------------------------------------------
(***************************************************************************)
(* chooseNamespaceConfigSnapshot.  Where several peers have the fewest     *)
(* snapshots the iteration order of a Go map decides, so the operator is   *)
(* the set of timestamps the function may select; NoTs stands for          *)
(* ErrNoLocalNamespacesDefined.                                            *)
(***************************************************************************)

\* the candidates for peerWithMin
PeersWithMin(peerSnapshots) ==
    {p \in DOMAIN peerSnapshots : \A q \in DOMAIN peerSnapshots :
        Cardinality(peerSnapshots[p]) <= Cardinality(peerSnapshots[q])}

\* Mutant: the timestamps of the peerWithMin are taken to be common
CommonTimestampsOfMin(peerSnapshots, p) == peerSnapshots[p]

\* commonTimestamps, when p is the peerWithMin
CommonTimestamps(peerSnapshots, p) ==
    IF DOMAIN peerSnapshots = {p}
    THEN peerSnapshots[p]
    ELSE {t \in peerSnapshots[p] :
            \E q \in DOMAIN peerSnapshots \ {p} : t \in peerSnapshots[q]}

\* Mutant: Before in place of After
Earliest(S) == IF S = {} THEN NoTs ELSE CHOOSE t \in S : \A u \in S : t <= u

\* selectedTS: the latest of a set of timestamps
Latest(S) == IF S = {} THEN NoTs ELSE CHOOSE t \in S : \A u \in S : u <= t

ChooseNamespaceConfigSnapshot(n, ns) ==
    LET peerSnapshots == ListNamespaceConfigSnapshots(n, ns)
    IN  IF DOMAIN peerSnapshots = {}
        THEN {NoTs}
        ELSE {Latest(CommonTimestamps(peerSnapshots, p)) :
                p \in PeersWithMin(peerSnapshots)}

-----------------------------------------------------------------------------
Init ==
    /\ changes = [ns \in Namespace |-> 0]
    /\ status = [n \in Node |-> "down"]
    /\ configs = [n \in Node |-> [p \in Node |-> NoSnapshots]]
    /\ fetched = [n \in Node |-> {}]
    /\ ring = [n \in Node |-> {}]
    /\ net = [a \in Node |-> [b \in Node |-> {}]]
    /\ faults = 0

Fault == faults < MaxFaults /\ faults' = faults + 1

Changelog == {e \in Entry : e[2] <= changes[e[1]]}

\* UpsertConfig commits: one more entry in the changelog of ns
UpsertConfig(ns) ==
    /\ changes[ns] < MaxChanges
    /\ Cardinality(Changelog) < MaxWrites
    /\ changes' = [changes EXCEPT ![ns] = @ + 1]
    /\ UNCHANGED <<status, configs, fetched, ring, net, faults>>

\* Mutant: no pre-load, the watcher alone fills the store
NewAccessControllerNoPreload(n) ==
    /\ status[n] = "down"
    /\ status' = [status EXCEPT ![n] = "up"]
    /\ ring' = [ring EXCEPT ![n] = {n}]
    /\ UNCHANGED <<changes, configs, fetched, net, faults>>

\* NewAccessController: pre-load the top changes, start the watcher, create the
\* membership, which reports the node itself as its first member.  Restarts
\* reuse the identifier.
NewAccessController(n) ==
    /\ status[n] = "down"
    /\ status' = [status EXCEPT ![n] = "up"]
    /\ configs' = [configs EXCEPT
            ![n][n] = [ns \in Namespace |-> TopChanges(ns)]]
    /\ ring' = [ring EXCEPT ![n] = {n}]
    /\ UNCHANGED <<changes, fetched, net, faults>>

\* watchNamespaceConfigs, the query.  The watcher outlives Close.
Poll(n) ==
    /\ Running(n)
    /\ fetched[n] = {}
    /\ fetched' = [fetched EXCEPT ![n] =
            UNION {{ns} \X TopChanges(ns) : ns \in Namespace}]
    /\ UNCHANGED <<changes, status, configs, ring, net, faults>>

\* watchNamespaceConfigs, one turn of its loop over the result: oldest change
\* of a namespace first
ApplyChange(n) ==
    \E e \in fetched[n] :
        /\ \A f \in fetched[n] : f[1] = e[1] => e[2] <= f[2]
        /\ SetNamespaceConfigSnapshot(n, n, e[1], e[2])
        /\ fetched' = [fetched EXCEPT ![n] = @ \ {e}]
        /\ UNCHANGED <<changes, status, ring, net, faults>>

\* watchNamespaceConfigs, iter.Value fails: the rest of the result is given up
AbortPoll(n) ==
    /\ fetched[n] # {}
    /\ fetched' = [fetched EXCEPT ![n] = {}]
    /\ Fault
    /\ UNCHANGED <<changes, status, configs, ring, net>>

\* LocalState of a, sent to b in a push/pull that either of them started.  The
\* two exchange membership lists first, so b has been told of a by then, or, when
\* a is leaving, of its departure.  An exchange that is lost on the way is one
\* that never started: LocalState changes nothing on a.
LocalState(a, b) ==
    /\ a # b
    /\ Running(a) /\ Running(b)
    /\ a \in ring[b] \/ status[a] = "leaving"
    /\ net[a][b] = {}
    /\ net' = [net EXCEPT ![a][b] =
            UNION {{ns} \X configs[a][a][ns] : ns \in Namespace}]
    /\ UNCHANGED <<changes, status, configs, fetched, ring, faults>>

\* MergeRemoteState on b, one turn of its loops over the state received from a,
\* whose order is that of Go maps.  The state may arrive after b was told that
\* a left; nothing checks.
MergeRemoteState(a, b) ==
    \E e \in net[a][b] :
        /\ SetNamespaceConfigSnapshot(b, a, e[1], e[2])
        /\ net' = [net EXCEPT ![a][b] = @ \ {e}]
        /\ UNCHANGED <<changes, status, fetched, ring, faults>>

\* NotifyJoin on n: m is a member that n has not been told of
NotifyJoin(n, m) ==
    /\ Running(n)
    /\ status[m] = "up"
    /\ m \notin ring[n]
    /\ ring' = [ring EXCEPT ![n] = @ \cup {m}]
    /\ UNCHANGED <<changes, status, configs, fetched, net, faults>>

\* what NotifyLeave on n does to n's state: the hashring and the snapshots of m
NotifyLeaveEffect(n, m) ==
    /\ ring' = [ring EXCEPT ![n] = @ \ {m}]
    /\ configs' = [configs EXCEPT ![n][m] = NoSnapshots]

\* NotifyLeave on n after m left or crashed
NotifyLeave(n, m) ==
    /\ Running(n)
    /\ n # m
    /\ m \in ring[n]
    /\ status[m] # "up"
    /\ NotifyLeaveEffect(n, m)
    /\ UNCHANGED <<changes, status, fetched, net, faults>>

\* NotifyLeave on n though m is up: the failure detector was wrong
FalseSuspicion(n, m) ==
    /\ Running(n)
    /\ n # m
    /\ m \in ring[n]
    /\ status[m] = "up"
    /\ Fault
    /\ NotifyLeaveEffect(n, m)
    /\ UNCHANGED <<changes, status, fetched, net>>

\* Close: memberlist reports the node's own departure to it, which deletes its
\* own snapshots; the watcher and the push/pull exchanges go on until the exit
Close(n) ==
    /\ status[n] = "up"
    /\ status' = [status EXCEPT ![n] = "leaving"]
    /\ Fault
    /\ NotifyLeaveEffect(n, n)
    /\ UNCHANGED <<changes, fetched, net>>

\* the process ends: its memory is gone, and what was on its way to it is lost
Stop(n) ==
    /\ status' = [status EXCEPT ![n] = "down"]
    /\ configs' = [configs EXCEPT ![n] = [p \in Node |-> NoSnapshots]]
    /\ fetched' = [fetched EXCEPT ![n] = {}]
    /\ ring' = [ring EXCEPT ![n] = {}]
    /\ net' = [a \in Node |-> [net[a] EXCEPT ![n] = {}]]
    /\ UNCHANGED changes

\* main returns after Close
Exit(n) ==
    /\ status[n] = "leaving"
    /\ Stop(n)
    /\ UNCHANGED faults

Crash(n) ==
    /\ status[n] = "up"
    /\ Fault
    /\ Stop(n)

Next ==
    \/ \E ns \in Namespace : UpsertConfig(ns)
    \/ \E n \in Node :
        \/ NewAccessController(n)
        \/ Poll(n)
        \/ ApplyChange(n)
        \/ AbortPoll(n)
        \/ Close(n)
        \/ Exit(n)
        \/ Crash(n)
    \/ \E n, m \in Node :
        \/ LocalState(n, m)
        \/ MergeRemoteState(n, m)
        \/ NotifyJoin(n, m)
        \/ NotifyLeave(n, m)
        \/ FalseSuspicion(n, m)

Spec == Init /\ [][Next]_vars

\* What the running program does again and again: the watcher polls every two
\* seconds and goes through what it got, push/pull runs every ten and is merged, the
\* membership layer reports every join and departure sooner or later, and a process
\* that shuts down ends.  (Of the two steps of each pair one is possible at a time.)
Watch(n) == Poll(n) \/ ApplyChange(n)
PushPull(a, b) == LocalState(a, b) \/ MergeRemoteState(a, b)
Report(n, m) == NotifyJoin(n, m) \/ NotifyLeave(n, m)

Fairness ==
    \A n \in Node :
        /\ WF_vars(Watch(n))
        /\ WF_vars(Exit(n))
        /\ \A m \in Node \ {n} : WF_vars(PushPull(n, m)) /\ WF_vars(Report(n, m))

FairSpec == Spec /\ Fairness

\* A deployment that also restarts, under its old identifier, every node that
\* went down
RestartSpec == FairSpec /\ \A n \in Node : WF_vars(NewAccessController(n))

-----------------------------------------------------------------------------
(***************************************************************************)
(* Properties.                                                             *)
(***************************************************************************)

\* What is recorded or on its way about a namespace is in its changelog.
OnlyLogged ==
    /\ \A n, p \in Node, ns \in Namespace :
        configs[n][p][ns] \subseteq 1..changes[ns]
    /\ \A n \in Node : \A e \in fetched[n] : e[2] <= changes[e[1]]
    /\ \A a, b \in Node : \A e \in net[a][b] : e[2] <= changes[e[1]]

\* p itself records for ns the change t or a later one
HoldsSince(p, ns, t) == \E u \in configs[p][p][ns] : t <= u

\* No node believes a peer to be ahead of where it is: whatever MergeRemoteState
\* recorded, or will record, about a peer that is up, that peer itself holds
\* that change of the namespace or a later one -- through crashes and restarts
\* under the same identifier, late push/pull states and false suspicions.  It
\* rests on the pre-load of NewAccessController happening before the node joins.
NoFalseLead ==
    \A p \in Node : status[p] = "up" =>
        /\ \A n \in Node, ns \in Namespace :
            \A t \in configs[n][p][ns] : HoldsSince(p, ns, t)
        /\ \A b \in Node : \A e \in net[p][b] : HoldsSince(p, e[1], e[2])

\* A snapshot is selected for a namespace only when every known peer that is up
\* really has some snapshot of that namespace: "peer isn't aware of the
\* namespace yet" in ListNamespaceConfigSnapshots holds the choice back.
ChosenOnlyWhenAllAware ==
    \A n \in Node, ns \in Namespace :
        (\E t \in ChooseNamespaceConfigSnapshot(n, ns) : t # NoTs) =>
            \A p \in KnownPeers(n) :
                status[p] = "up" => configs[p][p][ns] # {}

\* The choice is never older than a snapshot that all known peers are believed
\* to have; in particular one is found then.
ChoiceNotBehindCommon ==
    \A n \in Node, ns \in Namespace :
        \A t \in ChooseNamespaceConfigSnapshot(n, ns) :
            \A u \in Timestamp :
                (\A p \in KnownPeers(n) : u \in configs[n][p][ns])
                    => KnownPeers(n) = {} \/ u <= t

\* When a node and one peer are all the node knows of, the snapshot it selects
\* is in its own store, where check looks it up next, and the peer, if it is
\* up, holds that snapshot or a later one.
PairChoiceUsable ==
    \A n, p \in Node, ns \in Namespace :
        n # p /\ KnownPeers(n) = {n, p} =>
            \A t \in ChooseNamespaceConfigSnapshot(n, ns) \ {NoTs} :
                /\ t \in configs[n][n][ns]
                /\ status[p] = "up" => HoldsSince(p, ns, t)

\* A node and the one peer it knows of: the version that requests are evaluated with
\* never goes back, nor away, on a node that keeps running and is not told of a
\* departure, in whatever order polls and push/pull states, old ones too, come in.
PairChoiceNeverBack ==
    [][\A n, p \in Node :
        /\ n # p
        /\ status'[n] = status[n]
        /\ ring[n] \subseteq ring'[n]
        /\ KnownPeers(n) = {n, p} /\ KnownPeers(n)' = {n, p}
        => \A ns \in Namespace :
            \A t \in ChooseNamespaceConfigSnapshot(n, ns),
               u \in ChooseNamespaceConfigSnapshot(n, ns)' : t <= u]_vars

\* The comment of chooseNamespaceConfigSnapshot: it "selects the most recent
\* namespace config snapshot that is common to all peers/nodes within the
\* cluster that this node is a part of".
ChosenCommonToAll ==
    \A n \in Node, ns \in Namespace :
        \A t \in ChooseNamespaceConfigSnapshot(n, ns) \ {NoTs} :
            \A p \in KnownPeers(n) : t \in configs[n][p][ns]

\* Once changes, faults and restarts are over, every node selects the latest
\* change of every namespace, and keeps selecting it.
Converged ==
    \A n \in Node, ns \in Namespace :
        changes[ns] > 0 =>
            ChooseNamespaceConfigSnapshot(n, ns) = {changes[ns]}

Convergence == <>[]Converged

\* What check tells a client whose namespace has no common snapshot: "If you
\* recently added it, it may take a couple minutes to propagate".
NewNamespacePropagates ==
    \A n \in Node, ns \in Namespace :
        (changes[ns] > 0 /\ status[n] = "up") ~>
            (status[n] # "up" \/ NoTs \notin ChooseNamespaceConfigSnapshot(n, ns))
=============================================================================
