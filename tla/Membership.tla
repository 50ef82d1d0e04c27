----------------------------- MODULE Membership -----------------------------
(***************************************************************************)
(* The hashring and the RPC clients of every node, as the callbacks of     *)
(* memberlist maintain them.                                               *)
(*                                                                         *)
(* NotifyJoin stores a client for the peer and then adds it to the ring;   *)
(* NotifyLeave removes the client and then the ring member.  Each of the   *)
(* two structures has its own lock, so a check may run between the two     *)
(* halves.  memberlist (external) calls one callback at a time on a node,  *)
(* notices crashes and joins sooner or later, may take a live peer for     *)
(* dead, and may report a dead one as joined.  NotifyUpdate does nothing:  *)
(* a peer that comes back under its name with another port, before its     *)
(* departure was noticed, keeps the client for its old port.               *)
(***************************************************************************)
EXTENDS Naturals, FiniteSets

CONSTANTS
    Node,        \* the identifiers of the nodes (ServerID)
    MaxAddr,     \* bound: ports a node is started with
    MaxFaults,   \* bound: crashes and false suspicions
    MaxStale     \* bound: joins reported of peers that have ended

ASSUME MembershipAssumption ==
    /\ MaxAddr \in Nat \ {0}
    /\ MaxFaults \in Nat
    /\ MaxStale \in Nat

VARIABLES
    up,         \* the nodes that run
    addr,       \* addr[n]: the port n serves on (NodeMeta)
    ring,       \* ring[n]: the members of n's Hashring
    clients,    \* clients[n][m]: the port n's client for m dials; 0: no client
    callback,   \* callback[n]: the callback that is half way through on n
    faults,     \* crashes and false suspicions so far
    stale       \* joins reported of peers that have ended, so far

membershipVars == <<up, addr, ring, clients, callback, faults, stale>>

Callback == [kind : {"none", "join", "leave"}, member : Node]
Quiet(n) == [kind |-> "none", member |-> n]

MembershipTypeOK ==
    /\ up \subseteq Node
    /\ addr \in [Node -> 1..MaxAddr]
    /\ ring \in [Node -> SUBSET Node]
    /\ clients \in [Node -> [Node -> 0..MaxAddr]]
    /\ callback \in [Node -> Callback]
    /\ faults \in 0..MaxFaults
    /\ stale \in 0..MaxStale

-----------------------------------------------------------------------------
\* a cluster whose members have all joined
MembershipInit ==
    /\ up = Node
    /\ addr = [n \in Node |-> 1]
    /\ ring = [n \in Node |-> Node]
    /\ clients = [n \in Node |-> [m \in Node |-> IF m = n THEN 0 ELSE 1]]
    /\ callback = [n \in Node |-> Quiet(n)]
    /\ faults = 0
    /\ stale = 0

\* what m tells its peers about itself: the port of its server
NodeMeta(m) == addr[m]

\* mapClientRouter
AddClient(n, m) == clients' = [clients EXCEPT ![n][m] = NodeMeta(m)]
RemoveClient(n, m) == clients' = [clients EXCEPT ![n][m] = 0]
HasClient(n, m) == clients[n][m] # 0

\* ConsistentHashring
Add(n, m) == ring' = [ring EXCEPT ![n] = @ \cup {m}]
Remove(n, m) == ring' = [ring EXCEPT ![n] = @ \ {m}]

\* the checksum stands for the set of members: CRC32 collisions are left out
Checksum(n) == ring[n]

\* Mutant: the member is in the ring before its client is stored
NotifyJoinRingFirst(n, m) ==
    /\ n \in up
    /\ callback[n].kind = "none"
    /\ m \notin ring[n]
    /\ m \notin up => stale < MaxStale
    /\ stale' = IF m \notin up THEN stale + 1 ELSE stale
    /\ Add(n, m)
    /\ callback' = [callback EXCEPT ![n] = [kind |-> "join", member |-> m]]
    /\ UNCHANGED <<up, addr, clients, faults>>

\* NotifyJoin at n for its peer m, up to AddClient: m runs, or it has ended and the
\* state that n merged is of a member which has not noticed.  (Unmarshal reads what
\* NodeMeta of m wrote, and Dial does not wait for a connection.)
NotifyJoin(n, m) ==
    /\ n \in up
    /\ callback[n].kind = "none"
    /\ m \notin ring[n]
    /\ m \notin up => stale < MaxStale
    /\ stale' = IF m \notin up THEN stale + 1 ELSE stale
    /\ AddClient(n, m)
    /\ callback' = [callback EXCEPT ![n] = [kind |-> "join", member |-> m]]
    /\ UNCHANGED <<up, addr, ring, faults>>

\* the rest of NotifyJoin: Hashring.Add
NotifyJoinAdds(n) ==
    /\ n \in up
    /\ callback[n].kind = "join"
    /\ Add(n, callback[n].member)
    /\ callback' = [callback EXCEPT ![n] = Quiet(n)]
    /\ UNCHANGED <<up, addr, clients, faults, stale>>

\* Mutant: the client is kept
NotifyLeaveKeepsClient(n, m) ==
    /\ n \in up
    /\ callback[n].kind = "none"
    /\ m \in ring[n] \ {n}
    /\ m \in up => faults < MaxFaults
    /\ faults' = IF m \in up THEN faults + 1 ELSE faults
    /\ callback' = [callback EXCEPT ![n] = [kind |-> "leave", member |-> m]]
    /\ UNCHANGED <<up, addr, ring, clients, stale>>

\* NotifyLeave at n for its peer m, up to RemoveClient: m is down, or its
\* answers were late and it only seems to be
NotifyLeave(n, m) ==
    /\ n \in up
    /\ callback[n].kind = "none"
    /\ m \in ring[n] \ {n}
    /\ m \in up => faults < MaxFaults
    /\ faults' = IF m \in up THEN faults + 1 ELSE faults
    /\ RemoveClient(n, m)
    /\ callback' = [callback EXCEPT ![n] = [kind |-> "leave", member |-> m]]
    /\ UNCHANGED <<up, addr, ring, stale>>

\* Mutant: the member stays in the ring
NotifyLeaveKeepsMember(n) ==
    /\ n \in up
    /\ callback[n].kind = "leave"
    /\ callback' = [callback EXCEPT ![n] = Quiet(n)]
    /\ UNCHANGED <<up, addr, ring, clients, faults, stale>>

\* the rest of NotifyLeave: Hashring.Remove (the snapshots of m, deleted last,
\* are in ConfigSnapshots)
NotifyLeaveRemoves(n) ==
    /\ n \in up
    /\ callback[n].kind = "leave"
    /\ Remove(n, callback[n].member)
    /\ callback' = [callback EXCEPT ![n] = Quiet(n)]
    /\ UNCHANGED <<up, addr, clients, faults, stale>>

\* the process of n ends: it crashed, or main stopped the server and closed
Crash(n) ==
    /\ n \in up
    /\ faults < MaxFaults
    /\ up' = up \ {n}
    /\ faults' = faults + 1
    /\ UNCHANGED <<addr, ring, clients, callback, stale>>

\* NewAccessController: empty router and ring; memberlist.Create reports n to
\* itself, and Join leads to a NotifyJoin for every member it finds
Restart(n) ==
    /\ n \notin up
    /\ up' = up \cup {n}
    /\ \E a \in 1..MaxAddr : addr' = [addr EXCEPT ![n] = a]
    /\ ring' = [ring EXCEPT ![n] = {n}]
    /\ clients' = [clients EXCEPT ![n] = [m \in Node |-> 0]]
    /\ callback' = [callback EXCEPT ![n] = Quiet(n)]
    /\ UNCHANGED <<faults, stale>>

MembershipNext ==
    \/ \E n, m \in Node : NotifyJoin(n, m) \/ NotifyLeave(n, m)
    \/ \E n \in Node :
        \/ NotifyJoinAdds(n)
        \/ NotifyLeaveRemoves(n)
        \/ Crash(n)
        \/ Restart(n)

MembershipSpec == MembershipInit /\ [][MembershipNext]_membershipVars

\* what memberlist owes n: the end of the callback that is half way, or a report of
\* a peer that runs and is not in the ring, or of one that ended and is
CallbackDue(n) ==
    \/ NotifyJoinAdds(n)
    \/ NotifyLeaveRemoves(n)
    \/ \E m \in up : NotifyJoin(n, m)
    \/ \E m \in Node \ up : NotifyLeave(n, m)

\* a node to which a report is due gets one, in whatever order
MembershipFairness == \A n \in Node : WF_membershipVars(CallbackDue(n))

-----------------------------------------------------------------------------
\* A peer that the ring may name as the owner of an object can be called: it has
\* a client, but for a peer whose NotifyLeave is half way.  (check refuses a
\* request whose owner has no client.)
RingMembersHaveClients ==
    \A n \in up : \A m \in ring[n] \ {n} :
        HasClient(n, m) \/ callback[n] = [kind |-> "leave", member |-> m]

\* No client outlives the membership of its peer: a node holds one for a member of
\* its ring, or for the peer whose NotifyJoin is half way.  (RemoveClient and Remove
\* take two locks, and a restarted peer may join with another port meanwhile.)
ClientsAreMembers ==
    \A n \in up : \A m \in Node :
        HasClient(n, m) => \/ m \in ring[n] \ {n}
                           \/ callback[n] = [kind |-> "join", member |-> m]

\* Once crashes and false reports end, every ring is the set of nodes that run, so
\* that checksums are equal and every node sees the same owner of an object,
\* and clients are held for just those.
RingsConverge ==
    <>[](\A n \in up :
            /\ ring[n] = up
            /\ \A m \in Node : HasClient(n, m) <=> m \in up \ {n})
=============================================================================
