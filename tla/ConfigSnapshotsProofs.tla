----------------------- MODULE ConfigSnapshotsProofs -----------------------
(***************************************************************************)
(* Proofs about ConfigSnapshots, for any number of nodes and namespaces,   *)
(* any TopN and any bounds.                                                *)
(***************************************************************************)
EXTENDS ConfigSnapshots, FiniteSetTheorems, WellFoundedInduction, TLAPS

\* Type correctness: every action of the model keeps every variable in its type.
THEOREM TypeCorrect == Spec => []TypeOK
<1>1. Init => TypeOK
  BY BoundsAssumption DEF Init, TypeOK, NoSnapshots, Timestamp, Entry
<1>2. TypeOK /\ [Next]_vars => TypeOK'
  <2> SUFFICES ASSUME TypeOK, [Next]_vars PROVE TypeOK'
    OBVIOUS
  <2> USE BoundsAssumption, TopNAssumption
        DEF TypeOK, Timestamp, Entry, NoSnapshots, Fault
  <2>top. ASSUME NEW ns \in Namespace
          PROVE  TopChanges(ns) \subseteq Timestamp
    BY DEF TopChanges
  <2>1. ASSUME NEW ns \in Namespace, UpsertConfig(ns) PROVE TypeOK'
    BY <2>1 DEF UpsertConfig
  <2>2. ASSUME NEW n \in Node, NewAccessController(n) PROVE TypeOK'
    <3>1. [ns \in Namespace |-> TopChanges(ns)] \in [Namespace -> SUBSET Timestamp]
      BY <2>top
    <3>2. configs' \in [Node -> [Node -> [Namespace -> SUBSET Timestamp]]]
      BY <2>2, <3>1 DEF NewAccessController
    <3> QED
      BY <2>2, <3>2 DEF NewAccessController
  <2>3. ASSUME NEW n \in Node, Poll(n) PROVE TypeOK'
    <3>1. UNION {{ns} \X TopChanges(ns) : ns \in Namespace} \subseteq Entry
      BY <2>top
    <3> QED
      BY <2>3, <3>1 DEF Poll
  <2>4. ASSUME NEW n \in Node, ApplyChange(n) PROVE TypeOK'
    BY <2>4 DEF ApplyChange, SetNamespaceConfigSnapshot
  <2>5. ASSUME NEW n \in Node, AbortPoll(n) PROVE TypeOK'
    BY <2>5 DEF AbortPoll
  <2>6. ASSUME NEW n \in Node, Close(n) PROVE TypeOK'
    BY <2>6 DEF Close, NotifyLeaveEffect
  <2>7. ASSUME NEW n \in Node, Exit(n) PROVE TypeOK'
    BY <2>7 DEF Exit, Stop
  <2>8. ASSUME NEW n \in Node, Crash(n) PROVE TypeOK'
    BY <2>8 DEF Crash, Stop
  <2>9. ASSUME NEW a \in Node, NEW b \in Node, LocalState(a, b) PROVE TypeOK'
    <3>1. UNION {{ns} \X configs[a][a][ns] : ns \in Namespace} \subseteq Entry
      OBVIOUS
    <3> QED
      BY <2>9, <3>1 DEF LocalState
  <2>10. ASSUME NEW a \in Node, NEW b \in Node, MergeRemoteState(a, b) PROVE TypeOK'
    BY <2>10 DEF MergeRemoteState, SetNamespaceConfigSnapshot
  <2>11. ASSUME NEW n \in Node, NEW m \in Node, NotifyJoin(n, m) PROVE TypeOK'
    BY <2>11 DEF NotifyJoin
  <2>12. ASSUME NEW n \in Node, NEW m \in Node, NotifyLeave(n, m) PROVE TypeOK'
    BY <2>12 DEF NotifyLeave, NotifyLeaveEffect
  <2>13. ASSUME NEW n \in Node, NEW m \in Node, FalseSuspicion(n, m) PROVE TypeOK'
    BY <2>13 DEF FalseSuspicion, NotifyLeaveEffect
  <2>14. CASE UNCHANGED vars
    BY <2>14 DEF vars
  <2> QED
    BY <2>1, <2>2, <2>3, <2>4, <2>5, <2>6, <2>7, <2>8, <2>9, <2>10, <2>11,
       <2>12, <2>13, <2>14 DEF Next
<1> QED
  BY <1>1, <1>2, PTL DEF Spec

-----------------------------------------------------------------------------
(***************************************************************************)
(* NoFalseLead is not inductive: a node that starts must be shown to catch *)
(* up with whatever was ever recorded about its identifier, which needs    *)
(* that nothing but logged changes is recorded or on its way (OnlyLogged). *)
(***************************************************************************)
IInv == TypeOK /\ OnlyLogged /\ NoFalseLead

\* TopChanges, the query of a poll and of the pre-load, returns changes of the
\* log, among them the latest one.
LEMMA TopChangesLatest ==
  ASSUME NEW ns \in Namespace, changes[ns] \in Nat
  PROVE  /\ TopChanges(ns) \subseteq 1..changes[ns]
         /\ \A t \in 1..changes[ns] : \E u \in TopChanges(ns) : t <= u
<1>1. TopChanges(ns) \subseteq 1..changes[ns]
  BY DEF TopChanges
<1>2. ASSUME NEW t \in 1..changes[ns]
      PROVE  \E u \in TopChanges(ns) : t <= u
  <2>1. changes[ns] \in TopChanges(ns) /\ t <= changes[ns]
    BY TopNAssumption DEF TopChanges
  <2> QED
    BY <2>1
<1> QED
  BY <1>1, <1>2

\* Every action keeps OnlyLogged: entries are only copied, from the changelog to
\* a poll's result, from there to the node's own record and on to its peers.
LEMMA OnlyLoggedStep ==
  ASSUME TypeOK, TypeOK', OnlyLogged, [Next]_vars
  PROVE  OnlyLogged'
<1> USE DEF OnlyLogged
<1>top. \A ns \in Namespace : TopChanges(ns) \subseteq 1..changes[ns]
  BY DEF TopChanges
<1>ty. /\ \A ns \in Namespace : changes[ns] \in Nat
       /\ \A n \in Node : fetched[n] \subseteq Entry
       /\ \A a, b \in Node : net[a][b] \subseteq Entry
  BY BoundsAssumption DEF TypeOK
<1>1. ASSUME NEW ns \in Namespace, UpsertConfig(ns) PROVE OnlyLogged'
  <2>1. \A x \in Namespace : changes'[x] \in Nat /\ changes[x] <= changes'[x]
    BY <1>1, <1>ty DEF UpsertConfig, TypeOK
  <2>2. \A n, p \in Node, x \in Namespace : configs'[n][p][x] \subseteq 1..changes'[x]
    BY <1>1, <1>ty, <2>1 DEF UpsertConfig
  <2>3. \A n \in Node : \A e \in fetched'[n] : e[2] <= changes'[e[1]]
    BY <1>1, <1>ty, <2>1 DEF UpsertConfig, Entry, Timestamp
  <2>4. \A a, b \in Node : \A e \in net'[a][b] : e[2] <= changes'[e[1]]
    BY <1>1, <1>ty, <2>1 DEF UpsertConfig, Entry, Timestamp
  <2> QED
    BY <2>2, <2>3, <2>4
<1>2. ASSUME NEW n \in Node, NewAccessController(n) PROVE OnlyLogged'
  <2>1. \A q, p \in Node, x \in Namespace : configs'[q][p][x] \subseteq 1..changes'[x]
    BY <1>2, <1>top DEF NewAccessController, TypeOK
  <2> QED
    BY <1>2, <2>1 DEF NewAccessController
<1>3. ASSUME NEW n \in Node, Poll(n) PROVE OnlyLogged'
  <2>1. \A q \in Node : \A e \in fetched'[q] : e[2] <= changes'[e[1]]
    <3> SUFFICES ASSUME NEW q \in Node, NEW e \in fetched'[q]
                 PROVE  e[2] <= changes[e[1]]
      BY <1>3 DEF Poll
    <3>1. CASE q = n
      <4>1. PICK x \in Namespace : e \in {x} \X TopChanges(x)
        BY <1>3, <3>1 DEF Poll, TypeOK
      <4> QED
        BY <4>1, <1>top, <1>ty
    <3>2. CASE q # n
      BY <1>3, <3>2 DEF Poll, TypeOK
    <3> QED
      BY <3>1, <3>2
  <2> QED
    BY <1>3, <2>1 DEF Poll
<1>4. ASSUME NEW n \in Node, ApplyChange(n) PROVE OnlyLogged'
  <2>1. PICK e \in fetched[n] :
          /\ SetNamespaceConfigSnapshot(n, n, e[1], e[2])
          /\ fetched' = [fetched EXCEPT ![n] = @ \ {e}]
          /\ UNCHANGED <<changes, status, ring, net, faults>>
    BY <1>4 DEF ApplyChange
  <2>2. e[1] \in Namespace /\ e[2] \in 1..changes[e[1]]
    BY <2>1, <1>ty DEF Entry, Timestamp
  <2>3. \A q, p \in Node, x \in Namespace : configs'[q][p][x] \subseteq 1..changes'[x]
    BY <2>1, <2>2 DEF SetNamespaceConfigSnapshot, TypeOK
  <2>4. \A q \in Node : fetched'[q] \subseteq fetched[q]
    BY <2>1 DEF TypeOK
  <2> QED
    BY <2>1, <2>3, <2>4
<1>5. ASSUME NEW n \in Node, AbortPoll(n) PROVE OnlyLogged'
  BY <1>5 DEF AbortPoll, TypeOK
<1>6. ASSUME NEW n \in Node, Close(n) PROVE OnlyLogged'
  BY <1>6 DEF Close, NotifyLeaveEffect, NoSnapshots, TypeOK
<1>7. ASSUME NEW n \in Node, Stop(n) PROVE OnlyLogged'
  BY <1>7 DEF Stop, NoSnapshots, TypeOK
<1>8. ASSUME NEW a \in Node, NEW b \in Node, LocalState(a, b) PROVE OnlyLogged'
  <2>1. \A p, q \in Node : \A e \in net'[p][q] : e[2] <= changes'[e[1]]
    <3> SUFFICES ASSUME NEW p \in Node, NEW q \in Node, NEW e \in net'[p][q]
                 PROVE  e[2] <= changes[e[1]]
      BY <1>8 DEF LocalState
    <3>1. CASE p = a /\ q = b
      <4>1. PICK x \in Namespace : e \in {x} \X configs[a][a][x]
        BY <1>8, <3>1 DEF LocalState, TypeOK
      <4> QED
        BY <4>1, <1>ty
    <3>2. CASE ~(p = a /\ q = b)
      BY <1>8, <3>2 DEF LocalState, TypeOK
    <3> QED
      BY <3>1, <3>2
  <2> QED
    BY <1>8, <2>1 DEF LocalState
<1>9. ASSUME NEW a \in Node, NEW b \in Node, MergeRemoteState(a, b) PROVE OnlyLogged'
  <2>1. PICK e \in net[a][b] :
          /\ SetNamespaceConfigSnapshot(b, a, e[1], e[2])
          /\ net' = [net EXCEPT ![a][b] = @ \ {e}]
          /\ UNCHANGED <<changes, status, fetched, ring, faults>>
    BY <1>9 DEF MergeRemoteState
  <2>2. e[1] \in Namespace /\ e[2] \in 1..changes[e[1]]
    BY <2>1, <1>ty DEF Entry, Timestamp
  <2>3. \A q, p \in Node, x \in Namespace : configs'[q][p][x] \subseteq 1..changes'[x]
    BY <2>1, <2>2 DEF SetNamespaceConfigSnapshot, TypeOK
  <2>4. \A p, q \in Node : net'[p][q] \subseteq net[p][q]
    BY <2>1 DEF TypeOK
  <2> QED
    BY <2>1, <2>3, <2>4
<1>10. ASSUME NEW n \in Node, NEW m \in Node, NotifyJoin(n, m) PROVE OnlyLogged'
  BY <1>10 DEF NotifyJoin
<1>11. ASSUME NEW n \in Node, NEW m \in Node, NotifyLeave(n, m) PROVE OnlyLogged'
  BY <1>11 DEF NotifyLeave, NotifyLeaveEffect, NoSnapshots, TypeOK
<1>12. ASSUME NEW n \in Node, NEW m \in Node, FalseSuspicion(n, m) PROVE OnlyLogged'
  BY <1>12 DEF FalseSuspicion, NotifyLeaveEffect, NoSnapshots, TypeOK
<1>13. CASE UNCHANGED vars
  BY <1>13 DEF vars
<1> QED
  BY <1>1, <1>2, <1>3, <1>4, <1>5, <1>6, <1>7, <1>8, <1>9, <1>10, <1>11,
     <1>12, <1>13 DEF Next, Exit, Crash

\* A step that keeps what an up node p records for itself, and adds nothing that
\* others record, or will record, about p, keeps NoFalseLead for p.
LEMMA HoldsSinceMonotone ==
  ASSUME NEW p \in Node, NEW ns \in Namespace, NEW t,
         configs[p][p][ns] \subseteq configs'[p][p][ns],
         HoldsSince(p, ns, t)
  PROVE  HoldsSince(p, ns, t)'
BY DEF HoldsSince

\* Every action keeps NoFalseLead.
LEMMA NoFalseLeadStep ==
  ASSUME TypeOK, TypeOK', OnlyLogged, NoFalseLead, [Next]_vars
  PROVE  NoFalseLead'
<1> SUFFICES ASSUME NEW p \in Node, status'[p] = "up"
             PROVE  /\ \A n \in Node, ns \in Namespace :
                        \A t \in configs'[n][p][ns] : HoldsSince(p, ns, t)'
                    /\ \A b \in Node : \A e \in net'[p][b] : HoldsSince(p, e[1], e[2])'
  BY DEF NoFalseLead
<1> DEFINE Goal == /\ \A n \in Node, ns \in Namespace :
                        \A t \in configs'[n][p][ns] : HoldsSince(p, ns, t)'
                   /\ \A b \in Node : \A e \in net'[p][b] : HoldsSince(p, e[1], e[2])'
<1>ty. /\ \A a, b \in Node : net[a][b] \subseteq Entry
       /\ \A ns \in Namespace : changes[ns] \in Nat
  BY BoundsAssumption DEF TypeOK
\* the steps that only forget what others record or what is on its way
<1>0. ASSUME status[p] = "up",
             \A ns \in Namespace : configs[p][p][ns] \subseteq configs'[p][p][ns],
             \A n \in Node, ns \in Namespace :
                n # p => configs'[n][p][ns] \subseteq configs[n][p][ns],
             \A b \in Node : net'[p][b] \subseteq net[p][b]
      PROVE  Goal
  <2>1. ASSUME NEW n \in Node, NEW ns \in Namespace, NEW t \in configs'[n][p][ns]
        PROVE  HoldsSince(p, ns, t)'
    <3>1. CASE n = p
      <4>1. t \in Timestamp
        BY DEF TypeOK
      <4> QED
        BY <2>1, <3>1, <4>1 DEF HoldsSince, Timestamp
    <3>2. CASE n # p
      BY <1>0, <2>1, <3>2, HoldsSinceMonotone DEF NoFalseLead
    <3> QED
      BY <3>1, <3>2
  <2>2. ASSUME NEW b \in Node, NEW e \in net'[p][b]
        PROVE  HoldsSince(p, e[1], e[2])'
    <3>1. e \in net[p][b] /\ e[1] \in Namespace
      BY <1>0, <2>2, <1>ty DEF Entry
    <3> QED
      BY <1>0, <3>1, HoldsSinceMonotone DEF NoFalseLead
  <2> QED
    BY <2>1, <2>2
<1>1. ASSUME NEW ns \in Namespace, UpsertConfig(ns) PROVE Goal
  BY <1>1, <1>0 DEF UpsertConfig
<1>2. ASSUME NEW n \in Node, NewAccessController(n) PROVE Goal
  <2>1. CASE n # p
    BY <1>2, <2>1, <1>0 DEF NewAccessController, TypeOK
  <2>2. CASE n = p
    <3>1. \A ns \in Namespace : configs'[p][p][ns] = TopChanges(ns)
      BY <1>2, <2>2 DEF NewAccessController, TypeOK
    <3>2. \A ns \in Namespace : \A t \in 1..changes[ns] : HoldsSince(p, ns, t)'
      BY <3>1, <1>ty, TopChangesLatest DEF HoldsSince
    <3>3. \A q \in Node, ns \in Namespace : configs'[q][p][ns] \subseteq 1..changes[ns]
      BY <1>2, <2>2, <1>ty, <3>1, TopChangesLatest
      DEF NewAccessController, TypeOK, OnlyLogged
    <3>4. \A b \in Node : \A e \in net'[p][b] :
            e[1] \in Namespace /\ e[2] \in 1..changes[e[1]]
      BY <1>2, <1>ty DEF NewAccessController, OnlyLogged, Entry, Timestamp
    <3> QED
      BY <3>2, <3>3, <3>4
  <2> QED
    BY <2>1, <2>2
<1>3. ASSUME NEW n \in Node, Poll(n) PROVE Goal
  BY <1>3, <1>0 DEF Poll
<1>4. ASSUME NEW n \in Node, ApplyChange(n) PROVE Goal
  BY <1>4, <1>0 DEF ApplyChange, SetNamespaceConfigSnapshot, TypeOK
<1>5. ASSUME NEW n \in Node, AbortPoll(n) PROVE Goal
  BY <1>5, <1>0 DEF AbortPoll
<1>6. ASSUME NEW n \in Node, Close(n) PROVE Goal
  <2>1. n # p /\ status[p] = "up"
    BY <1>6 DEF Close, TypeOK
  <2> QED
    BY <1>6, <2>1, <1>0 DEF Close, NotifyLeaveEffect, NoSnapshots, TypeOK
<1>7. ASSUME NEW n \in Node, Stop(n) PROVE Goal
  <2>1. n # p /\ status[p] = "up"
    BY <1>7 DEF Stop, TypeOK
  <2> QED
    BY <1>7, <2>1, <1>0 DEF Stop, NoSnapshots, TypeOK
<1>8. ASSUME NEW a \in Node, NEW b \in Node, LocalState(a, b) PROVE Goal
  <2>1. \A n \in Node, ns \in Namespace :
          \A t \in configs'[n][p][ns] : HoldsSince(p, ns, t)'
    BY <1>8 DEF LocalState, NoFalseLead, HoldsSince
  <2>2. ASSUME NEW c \in Node, NEW e \in net'[p][c]
        PROVE  HoldsSince(p, e[1], e[2])'
    <3>1. CASE p = a /\ c = b
      <4>1. PICK x \in Namespace : e \in {x} \X configs[p][p][x]
        BY <1>8, <2>2, <3>1 DEF LocalState, TypeOK
      <4>2. e[1] = x /\ e[2] \in configs[p][p][x] /\ e[2] \in Timestamp
        BY <4>1 DEF TypeOK
      <4> QED
        BY <1>8, <4>2 DEF LocalState, HoldsSince, Timestamp
    <3>2. CASE ~(p = a /\ c = b)
      <4>1. e \in net[p][c]
        BY <1>8, <2>2, <3>2 DEF LocalState, TypeOK
      <4> QED
        BY <1>8, <4>1 DEF LocalState, NoFalseLead, HoldsSince
    <3> QED
      BY <3>1, <3>2
  <2> QED
    BY <2>1, <2>2
<1>9. ASSUME NEW a \in Node, NEW b \in Node, MergeRemoteState(a, b) PROVE Goal
  <2>1. PICK e \in net[a][b] :
          /\ SetNamespaceConfigSnapshot(b, a, e[1], e[2])
          /\ net' = [net EXCEPT ![a][b] = @ \ {e}]
          /\ UNCHANGED <<changes, status, fetched, ring, faults>>
    BY <1>9 DEF MergeRemoteState
  <2>2. e[1] \in Namespace /\ e[2] \in Timestamp
    BY <2>1, <1>ty DEF Entry
  <2>3. ASSUME NEW q \in Node, NEW r \in Node, NEW ns \in Namespace,
               NEW t \in configs'[q][r][ns]
        PROVE  t \in configs[q][r][ns] \/ (r = a /\ ns = e[1] /\ t = e[2])
    BY <2>1, <2>2, <2>3 DEF SetNamespaceConfigSnapshot, TypeOK
  <2>4. \A ns \in Namespace : configs[p][p][ns] \subseteq configs'[p][p][ns]
    BY <2>1, <2>2 DEF SetNamespaceConfigSnapshot, TypeOK
  <2>5. ASSUME NEW n \in Node, NEW ns \in Namespace, NEW t \in configs'[n][p][ns]
        PROVE  HoldsSince(p, ns, t)'
    <3>1. t \in configs[n][p][ns] \/ (p = a /\ ns = e[1] /\ t = e[2])
      BY <2>3, <2>5
    <3>2. HoldsSince(p, ns, t)
      BY <3>1, <2>1 DEF NoFalseLead
    <3> QED
      BY <3>2, <2>4, HoldsSinceMonotone
  <2>6. ASSUME NEW c \in Node, NEW f \in net'[p][c]
        PROVE  HoldsSince(p, f[1], f[2])'
    <3>1. f \in net[p][c] /\ f[1] \in Namespace
      BY <2>1, <2>6, <1>ty DEF TypeOK, Entry
    <3>2. HoldsSince(p, f[1], f[2])
      BY <3>1, <2>1 DEF NoFalseLead
    <3> QED
      BY <3>1, <3>2, <2>4, HoldsSinceMonotone
  <2> QED
    BY <2>5, <2>6
<1>10. ASSUME NEW n \in Node, NEW m \in Node, NotifyJoin(n, m) PROVE Goal
  BY <1>10, <1>0 DEF NotifyJoin
<1>11. ASSUME NEW n \in Node, NEW m \in Node, NotifyLeave(n, m) PROVE Goal
  BY <1>11, <1>0 DEF NotifyLeave, NotifyLeaveEffect, NoSnapshots, TypeOK
<1>12. ASSUME NEW n \in Node, NEW m \in Node, FalseSuspicion(n, m) PROVE Goal
  BY <1>12, <1>0 DEF FalseSuspicion, NotifyLeaveEffect, NoSnapshots, TypeOK
<1>13. CASE UNCHANGED vars
  BY <1>13, <1>0 DEF vars
<1> QED
  BY <1>1, <1>2, <1>3, <1>4, <1>5, <1>6, <1>7, <1>8, <1>9, <1>10, <1>11,
     <1>12, <1>13 DEF Next, Exit, Crash

\* The inductive invariant holds throughout.
THEOREM Inductive == Spec => []IInv
<1>1. Init => OnlyLogged /\ NoFalseLead
  BY DEF Init, OnlyLogged, NoFalseLead, NoSnapshots
<1>2. TypeOK /\ TypeOK' /\ OnlyLogged /\ NoFalseLead /\ [Next]_vars
        => OnlyLogged' /\ NoFalseLead'
  BY OnlyLoggedStep, NoFalseLeadStep
<1> QED
  BY <1>1, <1>2, TypeCorrect, PTL DEF Spec, IInv

\* No node ever believes a peer that is up to be ahead of where that peer is.
THEOREM NeverFalseLead == Spec => []NoFalseLead
BY Inductive, PTL DEF IInv

-----------------------------------------------------------------------------
(***************************************************************************)
(* What the choice inherits from the invariant.                            *)
(***************************************************************************)

\* A set of timestamps that is not empty has a latest one, so selectedTS is the
\* latest of commonTimestamps.
LEMMA LatestIsMaximum ==
  ASSUME NEW S \in SUBSET Timestamp, S # {}
  PROVE  Latest(S) \in S /\ \A u \in S : u <= Latest(S)
<1> DEFINE T == {MaxChanges - t : t \in S}
<1>0. \A t \in S : t \in Nat /\ t <= MaxChanges /\ MaxChanges - t \in Nat
  BY BoundsAssumption DEF Timestamp
<1>1. T \subseteq Nat /\ T # {}
  BY <1>0
<1>2. PICK x \in T : \A y \in T : ~(<<y, x>> \in OpToRel(<, Nat))
  BY <1>1, WFMin, NatLessThanWellFounded, Zenon
<1>3. \A y \in T : ~(y < x)
  BY <1>1, <1>2 DEF OpToRel
<1>4. PICK t \in S : x = MaxChanges - t
  BY <1>2
<1>5. \A u \in S : u <= t
  <2> SUFFICES ASSUME NEW u \in S PROVE u <= t
    OBVIOUS
  <2>1. ~(MaxChanges - u < MaxChanges - t)
    BY <1>3, <1>4
  <2> QED
    BY <2>1, BoundsAssumption DEF Timestamp
<1>6. \E v \in S : \A u \in S : u <= v
  BY <1>5
<1> QED
  BY <1>6 DEF Latest

\* What chooseNamespaceConfigSnapshot may return, in terms of the store.
LEMMA ChoiceOrigin ==
  ASSUME TypeOK, NEW n \in Node, NEW ns \in Namespace,
         NEW t \in ChooseNamespaceConfigSnapshot(n, ns), KnownPeers(n) # {}
  PROVE  LET S == ListNamespaceConfigSnapshots(n, ns)
         IN  \E p \in PeersWithMin(S) : t = Latest(CommonTimestamps(S, p))
BY DEF ChooseNamespaceConfigSnapshot, ListNamespaceConfigSnapshots

\* A set of timestamps is finite; with a positive cardinality it has a member.
LEMMA TimestampsFinite ==
  ASSUME NEW S \in SUBSET Timestamp
  PROVE  /\ Cardinality(S) \in Nat
         /\ Cardinality(S) = 0 <=> S = {}
<1>1. IsFiniteSet(Timestamp)
  BY BoundsAssumption, FS_Interval DEF Timestamp
<1>2. IsFiniteSet(S)
  BY <1>1, FS_Subset
<1> QED
  BY <1>2, FS_CardinalityType, FS_EmptySet

\* A selection implies that every known peer is believed aware of the namespace.
LEMMA SelectionNeedsAll ==
  ASSUME TypeOK, NEW n \in Node, NEW ns \in Namespace,
         NEW t \in ChooseNamespaceConfigSnapshot(n, ns), t # NoTs,
         NEW q \in KnownPeers(n)
  PROVE  configs[n][q][ns] # {}
<1> DEFINE S == ListNamespaceConfigSnapshots(n, ns)
<1>1. PICK p \in PeersWithMin(S) : t = Latest(CommonTimestamps(S, p))
  BY ChoiceOrigin
<1>2. DOMAIN S = KnownPeers(n) /\ p \in KnownPeers(n) /\ q \in Node /\ p \in Node
  BY DEF ListNamespaceConfigSnapshots, PeersWithMin, KnownPeers
<1>3. S[p] = configs[n][p][ns] /\ S[q] = configs[n][q][ns]
  BY <1>2 DEF ListNamespaceConfigSnapshots
<1>4. CommonTimestamps(S, p) # {} /\ CommonTimestamps(S, p) \subseteq S[p]
  BY <1>1 DEF Latest, CommonTimestamps
<1>5. Cardinality(S[p]) <= Cardinality(S[q])
  BY <1>2 DEF PeersWithMin
<1>6. S[p] \in SUBSET Timestamp /\ S[q] \in SUBSET Timestamp
  BY <1>2, <1>3 DEF TypeOK
<1> HIDE DEF S
<1>7. Cardinality(S[p]) \in Nat /\ Cardinality(S[p]) # 0
  BY <1>4, <1>6, TimestampsFinite
<1>8. Cardinality(S[q]) # 0
  BY <1>5, <1>6, <1>7, TimestampsFinite
<1> QED
  BY <1>3, <1>6, <1>8, TimestampsFinite

\* A namespace gets a config snapshot on a node only when every known peer that
\* is up really has one of that namespace.
THEOREM AlwaysChosenOnlyWhenAllAware == Spec => []ChosenOnlyWhenAllAware
<1>1. IInv => ChosenOnlyWhenAllAware
  <2> SUFFICES ASSUME IInv, NEW n \in Node, NEW ns \in Namespace,
                      NEW t \in ChooseNamespaceConfigSnapshot(n, ns), t # NoTs,
                      NEW p \in KnownPeers(n), status[p] = "up"
               PROVE  configs[p][p][ns] # {}
    BY DEF ChosenOnlyWhenAllAware
  <2>1. PICK u : u \in configs[n][p][ns]
    BY SelectionNeedsAll DEF IInv
  <2>2. p \in Node
    BY DEF KnownPeers
  <2>3. HoldsSince(p, ns, u)
    BY <2>1, <2>2 DEF IInv, NoFalseLead
  <2> QED
    BY <2>3 DEF HoldsSince
<1> QED
  BY <1>1, Inductive, PTL

\* The choice is never older than a snapshot all known peers are believed to have.
THEOREM AlwaysChoiceNotBehindCommon == Spec => []ChoiceNotBehindCommon
<1>1. TypeOK => ChoiceNotBehindCommon
  <2> SUFFICES ASSUME TypeOK, NEW n \in Node, NEW ns \in Namespace,
                      NEW t \in ChooseNamespaceConfigSnapshot(n, ns),
                      NEW u \in Timestamp, KnownPeers(n) # {},
                      \A p \in KnownPeers(n) : u \in configs[n][p][ns]
               PROVE  u <= t
    BY DEF ChoiceNotBehindCommon
  <2> DEFINE S == ListNamespaceConfigSnapshots(n, ns)
  <2>1. PICK p \in PeersWithMin(S) : t = Latest(CommonTimestamps(S, p))
    BY ChoiceOrigin
  <2>2. DOMAIN S = KnownPeers(n) /\ p \in KnownPeers(n)
    BY DEF ListNamespaceConfigSnapshots, PeersWithMin
  <2>3. \A q \in KnownPeers(n) : S[q] = configs[n][q][ns]
    BY DEF ListNamespaceConfigSnapshots
  <2>4. u \in CommonTimestamps(S, p)
    BY <2>2, <2>3 DEF CommonTimestamps
  <2>5. S[p] \subseteq Timestamp
    <3>1. p \in Node
      BY <2>2 DEF KnownPeers
    <3> QED
      BY <2>2, <2>3, <3>1 DEF TypeOK
  <2>6. CommonTimestamps(S, p) \in SUBSET Timestamp
    BY <2>5 DEF CommonTimestamps
  <2> QED
    BY <2>1, <2>4, <2>6, LatestIsMaximum
<1> QED
  BY <1>1, TypeCorrect, PTL

\* With a single peer known besides the node itself, the selected snapshot is in
\* the node's own store and the peer, if it is up, has it or a later one.
THEOREM AlwaysPairChoiceUsable == Spec => []PairChoiceUsable
<1>1. IInv => PairChoiceUsable
  <2> SUFFICES ASSUME IInv, NEW n \in Node, NEW p \in Node, NEW ns \in Namespace,
                      n # p, KnownPeers(n) = {n, p},
                      NEW t \in ChooseNamespaceConfigSnapshot(n, ns), t # NoTs
               PROVE  /\ t \in configs[n][n][ns]
                      /\ status[p] = "up" => HoldsSince(p, ns, t)
    BY DEF PairChoiceUsable
  <2> DEFINE S == ListNamespaceConfigSnapshots(n, ns)
  <2>1. PICK q \in PeersWithMin(S) : t = Latest(CommonTimestamps(S, q))
    BY ChoiceOrigin DEF IInv
  <2>2. DOMAIN S = {n, p} /\ q \in {n, p}
    BY DEF ListNamespaceConfigSnapshots, PeersWithMin
  <2>3. S[n] = configs[n][n][ns] /\ S[p] = configs[n][p][ns]
    BY DEF ListNamespaceConfigSnapshots
  <2>4. S[n] \subseteq Timestamp /\ S[p] \subseteq Timestamp
    BY <2>3 DEF IInv, TypeOK
  <2>5. CommonTimestamps(S, q) = S[n] \cap S[p]
    BY <2>2 DEF CommonTimestamps
  <2>6. CommonTimestamps(S, q) # {}
    BY <2>1 DEF Latest
  <2>7. t \in S[n] \cap S[p]
    BY <2>1, <2>4, <2>5, <2>6, LatestIsMaximum
  <2> QED
    BY <2>3, <2>7 DEF IInv, NoFalseLead
<1> QED
  BY <1>1, Inductive, PTL

-----------------------------------------------------------------------------
(***************************************************************************)
(* The choice of a node that knows of one peer never goes back.            *)
(***************************************************************************)

\* Nothing that a node records is forgotten but by its end, its own departure or
\* the departure of a member of its ring.
LEMMA RecordsGrow ==
  ASSUME TypeOK, [Next]_vars, NEW n \in Node,
         status'[n] = status[n], ring[n] \subseteq ring'[n]
  PROVE  \A p \in Node, ns \in Namespace : configs[n][p][ns] \subseteq configs'[n][p][ns]
<1> USE DEF TypeOK
<1>1. ASSUME NEW m \in Node, NewAccessController(m) \/ Close(m) \/ Exit(m) \/ Crash(m)
      PROVE  configs'[n] = configs[n]
  <2>1. m # n
    BY <1>1 DEF NewAccessController, Close, Exit, Crash, Stop
  <2> QED
    BY <1>1, <2>1 DEF NewAccessController, Close, Exit, Crash, Stop, NotifyLeaveEffect
<1>2. ASSUME NEW a \in Node, NEW m \in Node, NotifyLeave(a, m) \/ FalseSuspicion(a, m)
      PROVE  configs'[n] = configs[n]
  <2>1. a # n
    BY <1>2 DEF NotifyLeave, FalseSuspicion, NotifyLeaveEffect
  <2> QED
    BY <1>2, <2>1 DEF NotifyLeave, FalseSuspicion, NotifyLeaveEffect
<1>3. ASSUME NEW a \in Node, ApplyChange(a)
      PROVE  \A p \in Node, ns \in Namespace : configs[n][p][ns] \subseteq configs'[n][p][ns]
  BY <1>3 DEF ApplyChange, SetNamespaceConfigSnapshot
<1>4. ASSUME NEW a \in Node, NEW b \in Node, MergeRemoteState(a, b)
      PROVE  \A p \in Node, ns \in Namespace : configs[n][p][ns] \subseteq configs'[n][p][ns]
  BY <1>4 DEF MergeRemoteState, SetNamespaceConfigSnapshot
<1>5. ASSUME NEW ns \in Namespace, UpsertConfig(ns) PROVE configs' = configs
  BY <1>5 DEF UpsertConfig
<1>6. ASSUME NEW a \in Node, Poll(a) \/ AbortPoll(a) PROVE configs' = configs
  BY <1>6 DEF Poll, AbortPoll
<1>7. ASSUME NEW a \in Node, NEW b \in Node, LocalState(a, b) \/ NotifyJoin(a, b)
      PROVE  configs' = configs
  BY <1>7 DEF LocalState, NotifyJoin
<1>8. CASE UNCHANGED vars
  BY <1>8 DEF vars
<1> QED
  BY <1>1, <1>2, <1>3, <1>4, <1>5, <1>6, <1>7, <1>8 DEF Next

\* The latest of a larger set of timestamps is not earlier.
LEMMA LatestMonotone ==
  ASSUME NEW S \in SUBSET Timestamp, NEW T \in SUBSET Timestamp, S \subseteq T
  PROVE  Latest(S) <= Latest(T)
<1>1. CASE S = {}
  <2>1. Latest(S) = 0
    BY <1>1 DEF Latest, NoTs
  <2>2. Latest(T) = 0 \/ Latest(T) \in Timestamp
    BY LatestIsMaximum DEF Latest, NoTs
  <2> QED
    BY <2>1, <2>2 DEF Timestamp
<1>2. CASE S # {}
  BY <1>2, LatestIsMaximum
<1> QED
  BY <1>1, <1>2

\* The version that a pair's requests are evaluated with never goes back while the
\* node runs and is not told of a departure.
THEOREM AlwaysPairChoiceNeverBack == Spec => PairChoiceNeverBack
<1> DEFINE Forward ==
      \A n, p \in Node :
        /\ n # p
        /\ status'[n] = status[n]
        /\ ring[n] \subseteq ring'[n]
        /\ KnownPeers(n) = {n, p} /\ KnownPeers(n)' = {n, p}
        => \A ns \in Namespace :
            \A t \in ChooseNamespaceConfigSnapshot(n, ns),
               u \in ChooseNamespaceConfigSnapshot(n, ns)' : t <= u
<1>1. TypeOK /\ TypeOK' /\ [Next]_vars => Forward
  <2> SUFFICES ASSUME TypeOK, TypeOK', [Next]_vars,
                      NEW n \in Node, NEW p \in Node, NEW ns \in Namespace,
                      n # p, KnownPeers(n) = {n, p}, KnownPeers(n)' = {n, p},
                      status'[n] = status[n], ring[n] \subseteq ring'[n],
                      NEW t \in ChooseNamespaceConfigSnapshot(n, ns),
                      NEW u \in ChooseNamespaceConfigSnapshot(n, ns)'
               PROVE  t <= u
    OBVIOUS
  <2> DEFINE S == configs[n][n][ns] \cap configs[n][p][ns]
             T == configs'[n][n][ns] \cap configs'[n][p][ns]
  <2>1. t = Latest(S)
    <3> DEFINE L == ListNamespaceConfigSnapshots(n, ns)
    <3>1. DOMAIN L = {n, p} /\ L[n] = configs[n][n][ns] /\ L[p] = configs[n][p][ns]
      BY DEF ListNamespaceConfigSnapshots
    <3>2. PICK q \in PeersWithMin(L) : t = Latest(CommonTimestamps(L, q))
      BY <3>1 DEF ChooseNamespaceConfigSnapshot
    <3>3. q \in DOMAIN L
      BY DEF PeersWithMin
    <3> HIDE DEF L
    <3>4. CommonTimestamps(L, q) = L[n] \cap L[p]
      BY <3>1, <3>3 DEF CommonTimestamps
    <3> QED
      BY <3>1, <3>2, <3>4
  <2>2. u = Latest(T)
    <3> DEFINE L == ListNamespaceConfigSnapshots(n, ns)'
    <3>1. DOMAIN L = {n, p} /\ L[n] = configs'[n][n][ns] /\ L[p] = configs'[n][p][ns]
      BY DEF ListNamespaceConfigSnapshots
    <3>2. PICK q \in PeersWithMin(L) : u = Latest(CommonTimestamps(L, q))
      BY <3>1 DEF ChooseNamespaceConfigSnapshot
    <3>3. q \in DOMAIN L
      BY DEF PeersWithMin
    <3> HIDE DEF L
    <3>4. CommonTimestamps(L, q) = L[n] \cap L[p]
      BY <3>1, <3>3 DEF CommonTimestamps
    <3> QED
      BY <3>1, <3>2, <3>4
  <2>3. S \subseteq T
    BY RecordsGrow
  <2>4. S \in SUBSET Timestamp /\ T \in SUBSET Timestamp
    BY DEF TypeOK
  <2> HIDE DEF S, T
  <2> QED
    BY <2>1, <2>2, <2>3, <2>4, LatestMonotone
<1>2. Spec => [][Forward]_vars
  BY <1>1, TypeCorrect, PTL DEF Spec
<1> QED
  BY <1>2 DEF PairChoiceNeverBack
=============================================================================
