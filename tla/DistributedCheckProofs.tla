----------------------- MODULE DistributedCheckProofs -----------------------
(***************************************************************************)
(* Proofs about Membership and DistributedCheck: rings name only peers     *)
(* that can be called, a check on a node reads one snapshot, and a settled *)
(* cluster neither refuses a check nor forwards it twice.                  *)
(***************************************************************************)
EXTENDS DistributedCheck, TLAPS

-----------------------------------------------------------------------------
\* A step of the membership keeps its types.
LEMMA MembershipTypeStep ==
  MembershipTypeOK /\ [MembershipNext]_membershipVars => MembershipTypeOK'
<1> SUFFICES ASSUME MembershipTypeOK, [MembershipNext]_membershipVars
             PROVE  MembershipTypeOK'
  OBVIOUS
<1> USE MembershipAssumption DEF MembershipTypeOK, Callback, Quiet
<1>1. ASSUME NEW n \in Node, NEW m \in Node, NotifyJoin(n, m)
      PROVE  MembershipTypeOK'
  BY <1>1 DEF NotifyJoin, AddClient, NodeMeta
<1>2. ASSUME NEW n \in Node, NEW m \in Node, NotifyLeave(n, m)
      PROVE  MembershipTypeOK'
  BY <1>2 DEF NotifyLeave, RemoveClient
<1>3. ASSUME NEW n \in Node, NotifyJoinAdds(n)
      PROVE  MembershipTypeOK'
  BY <1>3 DEF NotifyJoinAdds, Add
<1>4. ASSUME NEW n \in Node, NotifyLeaveRemoves(n)
      PROVE  MembershipTypeOK'
  BY <1>4 DEF NotifyLeaveRemoves, Remove
<1>5. ASSUME NEW n \in Node, Crash(n)
      PROVE  MembershipTypeOK'
  BY <1>5 DEF Crash
<1>6. ASSUME NEW n \in Node, Restart(n)
      PROVE  MembershipTypeOK'
  <2>1. PICK a \in 1..MaxAddr : addr' = [addr EXCEPT ![n] = a]
    BY <1>6 DEF Restart
  <2>2. [m \in Node |-> 0] \in [Node -> 0..MaxAddr]
    OBVIOUS
  <2>3. clients' \in [Node -> [Node -> 0..MaxAddr]]
    BY <1>6, <2>2 DEF Restart
  <2> QED
    BY <1>6, <2>1, <2>3 DEF Restart
<1>7. CASE UNCHANGED membershipVars
  BY <1>7 DEF membershipVars
<1> QED
  BY <1>1, <1>2, <1>3, <1>4, <1>5, <1>6, <1>7 DEF MembershipNext

\* Type correctness of rings, clients and callbacks.
THEOREM MembershipTypeCorrect == MembershipSpec => []MembershipTypeOK
<1>1. MembershipInit => MembershipTypeOK
  BY MembershipAssumption DEF MembershipInit, MembershipTypeOK, Callback, Quiet
<1> QED
  BY <1>1, MembershipTypeStep, PTL DEF MembershipSpec

\* What NotifyJoin did before it adds the member to the ring
JoiningHasClient ==
    \A n \in Node : callback[n].kind = "join" => HasClient(n, callback[n].member)

Reachable == JoiningHasClient /\ RingMembersHaveClients

\* No callback, crash or restart leaves a ring member without a client.
LEMMA ReachableStep ==
  MembershipTypeOK /\ Reachable /\ [MembershipNext]_membershipVars => Reachable'
<1> SUFFICES ASSUME MembershipTypeOK, Reachable, [MembershipNext]_membershipVars
             PROVE  Reachable'
  OBVIOUS
<1> USE DEF MembershipTypeOK, Callback, Quiet, Reachable, JoiningHasClient,
            RingMembersHaveClients, HasClient
<1>1. ASSUME NEW n \in Node, NEW m \in Node, NotifyJoin(n, m)
      PROVE  Reachable'
  <2>1. addr[m] # 0
    OBVIOUS
  <2> QED
    BY <1>1, <2>1 DEF NotifyJoin, AddClient, NodeMeta
<1>2. ASSUME NEW n \in Node, NEW m \in Node, NotifyLeave(n, m)
      PROVE  Reachable'
  BY <1>2 DEF NotifyLeave, RemoveClient
<1>3. ASSUME NEW n \in Node, NotifyJoinAdds(n)
      PROVE  Reachable'
  BY <1>3 DEF NotifyJoinAdds, Add
<1>4. ASSUME NEW n \in Node, NotifyLeaveRemoves(n)
      PROVE  Reachable'
  BY <1>4 DEF NotifyLeaveRemoves, Remove
<1>5. ASSUME NEW n \in Node, Crash(n)
      PROVE  Reachable'
  BY <1>5 DEF Crash
<1>6. ASSUME NEW n \in Node, Restart(n)
      PROVE  Reachable'
  BY <1>6 DEF Restart
<1>7. CASE UNCHANGED membershipVars
  BY <1>7 DEF membershipVars
<1> QED
  BY <1>1, <1>2, <1>3, <1>4, <1>5, <1>6, <1>7 DEF MembershipNext

\* A peer of the ring can be called, but for the one whose NotifyLeave is half way.
THEOREM AlwaysRingMembersHaveClients == MembershipSpec => []RingMembersHaveClients
<1>1. MembershipInit => Reachable
  BY DEF MembershipInit, Reachable, JoiningHasClient, RingMembersHaveClients,
         HasClient, Quiet
<1>2. Reachable => RingMembersHaveClients
  BY DEF Reachable
<1> QED
  BY <1>1, <1>2, ReachableStep, MembershipTypeCorrect, PTL DEF MembershipSpec

\* What lets a callback that is half way finish without leaving a client behind
ClientsMatch ==
    \A n \in Node :
        /\ n \in ring[n]
        /\ callback[n].kind # "none" => callback[n].member # n
        /\ callback[n].kind = "leave" => ~HasClient(n, callback[n].member)
        /\ \A m \in Node :
            HasClient(n, m) => \/ m \in ring[n] \ {n}
                               \/ callback[n] = [kind |-> "join", member |-> m]

\* No callback, crash or restart leaves a client without a ring member.
LEMMA ClientsMatchStep ==
  MembershipTypeOK /\ ClientsMatch /\ [MembershipNext]_membershipVars => ClientsMatch'
<1> SUFFICES ASSUME MembershipTypeOK, ClientsMatch, [MembershipNext]_membershipVars
             PROVE  ClientsMatch'
  OBVIOUS
<1> USE DEF MembershipTypeOK, Callback, Quiet, ClientsMatch, HasClient
<1>1. ASSUME NEW n \in Node, NEW m \in Node, NotifyJoin(n, m)
      PROVE  ClientsMatch'
  BY <1>1 DEF NotifyJoin, AddClient, NodeMeta
<1>2. ASSUME NEW n \in Node, NEW m \in Node, NotifyLeave(n, m)
      PROVE  ClientsMatch'
  BY <1>2 DEF NotifyLeave, RemoveClient
<1>3. ASSUME NEW n \in Node, NotifyJoinAdds(n)
      PROVE  ClientsMatch'
  BY <1>3 DEF NotifyJoinAdds, Add
<1>4. ASSUME NEW n \in Node, NotifyLeaveRemoves(n)
      PROVE  ClientsMatch'
  BY <1>4 DEF NotifyLeaveRemoves, Remove
<1>5. ASSUME NEW n \in Node, Crash(n)
      PROVE  ClientsMatch'
  BY <1>5 DEF Crash
<1>6. ASSUME NEW n \in Node, Restart(n)
      PROVE  ClientsMatch'
  BY <1>6 DEF Restart
<1>7. CASE UNCHANGED membershipVars
  BY <1>7 DEF membershipVars
<1> QED
  BY <1>1, <1>2, <1>3, <1>4, <1>5, <1>6, <1>7 DEF MembershipNext

\* A node holds clients for the members of its ring only, but for the one whose
\* NotifyJoin is half way: with AlwaysRingMembersHaveClients, a node between two
\* callbacks has clients for just the peers in its ring.
THEOREM AlwaysClientsAreMembers == MembershipSpec => []ClientsAreMembers
<1>1. MembershipInit => ClientsMatch
  BY DEF MembershipInit, ClientsMatch, HasClient, Quiet
<1>2. MembershipTypeOK /\ ClientsMatch => ClientsAreMembers
  BY DEF MembershipTypeOK, ClientsMatch, ClientsAreMembers
<1> QED
  BY <1>1, <1>2, ClientsMatchStep, MembershipTypeCorrect, PTL DEF MembershipSpec

-----------------------------------------------------------------------------
\* A step of a check that is not one of the membership leaves the membership alone.
LEMMA StepsOfMembership == [Next]_vars => [MembershipNext]_membershipVars
<1> USE DEF Becomes, Goto, Finish, Push
<1>1. CheckStep => UNCHANGED membershipVars
  BY DEF CheckStep, RefuseChecksum, Enter, Locate, GetClient, NewContextWithChecksum,
         CallClient, CallFails, Retry, GetClientAgain, Evaluate, QueryFails, Return,
         EvaluateNested
<1>2. ASSUME NEW n \in Node, NEW o \in Object, Check(n, o)
      PROVE  UNCHANGED membershipVars
  BY <1>2 DEF Check
<1>3. ASSUME NEW i \in 1..MaxDepth, CallBreaks(i)
      PROVE  UNCHANGED membershipVars
  BY <1>3 DEF CallBreaks
<1>4. Cancel => UNCHANGED membershipVars
  BY DEF Cancel
<1>5. ASSUME NEW n \in Node, NewSnapshot(n)
      PROVE  UNCHANGED membershipVars
  BY <1>5 DEF NewSnapshot
<1>6. ASSUME NEW n \in Node, Dies(n)
      PROVE  MembershipNext
  BY <1>6 DEF Dies, MembershipNext
<1>7. MembershipChanges => MembershipNext
  BY DEF MembershipChanges, MembershipNext
<1>8. UNCHANGED vars => UNCHANGED membershipVars
  BY DEF vars
<1> QED
  BY <1>1, <1>2, <1>3, <1>4, <1>5, <1>6, <1>7, <1>8 DEF Next

\* The cluster behind a check behaves as Membership says.
THEOREM ImplementsMembership == Spec => MembershipSpec
<1>1. Init => MembershipInit
  BY DEF Init
<1> QED
  BY <1>1, StepsOfMembership, PTL DEF Spec, MembershipSpec

-----------------------------------------------------------------------------
CheckTypeOK ==
    /\ choice \in [Node -> 0..MaxVersion]
    /\ depth \in 0..MaxDepth
    /\ frames \in [1..depth -> Frame]
    /\ cancelled \in BOOLEAN
    /\ outcome \in Result \cup {"none", "lost"}
    /\ disturbed \in BOOLEAN

\* The stack keeps its type when its top moves on,
LEMMA BecomesType ==
  ASSUME CheckTypeOK, depth > 0, NEW f \in Frame, Becomes(f)
  PROVE  CheckTypeOK'
BY DEF CheckTypeOK, Becomes

\* when its top calls,
LEMMA PushType ==
  ASSUME CheckTypeOK, depth > 0, NEW f \in Frame, Push(f)
  PROVE  CheckTypeOK'
<1>1. Top \in Frame
  BY DEF CheckTypeOK, Top
<1>2. [Top EXCEPT !.pc = "wait"] \in Frame
  BY <1>1 DEF Frame, Location
<1> QED
  BY <1>2, CheckAssumption DEF CheckTypeOK, Push

\* and when a frame hears from its callee.
LEMMA ResumeType ==
  ASSUME CheckTypeOK, NEW i \in 1..depth, NEW f \in Frame, Resume(i, f)
  PROVE  depth' \in 0..MaxDepth /\ frames' \in [1..depth' -> Frame]
BY CheckAssumption DEF CheckTypeOK, Resume

\* A new call is a frame.
LEMMA NewFrameType ==
  ASSUME NEW kind \in {"client", "proxied", "nested"}, NEW n \in Node,
         NEW o \in Object, NEW sum \in SUBSET Node, NEW ts \in 0..MaxVersion
  PROVE  NewFrame(kind, n, o, sum, ts) \in Frame
BY CheckAssumption, MembershipAssumption DEF NewFrame, Frame, Location

\* A step keeps the types of the stack and of what surrounds it.
LEMMA CheckTypeStep ==
  MembershipTypeOK /\ CheckTypeOK /\ [Next]_vars => CheckTypeOK'
<1> SUFFICES ASSUME MembershipTypeOK, CheckTypeOK, [Next]_vars
             PROVE  CheckTypeOK'
  OBVIOUS
<1> USE CheckAssumption, MembershipAssumption
<1>0. depth > 0 => Top \in Frame
  BY DEF CheckTypeOK, Top
<1>1. ASSUME depth > 0, NEW loc \in Location, Goto(loc)
      PROVE  CheckTypeOK'
  <2>1. [Top EXCEPT !.pc = loc] \in Frame
    BY <1>0, <1>1 DEF Frame
  <2> QED
    BY <1>1, <2>1, BecomesType DEF Goto
<1>2. ASSUME depth > 0, NEW r \in Result, Finish(r)
      PROVE  CheckTypeOK'
  <2>1. [Top EXCEPT !.pc = "done", !.result = r] \in Frame
    BY <1>0, <1>2 DEF Frame, Location
  <2> QED
    BY <1>2, <2>1, BecomesType DEF Finish
<1>3. CASE RefuseChecksum
  BY <1>2, <1>3 DEF RefuseChecksum, At, Result
<1>4. CASE Enter
  <2> DEFINE ts == SnapshotTimestamp(Top)
  <2>1. depth > 0 /\ ts \in 0..MaxVersion
    BY <1>0, <1>4 DEF Enter, At, SnapshotTimestamp, CheckTypeOK, Frame
  <2>2. [Top EXCEPT !.ts = ts, !.pc = "locate"] \in Frame
    BY <1>0, <2>1 DEF Frame, Location
  <2>3. \/ Finish("undefined")
        \/ Finish("answer")
        \/ Becomes([Top EXCEPT !.ts = ts, !.pc = "locate"])
    BY <1>4 DEF Enter
  <2> QED
    BY <1>2, <2>1, <2>2, <2>3, BecomesType DEF Result
<1>5. CASE Locate
  <2>1. depth > 0 /\ Owner(Top) \in Node
    BY <1>0, <1>5 DEF Locate, At, Owner, Frame, MembershipTypeOK
  <2>2. [Top EXCEPT !.owner = Owner(Top),
                    !.pc = IF Owner(Top) = Top.node THEN "eval" ELSE "client"] \in Frame
    BY <1>0, <2>1 DEF Frame, Location
  <2> QED
    BY <1>5, <2>1, <2>2, BecomesType DEF Locate
<1>6. CASE GetClient
  <2>1. depth > 0 /\ clients[Top.node][Top.owner] \in 0..MaxAddr
    BY <1>0, <1>6 DEF GetClient, At, Frame, MembershipTypeOK
  <2>2. [Top EXCEPT !.conn = clients[Top.node][Top.owner], !.pc = "stamp"] \in Frame
    BY <1>0, <2>1 DEF Frame, Location
  <2> QED
    BY <1>2, <1>6, <2>1, <2>2, BecomesType DEF GetClient, Result
<1>7. CASE NewContextWithChecksum
  <2>1. depth > 0 /\ Checksum(Top.node) \in SUBSET Node
    BY <1>0, <1>7 DEF NewContextWithChecksum, At, Checksum, Frame, MembershipTypeOK
  <2>2. [Top EXCEPT !.sum = Checksum(Top.node), !.pc = "call"] \in Frame
    BY <1>0, <2>1 DEF Frame, Location
  <2> QED
    BY <1>7, <2>1, <2>2, BecomesType DEF NewContextWithChecksum
<1>8. CASE CallClient
  <2>1. depth > 0 /\ Top.owner \in Node /\ Top.object \in Object
    BY <1>0, <1>8 DEF CallClient, At, Frame
  <2>2. NewFrame("proxied", Top.owner, Top.object, {}, 0) \in Frame
    BY <2>1, NewFrameType
  <2> QED
    BY <1>8, <2>1, <2>2, PushType DEF CallClient
<1>9. CASE CallFails
  BY <1>1, <1>9 DEF CallFails, At, AfterFailure, Location
<1>10. CASE Retry
  <2> DEFINE owner == Owner(Top)
             again == [Top EXCEPT !.retries = @ + 1, !.owner = owner, !.pc = "reclient"]
  <2>1. depth > 0 /\ owner \in Node
    BY <1>0, <1>10 DEF Retry, At, Owner, Frame, MembershipTypeOK
  <2>2. Top.retries <= Retries => again \in Frame
    <3>1. Top.retries <= Retries => Top.retries + 1 \in 0..Retries + 1
      BY <1>0, <2>1 DEF Frame
    <3>2. "reclient" \in Location
      BY DEF Location
    <3> HIDE DEF owner
    <3> QED
      BY <1>0, <2>1, <3>1, <3>2 DEF Frame
  <2>3. \/ Goto("eval")
        \/ Top.retries <= Retries /\ Becomes(again)
    <3>1. Top.retries \in 0..Retries + 1
      BY <1>0, <2>1 DEF Frame
    <3> QED
      BY <1>10, <3>1 DEF Retry
  <2> QED
    BY <1>1, <2>1, <2>2, <2>3, BecomesType DEF Location
<1>11. CASE GetClientAgain
  <2>1. depth > 0 /\ clients[Top.node][Top.owner] \in 0..MaxAddr
    BY <1>0, <1>11 DEF GetClientAgain, At, Frame, MembershipTypeOK
  <2>2. [Top EXCEPT !.conn = clients[Top.node][Top.owner], !.pc = "call"] \in Frame
    BY <1>0, <2>1 DEF Frame, Location
  <2> QED
    BY <1>1, <1>11, <2>1, <2>2, BecomesType DEF GetClientAgain, Location
<1>12. CASE Evaluate
  BY <1>2, <1>12 DEF Evaluate, At, Result
<1>22. CASE QueryFails
  <2>1. depth > 0 /\ {Top.node} \in SUBSET Node
    BY <1>0, <1>22 DEF QueryFails, At, Frame
  <2>2. [Top EXCEPT !.pc = "done", !.result = "internal", !.failedAt = {Top.node}] \in Frame
    BY <1>0, <2>1 DEF Frame, Location, Result
  <2> QED
    BY <1>22, <2>1, <2>2, BecomesType DEF QueryFails
<1>13. ASSUME NEW o \in Object, EvaluateNested(o)
       PROVE  CheckTypeOK'
  <2>1. depth > 0 /\ Top.node \in Node /\ Top.sum \in SUBSET Node /\ Top.ts \in 0..MaxVersion
    BY <1>0, <1>13 DEF EvaluateNested, At, Frame
  <2>2. NewFrame("nested", Top.node, o, Top.sum, Top.ts) \in Frame
    BY <2>1, NewFrameType
  <2> QED
    BY <1>13, <2>1, <2>2, PushType DEF EvaluateNested
<1>14. CASE Return
  <2>1. depth > 0 /\ Top.result \in Result \cup {"none"} /\ Top.failedAt \in SUBSET Node
    BY <1>0, <1>14 DEF Return, At, Frame
  <2>2. CASE depth = 1
    BY <1>14, <2>1, <2>2 DEF Return, CheckTypeOK, Resume
  <2>3. CASE depth # 1
    <3> DEFINE caller == frames[depth - 1]
    <3>1. depth - 1 \in 1..depth /\ caller \in Frame
      BY <2>1, <2>3 DEF CheckTypeOK
    <3>2. /\ \A loc \in AfterFailure : [caller EXCEPT !.pc = loc] \in Frame
          /\ [caller EXCEPT !.pc = "done", !.result = Top.result,
                            !.failedAt = Top.failedAt] \in Frame
      BY <3>1, <2>1 DEF Frame, Location, AfterFailure
    <3>3. PICK f \in Frame : Resume(depth - 1, f)
      BY <1>14, <2>3, <3>2 DEF Return
    <3>4. depth' \in 0..MaxDepth /\ frames' \in [1..depth' -> Frame]
      BY <3>1, <3>3, ResumeType
    <3> QED
      BY <1>14, <2>3, <3>4 DEF Return, CheckTypeOK
  <2> QED
    BY <2>2, <2>3
<1>15. ASSUME NEW n \in Node, NEW o \in Object, Check(n, o)
       PROVE  CheckTypeOK'
  <2>1. NewFrame("client", n, o, {}, 0) \in Frame
    BY NewFrameType
  <2> QED
    BY <1>15, <2>1 DEF Check, CheckTypeOK
<1>16. ASSUME NEW i \in 1..MaxDepth, CallBreaks(i)
       PROVE  CheckTypeOK'
  <2>1. i \in 1..depth /\ frames[i] \in Frame
    BY <1>16 DEF CallBreaks, CheckTypeOK
  <2>2. \A loc \in AfterFailure : [frames[i] EXCEPT !.pc = loc] \in Frame
    BY <2>1 DEF Frame, Location, AfterFailure
  <2>3. PICK f \in Frame : Resume(i, f)
    BY <1>16, <2>2 DEF CallBreaks
  <2>4. depth' \in 0..MaxDepth /\ frames' \in [1..depth' -> Frame]
    BY <2>1, <2>3, ResumeType
  <2> QED
    BY <1>16, <2>4 DEF CallBreaks, CheckTypeOK
<1>17. CASE Cancel
  BY <1>17 DEF Cancel, CheckTypeOK
<1>18. ASSUME NEW n \in Node, NewSnapshot(n)
       PROVE  CheckTypeOK'
  BY <1>18 DEF NewSnapshot, CheckTypeOK
<1>19. ASSUME NEW n \in Node, Dies(n)
       PROVE  CheckTypeOK'
  <2>1. CASE UNCHANGED <<frames, depth, outcome>>
    BY <1>19, <2>1 DEF Dies, CheckTypeOK
  <2>2. CASE depth' = 0 /\ frames' = <<>> /\ outcome' = "lost"
    BY <1>19, <2>2 DEF Dies, CheckTypeOK
  <2>3. ASSUME NEW i \in 1..depth, i # 1, NEW loc \in AfterFailure,
               Resume(i - 1, [frames[i - 1] EXCEPT !.pc = loc]), UNCHANGED outcome
        PROVE  CheckTypeOK'
    <3>1. i - 1 \in 1..depth /\ frames[i - 1] \in Frame
      BY <2>3 DEF CheckTypeOK
    <3>2. [frames[i - 1] EXCEPT !.pc = loc] \in Frame
      BY <3>1 DEF Frame, Location, AfterFailure
    <3>3. depth' \in 0..MaxDepth /\ frames' \in [1..depth' -> Frame]
      BY <2>3, <3>1, <3>2, ResumeType
    <3> QED
      BY <1>19, <2>3, <3>3 DEF Dies, CheckTypeOK
  <2> QED
    BY <1>19, <2>1, <2>2, <2>3 DEF Dies
<1>20. CASE MembershipChanges
  BY <1>20 DEF MembershipChanges, CheckTypeOK
<1>21. CASE UNCHANGED vars
  BY <1>21 DEF vars, checkVars, CheckTypeOK
<1> QED
  BY <1>3, <1>4, <1>5, <1>6, <1>7, <1>8, <1>9, <1>10, <1>11, <1>12, <1>13, <1>14,
     <1>15, <1>16, <1>17, <1>18, <1>19, <1>20, <1>21, <1>22 DEF Next, CheckStep

\* Type correctness of the routing: the stack of waiting calls, the retries they
\* count and the membership around them.
THEOREM TypeCorrect == Spec => []TypeOK
<1>1. Init => CheckTypeOK
  <2>1. Init => choice \in [Node -> 0..MaxVersion]
    BY CheckAssumption DEF Init
  <2>2. Init => frames \in [1..depth -> Frame] /\ depth \in 0..MaxDepth
    BY CheckAssumption DEF Init
  <2> QED
    BY <2>1, <2>2 DEF Init, CheckTypeOK
<1>2. MembershipTypeOK /\ CheckTypeOK => TypeOK
  BY DEF TypeOK, CheckTypeOK
<1>3. Spec => []MembershipTypeOK
  BY ImplementsMembership, MembershipTypeCorrect, PTL
<1> QED
  BY <1>1, <1>2, <1>3, CheckTypeStep, PTL DEF Spec

-----------------------------------------------------------------------------
\* the owner of f's object when every node runs
Home(f) == LocateKey[f.object][Node]

\* What holds of every call of check that is under way
FrameInv(f) ==
    /\ f.pc \notin {"enter", "done"} => f.ts # 0
    /\ f.pc = "client" => f.owner # f.node
    /\ ~disturbed =>
        /\ f.sum \in {{}, Node}
        /\ f.result = "internal" => cancelled \/ f.failedAt = {f.node}
        /\ f.pc \in {"client", "stamp", "call", "reclient"} => f.owner = Home(f)
        /\ f.kind = "proxied" =>
            /\ f.node = Home(f)
            /\ f.pc \in {"enter", "locate", "eval", "wait", "done"}

\* What holds of a call f that waits for a call g
CallInv(f, g) ==
    /\ f.pc = "wait"
    /\ g.kind # "client"
    /\ g.kind = "nested" => g.ts = f.ts /\ g.ts # 0 /\ g.node = f.node
    /\ ~disturbed => ~(f.kind = "proxied" /\ g.kind = "proxied")

\* The inductive invariant behind the three properties: as long as the check was
\* not disturbed, the cluster is the settled one, every stamp is the checksum of
\* all nodes, and a proxied check is at its object's owner.
StackInv ==
    /\ \A i \in 1..depth : FrameInv(frames[i])
    /\ \A i \in 1..depth - 1 : CallInv(frames[i], frames[i + 1])
    /\ depth > 0 => Top.pc # "wait"
    /\ ~disturbed => Settled

\* The stack's top moves on: the invariant needs to hold of the new top, which keeps
\* its kind and, when it was called by a frame of its node, its timestamp.
LEMMA BecomesStack ==
  ASSUME CheckTypeOK, StackInv, depth > 0, NEW f \in Frame, Becomes(f),
         FrameInv(f), f.pc # "wait", f.kind = Top.kind, f.node = Top.node,
         depth > 1 /\ f.kind = "nested" => f.ts = Top.ts
  PROVE  StackInv'
<1> USE DEF Becomes
<1>1. /\ DOMAIN frames' = 1..depth /\ depth' = depth /\ depth \in Nat
      /\ frames'[depth] = f
      /\ \A i \in 1..depth : i # depth => frames'[i] = frames[i]
  BY DEF CheckTypeOK
<1>2. ASSUME NEW i \in 1..depth PROVE FrameInv(frames[i])'
  BY <1>1 DEF StackInv, FrameInv, Home
<1>3. ASSUME NEW i \in 1..depth - 1 PROVE CallInv(frames[i], frames[i + 1])'
  <2>1. i # depth /\ i \in 1..depth /\ i + 1 \in 1..depth
    BY <1>1
  <2>2. CallInv(frames[i], frames[i + 1])
    BY DEF StackInv
  <2>3. CASE i + 1 = depth
    <3>1. Top = frames[i + 1]
      BY <2>3 DEF Top
    <3> QED
      BY <1>1, <2>1, <2>2, <2>3, <3>1 DEF CallInv
  <2>4. CASE i + 1 # depth
    BY <1>1, <2>1, <2>2, <2>4 DEF CallInv
  <2> QED
    BY <2>3, <2>4
<1>4. (~disturbed => Settled)'
  BY DEF StackInv, Settled, membershipVars
<1>6. (depth > 0 => Top.pc # "wait")'
  BY <1>1 DEF Top
<1> QED
  BY <1>1, <1>2, <1>3, <1>4, <1>6 DEF StackInv

\* The stack's top calls: it waits, with its snapshot chosen.
LEMMA PushStack ==
  ASSUME CheckTypeOK, StackInv, depth > 0, NEW f \in Frame, Push(f), FrameInv(f),
         Top.pc \notin {"enter", "done"}, f.pc # "wait", f.kind # "client",
         f.kind = "nested" => f.ts = Top.ts /\ f.ts # 0 /\ f.node = Top.node,
         ~disturbed => ~(Top.kind = "proxied" /\ f.kind = "proxied")
  PROVE  StackInv'
<1> USE DEF Push
<1> DEFINE g == [Top EXCEPT !.pc = "wait"]
<1>1. Top \in Frame /\ Top = frames[depth] /\ FrameInv(Top)
  BY DEF CheckTypeOK, Top, StackInv
<1>2. /\ g.pc = "wait" /\ g.kind = Top.kind /\ g.ts = Top.ts /\ g.sum = Top.sum
      /\ g.node = Top.node /\ g.object = Top.object /\ g.result = Top.result
      /\ g.failedAt = Top.failedAt
  BY <1>1 DEF Frame
<1>3. FrameInv(g)
  BY <1>1, <1>2 DEF FrameInv, Home
<1> HIDE DEF g
<1>4. /\ depth' = depth + 1 /\ depth \in Nat
      /\ frames'[depth + 1] = f
      /\ frames'[depth] = g
      /\ \A i \in 1..depth - 1 : frames'[i] = frames[i]
  BY DEF CheckTypeOK, g
<1>5. ASSUME NEW i \in 1..depth' PROVE FrameInv(frames[i])'
  <2>1. frames'[i] = f \/ frames'[i] = g \/ (i \in 1..depth /\ frames'[i] = frames[i])
    BY <1>4
  <2>2. PICK h : frames'[i] = h /\ FrameInv(h)
    BY <1>3, <2>1 DEF StackInv
  <2> QED
    BY <2>2 DEF FrameInv, Home
<1>6. ASSUME NEW i \in 1..depth' - 1 PROVE CallInv(frames[i], frames[i + 1])'
  <2>1. CASE i = depth
    BY <1>2, <1>4, <2>1 DEF CallInv
  <2>2. CASE i = depth - 1
    <3>1. CallInv(frames[i], Top) /\ i \in 1..depth - 1 /\ i + 1 = depth
      BY <1>1, <1>4, <2>2 DEF StackInv
    <3> QED
      BY <1>2, <1>4, <3>1 DEF CallInv
  <2>3. CASE i # depth /\ i # depth - 1
    <3>0. i \in Nat /\ i >= 1 /\ i <= depth
      BY <1>4
    <3> HIDE DEF Push
    <3>1. i \in 1..depth - 1 /\ i + 1 \in 1..depth - 1
      BY <1>4, <2>3, <3>0
    <3>2. CallInv(frames[i], frames[i + 1])
      BY <3>1 DEF StackInv
    <3> QED
      BY <1>4, <3>1, <3>2 DEF CallInv, Push
  <2> QED
    BY <2>1, <2>2, <2>3
<1>7. (~disturbed => Settled)'
  BY DEF StackInv, Settled, membershipVars
<1>9. (depth > 0 => Top.pc # "wait")'
  BY <1>4 DEF Top
<1> QED
  BY <1>5, <1>6, <1>7, <1>9 DEF StackInv

\* A frame hears from its callee, or that it is gone with its node.
LEMMA ResumeStack ==
  ASSUME CheckTypeOK, StackInv, NEW k \in 1..depth - 1, NEW f \in Frame, Resume(k, f),
         f.kind = frames[k].kind, f.node = frames[k].node, f.ts = frames[k].ts, f.ts # 0,
         f.pc \in {"eval", "retry", "done"}, ~disturbed' => FrameInv(f),
         UNCHANGED cancelled, disturbed' = disturbed \/ disturbed' = TRUE,
         (~disturbed => Settled)'
  PROVE  StackInv'
<1> USE DEF Resume
<1>1. /\ depth' = k /\ depth \in Nat /\ k \in Nat
      /\ frames'[k] = f
      /\ \A i \in 1..k - 1 : frames'[i] = frames[i]
  BY DEF CheckTypeOK
<1>2. ASSUME NEW i \in 1..k PROVE FrameInv(frames[i])'
  <2>1. frames'[i] = f \/ (i \in 1..depth /\ frames'[i] = frames[i])
    BY <1>1
  <2>2. CASE frames'[i] = f
    BY <2>2 DEF FrameInv, Home
  <2>3. CASE i \in 1..depth /\ frames'[i] = frames[i]
    <3>1. FrameInv(frames[i])
      BY <2>3 DEF StackInv
    <3> QED
      BY <2>3, <3>1 DEF FrameInv, Home
  <2> QED
    BY <2>1, <2>2, <2>3
<1>3. ASSUME NEW i \in 1..k - 1 PROVE CallInv(frames[i], frames[i + 1])'
  <2>1. i \in 1..depth - 1 /\ CallInv(frames[i], frames[i + 1])
    BY <1>1 DEF StackInv
  <2>2. CASE i + 1 = k
    BY <1>1, <2>1, <2>2 DEF CallInv
  <2>3. CASE i + 1 # k
    BY <1>1, <2>1, <2>3 DEF CallInv
  <2> QED
    BY <2>2, <2>3
<1>4. (depth > 0 => Top.pc # "wait")'
  BY <1>1 DEF Top
<1> QED
  BY <1>1, <1>2, <1>3, <1>4 DEF StackInv

\* In a settled cluster the owner of an object is its home, and has a client.
LEMMA SettledOwner ==
  ASSUME MembershipTypeOK, Reachable, Settled, NEW f \in Frame
  PROVE  /\ Owner(f) = Home(f)
         /\ Checksum(f.node) = Node
         /\ \A m \in Node : m # f.node => HasClient(f.node, m)
<1>1. f.node \in Node /\ f.node \in up /\ ring[f.node] = Node /\ callback[f.node].kind = "none"
  BY DEF Frame, Settled
<1>2. ASSUME NEW m \in Node, m # f.node
      PROVE  HasClient(f.node, m)
  <2>1. callback[f.node] # [kind |-> "leave", member |-> m]
    BY <1>1
  <2> QED
    BY <1>1, <1>2, <2>1 DEF Reachable, RingMembersHaveClients
<1> QED
  BY <1>1, <1>2 DEF Owner, Home, Checksum

\* Every step keeps the invariant of the stack.
LEMMA StackStep ==
  ASSUME MembershipTypeOK, Reachable, CheckTypeOK, StackInv, [Next]_vars
  PROVE  StackInv'
<1> USE CheckAssumption, MembershipAssumption
<1>0. depth > 0 => /\ Top \in Frame /\ FrameInv(Top) /\ depth \in 1..depth
                   /\ Top = frames[depth]
  BY DEF CheckTypeOK, Top, StackInv
<1>a. disturbed \/ Settled
  BY DEF StackInv
<1>b. depth > 0 => Owner(Top) \in Node /\ (~disturbed => Owner(Top) = Home(Top))
  <2>1. depth > 0 => Owner(Top) \in Node
    BY <1>0 DEF Owner, Frame, MembershipTypeOK
  <2>2. depth > 0 /\ ~disturbed => Owner(Top) = Home(Top)
    BY <1>0, <1>a, SettledOwner
  <2> QED
    BY <2>1, <2>2
<1>1. ASSUME depth > 0, Top.pc \notin {"enter", "done"}, Top.kind = "proxied" => disturbed,
             Goto("retry")
      PROVE  StackInv'
  <2> DEFINE f == [Top EXCEPT !.pc = "retry"]
  <2>1. f \in Frame /\ f.pc = "retry" /\ f.kind = Top.kind /\ f.ts = Top.ts
        /\ f.sum = Top.sum /\ f.result = Top.result /\ f.failedAt = Top.failedAt /\ f.node = Top.node
    BY <1>0, <1>1 DEF Frame, Location
  <2> HIDE DEF f
  <2>2. FrameInv(f)
    BY <1>0, <1>1, <2>1 DEF FrameInv
  <2>3. Becomes(f)
    BY <1>1 DEF Goto, f
  <2> QED
    BY <1>1, <2>1, <2>2, <2>3, BecomesStack
<1>2. ASSUME depth > 0, Top.pc \notin {"enter", "done"}, Goto("eval")
      PROVE  StackInv'
  <2> DEFINE f == [Top EXCEPT !.pc = "eval"]
  <2>1. f \in Frame /\ f.pc = "eval" /\ f.kind = Top.kind /\ f.ts = Top.ts
        /\ f.sum = Top.sum /\ f.result = Top.result /\ f.failedAt = Top.failedAt
        /\ f.node = Top.node /\ f.object = Top.object
    BY <1>0, <1>2 DEF Frame, Location
  <2> HIDE DEF f
  <2>2. FrameInv(f)
    BY <1>0, <1>2, <2>1 DEF FrameInv, Home
  <2>3. Becomes(f)
    BY <1>2 DEF Goto, f
  <2> QED
    BY <1>2, <2>1, <2>2, <2>3, BecomesStack
<1>3. ASSUME depth > 0, NEW r \in Result, r = "internal" => disturbed \/ cancelled,
             Finish(r)
      PROVE  StackInv'
  <2> DEFINE f == [Top EXCEPT !.pc = "done", !.result = r]
  <2>1. f \in Frame /\ f.pc = "done" /\ f.kind = Top.kind /\ f.ts = Top.ts
        /\ f.sum = Top.sum /\ f.result = r
        /\ f.node = Top.node /\ f.object = Top.object
    BY <1>0, <1>3 DEF Frame, Location
  <2> HIDE DEF f
  <2>2. FrameInv(f)
    BY <1>0, <1>3, <2>1 DEF FrameInv, Home
  <2>3. Becomes(f)
    BY <1>3 DEF Finish, f
  <2> QED
    BY <1>3, <2>1, <2>2, <2>3, BecomesStack
<1>4. CASE RefuseChecksum
  <2>1. disturbed
    BY <1>0, <1>a, <1>4, SettledOwner DEF RefuseChecksum, At, ChecksumDiffers, FrameInv
  <2> QED
    BY <1>3, <1>4, <2>1 DEF RefuseChecksum, At, Result
<1>5. CASE Enter
  <2> DEFINE ts == SnapshotTimestamp(Top)
             f == [Top EXCEPT !.ts = ts, !.pc = "locate"]
  <2>1. depth > 0 /\ Top.pc = "enter" /\ ts \in 0..MaxVersion
        /\ (Top.ts # 0 => ts = Top.ts)
    BY <1>0, <1>5 DEF Enter, At, SnapshotTimestamp, CheckTypeOK, Frame
  <2>2. \/ Finish("undefined")
        \/ Finish("answer")
        \/ ts # 0 /\ Becomes(f)
    BY <1>5 DEF Enter
  <2>3. ASSUME ts # 0, Becomes(f)
        PROVE  StackInv'
    <3>0. Top.kind = "nested" => ts = Top.ts \/ depth = 1
      <4>1. CASE depth = 1
        BY <4>1
      <4>2. CASE depth # 1
        <5>1. depth - 1 \in 1..depth - 1 /\ (depth - 1) + 1 = depth
          BY <1>0, <2>1, <4>2 DEF CheckTypeOK
        <5>2. CallInv(frames[depth - 1], Top)
          BY <1>0, <2>1, <5>1 DEF StackInv
        <5> QED
          BY <2>1, <5>2 DEF CallInv
      <4> QED
        BY <4>1, <4>2
    <3> HIDE DEF ts
    <3>1. f \in Frame /\ f.pc = "locate" /\ f.kind = Top.kind /\ f.ts = ts
          /\ f.sum = Top.sum /\ f.result = Top.result /\ f.failedAt = Top.failedAt
          /\ f.node = Top.node /\ f.object = Top.object
      BY <1>0, <2>1 DEF Frame, Location
    <3> HIDE DEF f
    <3>2. FrameInv(f)
      BY <1>0, <2>1, <2>3, <3>1 DEF FrameInv, Home
    <3> QED
      BY <2>1, <2>3, <3>0, <3>1, <3>2, BecomesStack
  <2> QED
    BY <1>3, <2>1, <2>2, <2>3 DEF Result
<1>6. CASE Locate
  <2> DEFINE owner == Owner(Top)
             f == [Top EXCEPT !.owner = owner,
                              !.pc = IF owner = Top.node THEN "eval" ELSE "client"]
  <2>1. depth > 0 /\ Top.pc = "locate" /\ owner \in Node /\ (~disturbed => owner = Home(Top))
    BY <1>b, <1>6 DEF Locate, At
  <2>2. Becomes(f)
    BY <1>6 DEF Locate
  <2> HIDE DEF owner
  <2>3. /\ f \in Frame /\ f.kind = Top.kind /\ f.ts = Top.ts
        /\ f.pc = (IF owner = Top.node THEN "eval" ELSE "client")
        /\ f.sum = Top.sum /\ f.result = Top.result /\ f.failedAt = Top.failedAt /\ f.owner = owner
        /\ f.node = Top.node /\ f.object = Top.object
    BY <1>0, <2>1 DEF Frame, Location
  <2> HIDE DEF f
  <2>4. FrameInv(f)
    BY <1>0, <2>1, <2>3 DEF FrameInv, Home
  <2> QED
    BY <2>1, <2>2, <2>3, <2>4, BecomesStack
<1>7. CASE GetClient
  <2> DEFINE c == clients[Top.node][Top.owner]
             f == [Top EXCEPT !.conn = c, !.pc = "stamp"]
  <2>1. depth > 0 /\ Top.pc = "client" /\ Top.owner \in Node /\ c \in 0..MaxAddr
    BY <1>0, <1>7 DEF GetClient, At, Frame, MembershipTypeOK
  <2>2. CASE ~HasClient(Top.node, Top.owner)
    <3>1. disturbed
      BY <1>0, <1>a, <2>1, <2>2, SettledOwner DEF FrameInv
    <3> QED
      BY <1>3, <1>7, <2>1, <2>2, <3>1 DEF GetClient, Result
  <2>3. CASE HasClient(Top.node, Top.owner)
    <3>1. Becomes(f)
      BY <1>7, <2>3 DEF GetClient
    <3> HIDE DEF c
    <3>2. /\ f \in Frame /\ f.kind = Top.kind /\ f.ts = Top.ts /\ f.pc = "stamp"
          /\ f.sum = Top.sum /\ f.result = Top.result /\ f.failedAt = Top.failedAt /\ f.owner = Top.owner
          /\ f.node = Top.node /\ f.object = Top.object
      BY <1>0, <2>1 DEF Frame, Location
    <3> HIDE DEF f
    <3>3. FrameInv(f)
      BY <1>0, <2>1, <3>2 DEF FrameInv, Home
    <3> QED
      BY <2>1, <3>1, <3>2, <3>3, BecomesStack
  <2> QED
    BY <2>2, <2>3
<1>8. CASE NewContextWithChecksum
  <2> DEFINE sum == Checksum(Top.node)
             f == [Top EXCEPT !.sum = sum, !.pc = "call"]
  <2>1. depth > 0 /\ Top.pc = "stamp" /\ sum \in SUBSET Node /\ (~disturbed => sum = Node)
    BY <1>0, <1>a, <1>8, SettledOwner
    DEF NewContextWithChecksum, At, Checksum, Frame, MembershipTypeOK
  <2>2. Becomes(f)
    BY <1>8 DEF NewContextWithChecksum
  <2> HIDE DEF sum
  <2>3. /\ f \in Frame /\ f.kind = Top.kind /\ f.ts = Top.ts /\ f.pc = "call"
        /\ f.sum = sum /\ f.result = Top.result /\ f.failedAt = Top.failedAt /\ f.owner = Top.owner
        /\ f.node = Top.node /\ f.object = Top.object
    BY <1>0, <2>1 DEF Frame, Location
  <2> HIDE DEF f
  <2>4. FrameInv(f)
    BY <1>0, <2>1, <2>3 DEF FrameInv, Home
  <2> QED
    BY <2>1, <2>2, <2>3, <2>4, BecomesStack
<1>9. CASE CallClient
  <2> DEFINE f == NewFrame("proxied", Top.owner, Top.object, {}, 0)
  <2>1. depth > 0 /\ Top.pc = "call" /\ Top.owner \in Node /\ Top.object \in Object
    BY <1>0, <1>9 DEF CallClient, At, Frame
  <2>2. f \in Frame /\ Push(f)
    BY <1>9, <2>1, NewFrameType DEF CallClient
  <2>3. /\ f.kind = "proxied" /\ f.ts = 0 /\ f.pc = "enter" /\ f.sum = {}
        /\ f.result = "none" /\ f.node = Top.owner /\ f.object = Top.object
    BY DEF NewFrame
  <2> HIDE DEF f
  <2>4. FrameInv(f)
    BY <1>0, <2>1, <2>3 DEF FrameInv, Home
  <2>5. ~disturbed => Top.kind # "proxied"
    BY <1>0, <2>1 DEF FrameInv
  <2> QED
    BY <2>1, <2>2, <2>3, <2>4, <2>5, PushStack
<1>10. CASE CallFails
  <2>1. depth > 0 /\ Top.pc = "call" /\ (Goto("eval") \/ Goto("retry"))
    BY <1>10 DEF CallFails, At, AfterFailure
  <2>2. Top.kind = "proxied" => disturbed
    BY <1>0, <2>1 DEF FrameInv
  <2> QED
    BY <1>1, <1>2, <2>1, <2>2
<1>11. CASE Retry
  <2> DEFINE owner == Owner(Top)
             f == [Top EXCEPT !.retries = @ + 1, !.owner = owner, !.pc = "reclient"]
  <2>1. depth > 0 /\ Top.pc = "retry" /\ owner \in Node /\ (~disturbed => owner = Home(Top))
    BY <1>b, <1>11 DEF Retry, At
  <2>2. Top.retries \in 0..Retries + 1
    BY <1>0, <2>1 DEF Frame
  <2>3. Goto("eval") \/ (Top.retries <= Retries /\ Becomes(f))
    BY <1>11, <2>2 DEF Retry
  <2> HIDE DEF owner
  <2>4. ASSUME Top.retries <= Retries, Becomes(f)
        PROVE  StackInv'
    <3>1. Top.retries + 1 \in 0..Retries + 1 /\ "reclient" \in Location
      BY <2>2, <2>4 DEF Location
    <3>2. /\ f \in Frame /\ f.kind = Top.kind /\ f.ts = Top.ts /\ f.pc = "reclient"
          /\ f.sum = Top.sum /\ f.result = Top.result /\ f.failedAt = Top.failedAt /\ f.owner = owner
          /\ f.node = Top.node /\ f.object = Top.object
      BY <1>0, <2>1, <3>1 DEF Frame
    <3> HIDE DEF f
    <3>3. FrameInv(f)
      BY <1>0, <2>1, <3>2 DEF FrameInv, Home
    <3> QED
      BY <2>1, <2>4, <3>2, <3>3, BecomesStack
  <2> QED
    BY <1>2, <2>1, <2>3, <2>4
<1>12. CASE GetClientAgain
  <2> DEFINE c == clients[Top.node][Top.owner]
             f == [Top EXCEPT !.conn = c, !.pc = "call"]
  <2>1. depth > 0 /\ Top.pc = "reclient" /\ Top.owner \in Node /\ c \in 0..MaxAddr
    BY <1>0, <1>12 DEF GetClientAgain, At, Frame, MembershipTypeOK
  <2>2. Goto("retry") \/ Becomes(f)
    BY <1>12 DEF GetClientAgain
  <2>3. Top.kind = "proxied" => disturbed
    BY <1>0, <2>1 DEF FrameInv
  <2> HIDE DEF c
  <2>4. /\ f \in Frame /\ f.kind = Top.kind /\ f.ts = Top.ts /\ f.pc = "call"
        /\ f.sum = Top.sum /\ f.result = Top.result /\ f.failedAt = Top.failedAt /\ f.owner = Top.owner
        /\ f.node = Top.node /\ f.object = Top.object
    BY <1>0, <2>1 DEF Frame, Location
  <2> HIDE DEF f
  <2>5. FrameInv(f)
    BY <1>0, <2>1, <2>4 DEF FrameInv, Home
  <2> QED
    BY <1>1, <2>1, <2>2, <2>3, <2>4, <2>5, BecomesStack
<1>13. CASE Evaluate
  BY <1>3, <1>13 DEF Evaluate, At, Result
<1>25. CASE QueryFails
  <2> DEFINE f == [Top EXCEPT !.pc = "done", !.result = "internal", !.failedAt = {Top.node}]
  <2>1. depth > 0 /\ {Top.node} \in SUBSET Node
    BY <1>0, <1>25 DEF QueryFails, At, Frame
  <2>2. Becomes(f)
    BY <1>25 DEF QueryFails
  <2>3. f \in Frame /\ f.pc = "done" /\ f.kind = Top.kind /\ f.ts = Top.ts
        /\ f.sum = Top.sum /\ f.failedAt = {f.node}
        /\ f.node = Top.node /\ f.object = Top.object
    BY <1>0, <2>1 DEF Frame, Location, Result
  <2> HIDE DEF f
  <2>4. FrameInv(f)
    BY <1>0, <2>1, <2>3 DEF FrameInv, Home
  <2> QED
    BY <2>1, <2>2, <2>3, <2>4, BecomesStack
<1>14. ASSUME NEW o \in Object, EvaluateNested(o)
       PROVE  StackInv'
  <2> DEFINE f == NewFrame("nested", Top.node, o, Top.sum, Top.ts)
  <2>1. depth > 0 /\ Top.pc = "eval" /\ Top.node \in Node
        /\ Top.sum \in SUBSET Node /\ Top.ts \in 0..MaxVersion
    BY <1>0, <1>14 DEF EvaluateNested, At, Frame
  <2>2. f \in Frame /\ Push(f)
    BY <1>14, <2>1, NewFrameType DEF EvaluateNested
  <2>3. /\ f.kind = "nested" /\ f.ts = Top.ts /\ f.pc = "enter" /\ f.sum = Top.sum
        /\ f.result = "none" /\ f.node = Top.node
    BY DEF NewFrame
  <2> HIDE DEF f
  <2>4. FrameInv(f) /\ Top.ts # 0
    BY <1>0, <2>1, <2>3 DEF FrameInv
  <2> QED
    BY <2>1, <2>2, <2>3, <2>4, PushStack
<1>15. ASSUME NEW k \in 1..depth - 1, NEW loc \in AfterFailure,
              frames[k + 1].kind = "proxied" \/ disturbed' = TRUE,
              Resume(k, [frames[k] EXCEPT !.pc = loc]),
              UNCHANGED cancelled, disturbed' = disturbed \/ disturbed' = TRUE,
              (~disturbed => Settled)'
       PROVE  StackInv'
  <2> DEFINE f == [frames[k] EXCEPT !.pc = loc]
  <2>1. frames[k] \in Frame /\ FrameInv(frames[k]) /\ CallInv(frames[k], frames[k + 1])
    BY DEF CheckTypeOK, StackInv
  <2>2. /\ f \in Frame /\ f.kind = frames[k].kind /\ f.ts = frames[k].ts /\ f.pc = loc
        /\ f.sum = frames[k].sum /\ f.result = frames[k].result /\ f.failedAt = frames[k].failedAt
        /\ f.owner = frames[k].owner
        /\ f.node = frames[k].node /\ f.object = frames[k].object
    BY <2>1 DEF Frame, Location, AfterFailure
  <2>3. Resume(k, f)
    BY <1>15
  <2> HIDE DEF f
  <2>4. loc \in {"eval", "retry"}
    BY DEF AfterFailure
  <2>5. f.ts # 0
    BY <2>1, <2>2 DEF FrameInv, CallInv
  <2>6. ~disturbed' => FrameInv(f)
    BY <1>15, <2>1, <2>2, <2>4, <2>5 DEF FrameInv, CallInv, Home
  <2> QED
    BY <1>15, <2>2, <2>3, <2>4, <2>5, <2>6, ResumeStack
<1>16. CASE Return
  <2>1. /\ depth > 0 /\ Top.pc = "done" /\ UNCHANGED <<cancelled, disturbed>>
        /\ Settled' = Settled /\ Top.result \in Result \cup {"none"}
        /\ Top.failedAt \in SUBSET Node
    BY <1>0, <1>16 DEF Return, At, Settled, membershipVars, Frame
  <2>2. (~disturbed => Settled)'
    BY <1>a, <2>1
  <2>3. CASE depth = 1
    <3>1. depth' = 0 /\ outcome' = Top.result
      BY <1>16, <2>3 DEF Return
    <3> QED
      BY <2>2, <3>1 DEF StackInv
  <2>4. CASE depth # 1
    <3> DEFINE k == depth - 1
               f == [frames[k] EXCEPT !.pc = "done", !.result = Top.result,
                                    !.failedAt = Top.failedAt]
    <3>1. k \in 1..depth - 1 /\ k + 1 = depth /\ frames[k + 1] = Top
      BY <1>0, <2>1, <2>4 DEF CheckTypeOK
    <3>3. \/ /\ Top.kind = "proxied"
             /\ \E loc \in AfterFailure : Resume(k, [frames[k] EXCEPT !.pc = loc])
          \/ (Top.kind # "proxied" \/ Top.result = "answer") /\ Resume(k, f)
      BY <1>16, <2>4 DEF Return
    <3>4. CASE (Top.kind # "proxied" \/ Top.result = "answer") /\ Resume(k, f)
      <4>1. frames[k] \in Frame /\ FrameInv(frames[k]) /\ CallInv(frames[k], frames[k + 1])
        BY <3>1 DEF CheckTypeOK, StackInv
      <4> HIDE DEF k
      <4>2. /\ f \in Frame /\ f.kind = frames[k].kind /\ f.ts = frames[k].ts /\ f.pc = "done"
            /\ f.sum = frames[k].sum /\ f.result = Top.result /\ f.failedAt = Top.failedAt
            /\ f.node = frames[k].node /\ f.object = frames[k].object
        BY <2>1, <4>1 DEF Frame, Location
      <4> HIDE DEF f
      <4>3. f.ts # 0
        BY <4>1, <4>2 DEF FrameInv, CallInv
      <4>4. f.result = "internal" => f.node = Top.node
        <5>1. Top.kind \in {"client", "proxied", "nested"} /\ frames[k + 1] = Top
          BY <1>0, <2>1, <3>1 DEF Frame
        <5> QED
          BY <3>4, <4>1, <4>2, <5>1 DEF CallInv
      <4>5. ~disturbed' => FrameInv(f)
        BY <1>0, <2>1, <4>1, <4>2, <4>3, <4>4 DEF FrameInv, Home
      <4> QED
        BY <2>1, <2>2, <3>1, <3>4, <4>2, <4>3, <4>5, ResumeStack
    <3> HIDE DEF k, f
    <3>5. ASSUME Top.kind = "proxied", NEW loc \in AfterFailure,
                 Resume(k, [frames[k] EXCEPT !.pc = loc])
          PROVE  StackInv'
      BY <1>15, <2>1, <2>2, <3>1, <3>5
    <3> QED
      BY <3>3, <3>4, <3>5
  <2> QED
    BY <2>3, <2>4
<1>17. ASSUME NEW n \in Node, NEW o \in Object, Check(n, o)
       PROVE  StackInv'
  <2> DEFINE f == NewFrame("client", n, o, {}, 0)
  <2>1. /\ depth' = 1 /\ frames' = [i \in 1..1 |-> f] /\ outcome' = "none"
        /\ disturbed' = ~Settled /\ Settled' = Settled
    BY <1>17 DEF Check, Settled, membershipVars
  <2>2. /\ f.kind = "client" /\ f.ts = 0 /\ f.pc = "enter" /\ f.sum = {}
        /\ f.result = "none"
    BY DEF NewFrame
  <2> HIDE DEF f
  <2>3. frames'[1] = f /\ \A i \in 1..1 : i = 1
    BY <2>1
  <2>4. FrameInv(frames[1])'
    BY <2>2, <2>3 DEF FrameInv
  <2>5. (~disturbed => Settled)'
    BY <2>1
  <2>7. (depth > 0 => Top.pc # "wait")'
    BY <2>1, <2>2, <2>3 DEF Top
  <2>8. (\A i \in 1..depth : FrameInv(frames[i]))'
    BY <2>1, <2>3, <2>4
  <2>9. (\A i \in 1..depth - 1 : CallInv(frames[i], frames[i + 1]))'
    BY <2>1
  <2> QED
    BY <2>5, <2>7, <2>8, <2>9 DEF StackInv
<1>18. ASSUME NEW i \in 1..MaxDepth, CallBreaks(i)
       PROVE  StackInv'
  <2>1. /\ i \in 1..depth - 1 /\ frames[i + 1].kind = "proxied"
        /\ UNCHANGED <<cancelled, outcome, disturbed>> /\ Settled' = Settled
    BY <1>18 DEF CallBreaks, Settled, membershipVars
  <2>2. PICK loc \in AfterFailure : Resume(i, [frames[i] EXCEPT !.pc = loc])
    BY <1>18 DEF CallBreaks
  <2>3. (~disturbed => Settled)'
    BY <1>a, <2>1
  <2> QED
    BY <1>15, <2>1, <2>2, <2>3
<1>19. ASSUME UNCHANGED <<frames, depth, outcome>>, UNCHANGED cancelled \/ cancelled',
              disturbed' \/ (disturbed' = disturbed /\ UNCHANGED membershipVars)
       PROVE  StackInv'
  <2>1. (~disturbed => Settled)'
    BY <1>a, <1>19 DEF Settled, membershipVars
  <2>2. ASSUME NEW i \in 1..depth PROVE FrameInv(frames[i])'
    <3>1. FrameInv(frames[i])
      BY DEF StackInv
    <3> QED
      BY <1>19, <3>1 DEF FrameInv, Home
  <2>3. ASSUME NEW i \in 1..depth - 1 PROVE CallInv(frames[i], frames[i + 1])'
    <3>1. CallInv(frames[i], frames[i + 1])
      BY DEF StackInv
    <3> QED
      BY <1>19, <3>1 DEF CallInv
  <2>4. (depth > 0 => Top.pc # "wait")'
    BY <1>19 DEF StackInv, Top
  <2> QED
    BY <1>19, <2>1, <2>2, <2>3, <2>4 DEF StackInv
<1>20. CASE Cancel
  BY <1>19, <1>20 DEF Cancel
<1>21. ASSUME NEW n \in Node, NewSnapshot(n)
       PROVE  StackInv'
  BY <1>19, <1>21 DEF NewSnapshot
<1>22. ASSUME NEW n \in Node, Dies(n)
       PROVE  StackInv'
  <2>1. disturbed' = TRUE /\ UNCHANGED cancelled
    BY <1>22 DEF Dies
  <2>2. CASE UNCHANGED <<frames, depth, outcome>>
    BY <1>19, <2>1, <2>2
  <2>3. CASE depth' = 0 /\ frames' = <<>> /\ outcome' = "lost"
    BY <2>1, <2>3 DEF StackInv
  <2>4. ASSUME NEW i \in 1..depth, i # 1, NEW loc \in AfterFailure,
               Resume(i - 1, [frames[i - 1] EXCEPT !.pc = loc]), UNCHANGED outcome
        PROVE  StackInv'
    <3>1. i - 1 \in 1..depth - 1
      BY <2>4 DEF CheckTypeOK
    <3> QED
      BY <1>15, <2>1, <2>4, <3>1
  <2> QED
    BY <1>22, <2>2, <2>3, <2>4 DEF Dies
<1>23. CASE MembershipChanges
  BY <1>19, <1>23 DEF MembershipChanges
<1>24. CASE UNCHANGED vars
  BY <1>19, <1>24 DEF vars, checkVars
<1> QED
  BY <1>4, <1>5, <1>6, <1>7, <1>8, <1>9, <1>10, <1>11, <1>12, <1>13, <1>14, <1>16,
     <1>17, <1>18, <1>20, <1>21, <1>22, <1>23, <1>24, <1>25 DEF Next, CheckStep

\* The invariant of the stack holds whatever the cluster does.
LEMMA AlwaysStackInv == Spec => [](CheckTypeOK /\ StackInv)
<1>1. Init => StackInv
  BY DEF Init, MembershipInit, StackInv, Settled, Quiet
<1>2. Spec => []MembershipTypeOK
  BY ImplementsMembership, MembershipTypeCorrect, PTL
<1>3. MembershipInit => Reachable
  BY DEF MembershipInit, Reachable, JoiningHasClient, RingMembersHaveClients,
         HasClient, Quiet
<1>4. Spec => []Reachable
  BY <1>3, ReachableStep, MembershipTypeCorrect, ImplementsMembership, PTL
  DEF MembershipSpec
<1>5. Spec => []CheckTypeOK
  <2>1. TypeOK => CheckTypeOK
    BY DEF TypeOK, CheckTypeOK
  <2> QED
    BY <2>1, TypeCorrect, PTL
<1> QED
  BY <1>1, <1>2, <1>4, <1>5, StackStep, PTL DEF Spec

\* A check and the nested checks of its node read one version of the config, for
\* any cluster, any depth and any number of retries.
THEOREM AlwaysNestedSameSnapshot == Spec => []NestedSameSnapshot
<1>1. CheckTypeOK /\ StackInv => NestedSameSnapshot
  <2> SUFFICES ASSUME CheckTypeOK, StackInv, NEW i \in 2..depth, frames[i].kind = "nested"
               PROVE  frames[i].ts = frames[i - 1].ts /\ frames[i].ts # 0
    BY DEF NestedSameSnapshot
  <2>1. i - 1 \in 1..depth - 1 /\ (i - 1) + 1 = i
    BY DEF CheckTypeOK
  <2>2. CallInv(frames[i - 1], frames[i])
    BY <2>1 DEF StackInv
  <2> QED
    BY <2>2 DEF CallInv
<1> QED
  BY <1>1, AlwaysStackInv, PTL

\* In a settled cluster a check that the client waits for fails with an internal
\* error only when a query of the node that answers it failed, whatever calls and
\* queries fail at the peers it is forwarded to.
THEOREM AlwaysInternalIsOwnFailure == Spec => []InternalIsOwnFailure
<1>1. CheckTypeOK /\ StackInv => InternalIsOwnFailure
  BY DEF StackInv, FrameInv, InternalIsOwnFailure
<1> QED
  BY <1>1, AlwaysStackInv, PTL

\* A settled cluster forwards a check once.
THEOREM AlwaysSettledForwardsOnce == Spec => []SettledForwardsOnce
<1>1. CheckTypeOK /\ StackInv => SettledForwardsOnce
  <2> SUFFICES ASSUME CheckTypeOK, StackInv, NEW i \in 2..depth - 1,
                      frames[i].kind = "proxied", frames[i + 1].kind = "proxied"
               PROVE  disturbed
    BY DEF SettledForwardsOnce
  <2>1. CallInv(frames[i], frames[i + 1])
    BY DEF StackInv, CheckTypeOK
  <2> QED
    BY <2>1 DEF CallInv
<1> QED
  BY <1>1, AlwaysStackInv, PTL

-----------------------------------------------------------------------------
\* What a step may do to the calls that are under way
MovesOn ==
    \A i \in (1..depth) \cap (1..depth') :
        \/ frames'[i] = frames[i] /\ ProgressOf(i)' = ProgressOf(i)
        \/ ProgressOf(i)' > ProgressOf(i)

\* What the stages and the attempts amount to.
LEMMA ProgressValue ==
  ASSUME NEW f \in Frame, NEW k
  PROVE  /\ f.pc = "enter" => Progress(f, k) = 4 * f.retries
         /\ f.pc = "locate" => Progress(f, k) = 1 + 4 * f.retries
         /\ f.pc = "client" => Progress(f, k) = 2 + 4 * f.retries
         /\ f.pc = "stamp" => Progress(f, k) = 3 + 4 * f.retries
         /\ f.pc = "reclient" => Progress(f, k) = 4 + 4 * f.retries
         /\ f.pc = "call" => Progress(f, k) = 5 + 4 * f.retries
         /\ f.pc = "wait" /\ k = "proxied" => Progress(f, k) = 6 + 4 * f.retries
         /\ f.pc = "retry" => Progress(f, k) = 7 + 4 * f.retries
         /\ f.pc = "eval" => Progress(f, k) = 12 + 4 * Retries
         /\ f.pc = "wait" /\ k # "proxied" => Progress(f, k) = 13 + 4 * Retries
         /\ f.pc = "done" => Progress(f, k) = 14 + 4 * Retries
         /\ f.retries \in Nat /\ f.retries <= Retries + 1
<1>1. f.retries \in Nat /\ f.retries <= Retries + 1 /\ Retries \in Nat
  BY CheckAssumption DEF Frame
<1>2. /\ f.pc = "enter" => Stage(f, k) = 0
      /\ f.pc = "locate" => Stage(f, k) = 1
      /\ f.pc = "client" => Stage(f, k) = 2
      /\ f.pc = "stamp" => Stage(f, k) = 3
      /\ f.pc = "reclient" => Stage(f, k) = 4
      /\ f.pc = "call" => Stage(f, k) = 5
  BY DEF Stage
<1>3. /\ f.pc = "wait" /\ k = "proxied" => Stage(f, k) = 6
      /\ f.pc = "retry" => Stage(f, k) = 7
      /\ f.pc = "eval" => Stage(f, k) = 8
      /\ f.pc = "wait" /\ k # "proxied" => Stage(f, k) = 9
      /\ f.pc = "done" => Stage(f, k) = 10
  BY DEF Stage
<1>4. ASSUME NEW s \in Nat, Stage(f, k) = s
      PROVE  /\ s < 8 => Progress(f, k) = s + 4 * f.retries
             /\ s >= 8 => Progress(f, k) = s + 4 + 4 * Retries
  BY <1>1, <1>4 DEF Progress
<1> QED
  BY <1>1, <1>2, <1>3, <1>4

\* The top of the stack moves on.
LEMMA BecomesMoves ==
  ASSUME CheckTypeOK, StackInv, depth > 0, NEW f \in Frame, Becomes(f),
         f.kind = Top.kind, Progress(f, "none") > Progress(Top, "none")
  PROVE  MovesOn
<1>1. /\ DOMAIN frames' = 1..depth /\ depth' = depth /\ depth \in Nat
      /\ frames'[depth] = f /\ Top = frames[depth]
      /\ \A i \in 1..depth : i # depth => frames'[i] = frames[i]
  BY DEF CheckTypeOK, Becomes, Top
<1> SUFFICES ASSUME NEW i \in 1..depth
             PROVE  \/ frames'[i] = frames[i] /\ ProgressOf(i)' = ProgressOf(i)
                    \/ ProgressOf(i)' > ProgressOf(i)
  BY <1>1 DEF MovesOn
<1>2. CASE i = depth
  BY <1>1, <1>2 DEF ProgressOf, Callee
<1>3. CASE i # depth
  <2>1. i < depth /\ i + 1 \in 1..depth
    BY <1>1, <1>3
  <2>2. frames'[i] = frames[i] /\ frames'[i + 1].kind = frames[i + 1].kind
    BY <1>1, <1>3, <2>1
  <2> QED
    BY <1>1, <2>1, <2>2 DEF ProgressOf, Callee
<1> QED
  BY <1>2, <1>3

\* The top of the stack calls.
LEMMA PushMoves ==
  ASSUME CheckTypeOK, StackInv, depth > 0, NEW f \in Frame, Push(f),
         \/ Top.pc = "call" /\ f.kind = "proxied"
         \/ Top.pc = "eval" /\ f.kind = "nested"
  PROVE  MovesOn
<1> DEFINE g == [Top EXCEPT !.pc = "wait"]
<1>0. Top \in Frame /\ Top = frames[depth]
  BY DEF CheckTypeOK, Top
<1>1. g \in Frame /\ g.pc = "wait" /\ g.kind = Top.kind /\ g.retries = Top.retries
  BY <1>0 DEF Frame, Location
<1>2. /\ depth' = depth + 1 /\ depth \in Nat
      /\ frames'[depth + 1] = f
      /\ frames'[depth] = g
      /\ \A i \in 1..depth - 1 : frames'[i] = frames[i]
  BY DEF CheckTypeOK, Push
<1> HIDE DEF g
<1>3. Progress(g, f.kind) > Progress(Top, "none")
  BY <1>0, <1>1, ProgressValue, CheckAssumption
<1> SUFFICES ASSUME NEW i \in 1..depth
             PROVE  \/ frames'[i] = frames[i] /\ ProgressOf(i)' = ProgressOf(i)
                    \/ ProgressOf(i)' > ProgressOf(i)
  BY <1>2 DEF MovesOn
<1>4. CASE i = depth
  BY <1>0, <1>2, <1>3, <1>4 DEF ProgressOf, Callee
<1>5. CASE i # depth
  <2>1. i < depth /\ i \in 1..depth - 1 /\ (i + 1 \in 1..depth - 1 \/ i + 1 = depth)
    BY <1>2, <1>5
  <2>2. frames'[i] = frames[i] /\ frames'[i + 1].kind = frames[i + 1].kind
    BY <1>0, <1>1, <1>2, <2>1
  <2> QED
    BY <1>2, <2>1, <2>2 DEF ProgressOf, Callee
<1> QED
  BY <1>4, <1>5

\* A call hears from its callee, or that it is gone.
LEMMA ResumeMoves ==
  ASSUME CheckTypeOK, StackInv, NEW k \in 1..depth - 1, NEW f \in Frame, Resume(k, f),
         f.kind = frames[k].kind, f.retries = frames[k].retries,
         \/ f.pc \in {"eval", "retry"} /\ frames[k + 1].kind = "proxied"
         \/ f.pc = "done"
  PROVE  MovesOn
<1>1. /\ depth' = k /\ depth \in Nat /\ k \in Nat /\ k < depth /\ k >= 1
      /\ frames'[k] = f
      /\ \A i \in 1..k - 1 : frames'[i] = frames[i]
  BY DEF CheckTypeOK, Resume
<1>2. frames[k] \in Frame /\ frames[k].pc = "wait"
  BY DEF CheckTypeOK, StackInv, CallInv
<1>3. Progress(f, "none") > Progress(frames[k], frames[k + 1].kind)
  <2> DEFINE r == frames[k].retries
  <2>1. /\ r \in Nat /\ r <= Retries + 1 /\ Retries \in Nat
        /\ frames[k + 1].kind = "proxied" =>
            Progress(frames[k], frames[k + 1].kind) = 6 + 4 * r
        /\ frames[k + 1].kind # "proxied" =>
            Progress(frames[k], frames[k + 1].kind) = 13 + 4 * Retries
    BY <1>2, ProgressValue, CheckAssumption
  <2>2. /\ f.pc = "retry" => Progress(f, "none") = 7 + 4 * r
        /\ f.pc = "eval" => Progress(f, "none") = 12 + 4 * Retries
        /\ f.pc = "done" => Progress(f, "none") = 14 + 4 * Retries
    BY ProgressValue
  <2> QED
    BY <2>1, <2>2
<1> SUFFICES ASSUME NEW i \in 1..k
             PROVE  \/ frames'[i] = frames[i] /\ ProgressOf(i)' = ProgressOf(i)
                    \/ ProgressOf(i)' > ProgressOf(i)
  BY <1>1 DEF MovesOn
<1>4. CASE i = k
  BY <1>1, <1>3, <1>4 DEF ProgressOf, Callee
<1>5. CASE i # k
  <2>1. i < k /\ i < depth /\ i \in 1..k - 1 /\ (i + 1 \in 1..k - 1 \/ i + 1 = k)
    BY <1>1, <1>5
  <2>2. frames'[i] = frames[i] /\ frames'[i + 1].kind = frames[i + 1].kind
    BY <1>1, <2>1
  <2> QED
    BY <1>1, <2>1, <2>2 DEF ProgressOf, Callee
<1> QED
  BY <1>4, <1>5

\* No step sends a call back.
LEMMA MovesOnStep ==
  ASSUME MembershipTypeOK, CheckTypeOK, StackInv, [Next]_vars
  PROVE  MovesOn
<1> USE CheckAssumption, MembershipAssumption
<1>0. depth > 0 => Top \in Frame /\ depth \in 1..depth /\ Top = frames[depth]
  BY DEF CheckTypeOK, Top
<1>a. depth > 0 => Owner(Top) \in Node
  BY <1>0 DEF Owner, Frame, MembershipTypeOK
<1>1. ASSUME depth > 0, NEW loc \in Location, Goto(loc),
             \/ Top.pc = "call" /\ loc \in {"eval", "retry"}
             \/ Top.pc = "retry" /\ loc = "eval"
             \/ Top.pc = "reclient" /\ loc = "retry"
      PROVE  MovesOn
  <2> DEFINE f == [Top EXCEPT !.pc = loc]
  <2>1. f \in Frame /\ f.pc = loc /\ f.kind = Top.kind /\ f.retries = Top.retries
    BY <1>0, <1>1 DEF Frame
  <2>2. Becomes(f)
    BY <1>1 DEF Goto
  <2> HIDE DEF f
  <2>3. Progress(f, "none") > Progress(Top, "none")
    BY <1>0, <1>1, <2>1, ProgressValue
  <2> QED
    BY <1>1, <2>1, <2>2, <2>3, BecomesMoves
<1>2. ASSUME depth > 0, NEW r \in Result, Finish(r), Top.pc \in {"enter", "client", "eval"}
      PROVE  MovesOn
  <2> DEFINE f == [Top EXCEPT !.pc = "done", !.result = r]
  <2>1. f \in Frame /\ f.pc = "done" /\ f.kind = Top.kind
    BY <1>0, <1>2 DEF Frame, Location
  <2>2. Becomes(f)
    BY <1>2 DEF Finish
  <2> HIDE DEF f
  <2>3. Progress(f, "none") > Progress(Top, "none")
    BY <1>0, <1>2, <2>1, ProgressValue
  <2> QED
    BY <1>2, <2>1, <2>2, <2>3, BecomesMoves
<1>3. CASE RefuseChecksum
  BY <1>2, <1>3 DEF RefuseChecksum, At, Result
<1>4. CASE Enter
  <2> DEFINE ts == SnapshotTimestamp(Top)
             f == [Top EXCEPT !.ts = ts, !.pc = "locate"]
  <2>1. depth > 0 /\ Top.pc = "enter" /\ ts \in 0..MaxVersion
    BY <1>0, <1>4 DEF Enter, At, SnapshotTimestamp, CheckTypeOK, Frame
  <2>2. Finish("undefined") \/ Finish("answer") \/ Becomes(f)
    BY <1>4 DEF Enter
  <2> HIDE DEF ts
  <2>3. f \in Frame /\ f.pc = "locate" /\ f.kind = Top.kind /\ f.retries = Top.retries
    BY <1>0, <2>1 DEF Frame, Location
  <2> HIDE DEF f
  <2>4. Progress(f, "none") > Progress(Top, "none")
    BY <1>0, <2>1, <2>3, ProgressValue
  <2> QED
    BY <1>2, <2>1, <2>2, <2>3, <2>4, BecomesMoves DEF Result
<1>5. CASE Locate
  <2> DEFINE owner == Owner(Top)
             f == [Top EXCEPT !.owner = owner,
                              !.pc = IF owner = Top.node THEN "eval" ELSE "client"]
  <2>1. depth > 0 /\ Top.pc = "locate" /\ owner \in Node
    BY <1>a, <1>5 DEF Locate, At
  <2>2. Becomes(f)
    BY <1>5 DEF Locate
  <2> HIDE DEF owner
  <2>3. f \in Frame /\ f.pc \in {"eval", "client"} /\ f.kind = Top.kind
        /\ f.retries = Top.retries
    BY <1>0, <2>1 DEF Frame, Location
  <2> HIDE DEF f
  <2>4. Progress(f, "none") > Progress(Top, "none")
    BY <1>0, <2>1, <2>3, ProgressValue
  <2> QED
    BY <2>1, <2>2, <2>3, <2>4, BecomesMoves
<1>6. CASE GetClient
  <2> DEFINE c == clients[Top.node][Top.owner]
             f == [Top EXCEPT !.conn = c, !.pc = "stamp"]
  <2>1. depth > 0 /\ Top.pc = "client" /\ c \in 0..MaxAddr
    BY <1>0, <1>6 DEF GetClient, At, Frame, MembershipTypeOK
  <2>2. Finish("internal") \/ Becomes(f)
    BY <1>6 DEF GetClient
  <2> HIDE DEF c
  <2>3. f \in Frame /\ f.pc = "stamp" /\ f.kind = Top.kind /\ f.retries = Top.retries
    BY <1>0, <2>1 DEF Frame, Location
  <2> HIDE DEF f
  <2>4. Progress(f, "none") > Progress(Top, "none")
    BY <1>0, <2>1, <2>3, ProgressValue
  <2> QED
    BY <1>2, <2>1, <2>2, <2>3, <2>4, BecomesMoves DEF Result
<1>7. CASE NewContextWithChecksum
  <2> DEFINE sum == Checksum(Top.node)
             f == [Top EXCEPT !.sum = sum, !.pc = "call"]
  <2>1. depth > 0 /\ Top.pc = "stamp" /\ sum \in SUBSET Node
    BY <1>0, <1>7 DEF NewContextWithChecksum, At, Checksum, Frame, MembershipTypeOK
  <2>2. Becomes(f)
    BY <1>7 DEF NewContextWithChecksum
  <2> HIDE DEF sum
  <2>3. f \in Frame /\ f.pc = "call" /\ f.kind = Top.kind /\ f.retries = Top.retries
    BY <1>0, <2>1 DEF Frame, Location
  <2> HIDE DEF f
  <2>4. Progress(f, "none") > Progress(Top, "none")
    BY <1>0, <2>1, <2>3, ProgressValue
  <2> QED
    BY <2>1, <2>2, <2>3, <2>4, BecomesMoves
<1>8. CASE CallClient
  <2> DEFINE f == NewFrame("proxied", Top.owner, Top.object, {}, 0)
  <2>1. depth > 0 /\ Top.pc = "call" /\ Top.owner \in Node /\ Top.object \in Object
    BY <1>0, <1>8 DEF CallClient, At, Frame
  <2>2. f \in Frame /\ Push(f)
    BY <1>8, <2>1, NewFrameType DEF CallClient
  <2>3. f.kind = "proxied"
    BY DEF NewFrame
  <2> HIDE DEF f
  <2> QED
    BY <2>1, <2>2, <2>3, PushMoves
<1>9. CASE CallFails
  BY <1>1, <1>9 DEF CallFails, At, AfterFailure, Location
<1>10. CASE Retry
  <2> DEFINE owner == Owner(Top)
             f == [Top EXCEPT !.retries = @ + 1, !.owner = owner, !.pc = "reclient"]
  <2>1. depth > 0 /\ Top.pc = "retry" /\ owner \in Node /\ Top.retries \in 0..Retries + 1
    BY <1>0, <1>a, <1>10 DEF Retry, At, Frame
  <2>2. Goto("eval") \/ (Top.retries <= Retries /\ Becomes(f))
    BY <1>10, <2>1 DEF Retry
  <2> HIDE DEF owner
  <2>3. ASSUME Top.retries <= Retries, Becomes(f)
        PROVE  MovesOn
    <3>1. Top.retries + 1 \in 0..Retries + 1 /\ "reclient" \in Location
      BY <2>1, <2>3 DEF Location
    <3>2. f \in Frame /\ f.pc = "reclient" /\ f.kind = Top.kind
          /\ f.retries = Top.retries + 1
      BY <1>0, <2>1, <3>1 DEF Frame
    <3> HIDE DEF f
    <3>3. Progress(f, "none") > Progress(Top, "none")
      BY <1>0, <2>1, <3>2, ProgressValue
    <3> QED
      BY <2>1, <2>3, <3>2, <3>3, BecomesMoves
  <2> QED
    BY <1>1, <2>1, <2>2, <2>3 DEF Location
<1>11. CASE GetClientAgain
  <2> DEFINE c == clients[Top.node][Top.owner]
             f == [Top EXCEPT !.conn = c, !.pc = "call"]
  <2>1. depth > 0 /\ Top.pc = "reclient" /\ c \in 0..MaxAddr
    BY <1>0, <1>11 DEF GetClientAgain, At, Frame, MembershipTypeOK
  <2>2. Goto("retry") \/ Becomes(f)
    BY <1>11 DEF GetClientAgain
  <2> HIDE DEF c
  <2>3. f \in Frame /\ f.pc = "call" /\ f.kind = Top.kind /\ f.retries = Top.retries
    BY <1>0, <2>1 DEF Frame, Location
  <2> HIDE DEF f
  <2>4. Progress(f, "none") > Progress(Top, "none")
    BY <1>0, <2>1, <2>3, ProgressValue
  <2> QED
    BY <1>1, <2>1, <2>2, <2>3, <2>4, BecomesMoves DEF Location
<1>12. CASE Evaluate
  BY <1>2, <1>12 DEF Evaluate, At, Result
<1>24. CASE QueryFails
  <2> DEFINE f == [Top EXCEPT !.pc = "done", !.result = "internal", !.failedAt = {Top.node}]
  <2>1. depth > 0 /\ Top.pc = "eval" /\ {Top.node} \in SUBSET Node
    BY <1>0, <1>24 DEF QueryFails, At, Frame
  <2>2. Becomes(f)
    BY <1>24 DEF QueryFails
  <2>3. f \in Frame /\ f.pc = "done" /\ f.kind = Top.kind
    BY <1>0, <2>1 DEF Frame, Location, Result
  <2> HIDE DEF f
  <2>4. Progress(f, "none") > Progress(Top, "none")
    BY <1>0, <2>1, <2>3, ProgressValue
  <2> QED
    BY <2>1, <2>2, <2>3, <2>4, BecomesMoves
<1>13. ASSUME NEW o \in Object, EvaluateNested(o)
       PROVE  MovesOn
  <2> DEFINE f == NewFrame("nested", Top.node, o, Top.sum, Top.ts)
  <2>1. depth > 0 /\ Top.pc = "eval" /\ Top.node \in Node
        /\ Top.sum \in SUBSET Node /\ Top.ts \in 0..MaxVersion
    BY <1>0, <1>13 DEF EvaluateNested, At, Frame
  <2>2. f \in Frame /\ Push(f)
    BY <1>13, <2>1, NewFrameType DEF EvaluateNested
  <2>3. f.kind = "nested"
    BY DEF NewFrame
  <2> HIDE DEF f
  <2> QED
    BY <2>1, <2>2, <2>3, PushMoves
<1>14. ASSUME NEW k \in 1..depth - 1, NEW loc \in AfterFailure,
              frames[k + 1].kind = "proxied", Resume(k, [frames[k] EXCEPT !.pc = loc])
       PROVE  MovesOn
  <2> DEFINE f == [frames[k] EXCEPT !.pc = loc]
  <2>1. frames[k] \in Frame /\ loc \in {"eval", "retry"}
    BY DEF CheckTypeOK, AfterFailure
  <2>2. f \in Frame /\ f.kind = frames[k].kind /\ f.retries = frames[k].retries /\ f.pc = loc
    BY <2>1 DEF Frame, Location
  <2>3. Resume(k, f)
    BY <1>14
  <2> HIDE DEF f
  <2> QED
    BY <1>14, <2>1, <2>2, <2>3, ResumeMoves
<1>15. CASE Return
  <2>1. depth > 0 /\ Top.pc = "done" /\ Top.result \in Result \cup {"none"}
        /\ Top.failedAt \in SUBSET Node
    BY <1>0, <1>15 DEF Return, At, Frame
  <2>2. CASE depth = 1
    BY <1>15, <2>2 DEF Return, MovesOn
  <2>3. CASE depth # 1
    <3> DEFINE k == depth - 1
               f == [frames[k] EXCEPT !.pc = "done", !.result = Top.result,
                                    !.failedAt = Top.failedAt]
    <3>1. k \in 1..depth - 1 /\ k + 1 = depth /\ frames[k + 1] = Top
      BY <1>0, <2>1, <2>3 DEF CheckTypeOK
    <3>2. \/ /\ Top.kind = "proxied"
             /\ \E loc \in AfterFailure : Resume(k, [frames[k] EXCEPT !.pc = loc])
          \/ Resume(k, f)
      BY <1>15, <2>3 DEF Return
    <3>3. frames[k] \in Frame
      BY <3>1 DEF CheckTypeOK
    <3> HIDE DEF k
    <3>4. f \in Frame /\ f.kind = frames[k].kind /\ f.retries = frames[k].retries
          /\ f.pc = "done"
      BY <2>1, <3>3 DEF Frame, Location
    <3> HIDE DEF f
    <3>5. Resume(k, f) => MovesOn
      BY <3>1, <3>4, ResumeMoves
    <3> QED
      BY <1>14, <3>1, <3>2, <3>5
  <2> QED
    BY <2>2, <2>3
<1>16. ASSUME NEW n \in Node, NEW o \in Object, Check(n, o)
       PROVE  MovesOn
  BY <1>16 DEF Check, MovesOn
<1>17. ASSUME NEW i \in 1..MaxDepth, CallBreaks(i)
       PROVE  MovesOn
  BY <1>14, <1>17 DEF CallBreaks
<1>18. ASSUME UNCHANGED <<frames, depth>>
       PROVE  MovesOn
  BY <1>18 DEF MovesOn, ProgressOf, Callee
<1>19. ASSUME NEW n \in Node, Dies(n)
       PROVE  MovesOn
  <2>1. CASE UNCHANGED <<frames, depth>>
    BY <1>18, <2>1
  <2>2. CASE depth' = 0
    BY <2>2 DEF MovesOn
  <2>3. ASSUME NEW i \in 1..depth, i # 1, frames[i].node = n,
               \A j \in 1..i - 1 : frames[j].node # n,
               NEW loc \in AfterFailure, Resume(i - 1, [frames[i - 1] EXCEPT !.pc = loc])
        PROVE  MovesOn
    <3> DEFINE k == i - 1
    <3>1. k \in 1..depth - 1 /\ k + 1 = i /\ k \in 1..i - 1
      BY <2>3 DEF CheckTypeOK
    <3>2. CallInv(frames[k], frames[k + 1]) /\ frames[k + 1] \in Frame
      BY <3>1 DEF StackInv, CheckTypeOK
    <3>3. frames[k + 1].kind = "proxied"
      BY <2>3, <3>1, <3>2 DEF CallInv, Frame
    <3>4. Resume(k, [frames[k] EXCEPT !.pc = loc])
      BY <2>3
    <3> HIDE DEF k
    <3> QED
      BY <1>14, <3>1, <3>3, <3>4
  <2> QED
    BY <1>19, <2>1, <2>2, <2>3 DEF Dies
<1>20. CASE MembershipChanges
  BY <1>18, <1>20 DEF MembershipChanges
<1>21. CASE Cancel
  BY <1>18, <1>21 DEF Cancel
<1>22. ASSUME NEW n \in Node, NewSnapshot(n)
       PROVE  MovesOn
  BY <1>18, <1>22 DEF NewSnapshot
<1>23. CASE UNCHANGED vars
  BY <1>18, <1>23 DEF vars, checkVars
<1> QED
  BY <1>3, <1>4, <1>5, <1>6, <1>7, <1>8, <1>9, <1>10, <1>11, <1>12, <1>13, <1>15,
     <1>16, <1>17, <1>19, <1>20, <1>21, <1>22, <1>23, <1>24 DEF Next, CheckStep

\* No call of check goes back, in any cluster and for any number of retries: what
\* is left of CheckAnswered is that a call that can move on does.
THEOREM AlwaysChecksMoveOn == Spec => ChecksMoveOn
<1>1. MembershipTypeOK /\ CheckTypeOK /\ StackInv /\ [Next]_vars => [MovesOn]_vars
  BY MovesOnStep
<1>2. Spec => []MembershipTypeOK
  BY ImplementsMembership, MembershipTypeCorrect, PTL
<1>3. Spec => [][MovesOn]_vars
  BY <1>1, <1>2, AlwaysStackInv, PTL DEF Spec
<1> QED
  BY <1>3 DEF ChecksMoveOn, MovesOn
=============================================================================
