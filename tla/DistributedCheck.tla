-------------------------- MODULE DistributedCheck --------------------------
(***************************************************************************)
(* The routing of one Check request through a cluster: check forwards it   *)
(* to the node that the hashring makes the owner of its object, retries,   *)
(* and falls back to an evaluation of its own.  The evaluation leads to    *)
(* checks of further objects, each of which is routed in turn.             *)
(*                                                                         *)
(* The calls of check that wait for each other are the frames of a stack,  *)
(* across nodes.  A frame is the request of the client, a check proxied to *)
(* a peer over gRPC, or a nested check, called by checkLeaf on the same    *)
(* node with the context of its caller.  A context carries the checksum of *)
(* a ring and a snapshot timestamp, and its values do not cross gRPC:      *)
(* neither the clients nor the server put them in a request's metadata.    *)
(*                                                                         *)
(* Of the tree of checks that an evaluation may start the stack is one     *)
(* path.  Objects are of one namespace; choice[n] is the snapshot that     *)
(* chooseNamespaceConfigSnapshot selects at n (ConfigSnapshots tells how)  *)
(* and moves on.                                                           *)
(***************************************************************************)
EXTENDS Membership

CONSTANTS
    Object,      \* what is checked: objects, with a relation
    LocateKey,   \* LocateKey[o][S]: the owner of o in a ring of members S
    Nested,      \* Nested[o]: what an evaluation of o may have to check
    Undefined,   \* Undefined[v]: what has no relation in version v of the config
    MaxVersion,  \* bound: versions of the namespace config
    FirstChoice, \* what a node may choose when the check arrives; 0: nothing
    Retries,     \* the 5 of "retries > 5"
    MaxDepth     \* bound: frames

ASSUME CheckAssumption ==
    /\ LocateKey \in [Object -> [SUBSET Node -> Node]]
    /\ \A o \in Object : \A S \in (SUBSET Node) \ {{}} : LocateKey[o][S] \in S
    /\ Nested \in [Object -> SUBSET Object]
    /\ MaxVersion \in Nat \ {0}
    /\ FirstChoice \subseteq 0..MaxVersion
    /\ Undefined \in [1..MaxVersion -> SUBSET Object]
    /\ Retries \in Nat
    /\ MaxDepth \in Nat \ {0}

VARIABLES
    choice,      \* choice[n]: the version n would choose; 0: namespace unknown
    frames,      \* the stack: frames[1] .. frames[depth]
    depth,
    cancelled,   \* the client's context is done
    outcome,     \* what the client was answered
    disturbed    \* history: the membership was in flux during the check

checkVars == <<choice, frames, depth, cancelled, outcome, disturbed>>
vars == <<membershipVars, checkVars>>

Result == {"answer", "internal", "undefined"}
Location == {"enter", "locate", "client", "stamp", "call", "wait", "retry",
             "reclient", "eval", "done"}

Frame ==
    [kind : {"client", "proxied", "nested"}, node : Node, object : Object,
     sum : SUBSET Node,     \* the checksum in ctx; {}: none
     ts : 0..MaxVersion,    \* the timestamp in ctx; 0: none
     pc : Location,
     owner : Node,          \* forwardingNodeID
     conn : 0..MaxAddr,     \* the port that the client in use dials
     retries : 0..Retries + 1,
     result : Result \cup {"none"},
     failedAt : SUBSET Node]    \* history: where the query failed that led to result

TypeOK ==
    /\ MembershipTypeOK
    /\ choice \in [Node -> 0..MaxVersion]
    /\ depth \in 0..MaxDepth
    /\ frames \in [1..depth -> Frame]
    /\ cancelled \in BOOLEAN
    /\ outcome \in Result \cup {"none", "lost"}
    /\ disturbed \in BOOLEAN

NewFrame(kind, n, o, sum, ts) ==
    [kind |-> kind, node |-> n, object |-> o, sum |-> sum, ts |-> ts,
     pc |-> "enter", owner |-> n, conn |-> 0, retries |-> 0, result |-> "none",
     failedAt |-> {}]

Top == frames[depth]

\* the top frame moves on
Becomes(f) ==
    /\ frames' = [frames EXCEPT ![depth] = f]
    /\ UNCHANGED <<choice, depth, cancelled, outcome, disturbed, membershipVars>>

Goto(loc) == Becomes([Top EXCEPT !.pc = loc])
Finish(r) == Becomes([Top EXCEPT !.pc = "done", !.result = r])

\* the top frame calls
Push(f) ==
    /\ depth < MaxDepth
    /\ depth' = depth + 1
    /\ frames' = [i \in 1..depth + 1 |->
                    IF i = depth + 1 THEN f
                    ELSE IF i = depth THEN [Top EXCEPT !.pc = "wait"]
                    ELSE frames[i]]
    /\ UNCHANGED <<choice, cancelled, outcome, disturbed, membershipVars>>

\* frame i hears from the frame it called, which is gone with those above it
Resume(i, f) ==
    /\ depth' = i
    /\ frames' = [j \in 1..i |-> IF j = i THEN f ELSE frames[j]]

At(loc) == depth > 0 /\ Top.pc = loc

-----------------------------------------------------------------------------
Settled ==
    /\ up = Node
    /\ \A n \in Node : ring[n] = Node /\ callback[n].kind = "none"

Init ==
    /\ MembershipInit
    /\ choice \in [Node -> FirstChoice]
    /\ frames = <<>>
    /\ depth = 0
    /\ cancelled = FALSE
    /\ outcome = "none"
    /\ disturbed = FALSE

\* the Check RPC of a client reaches n, and its fields are valid
Check(n, o) ==
    /\ depth = 0 /\ outcome = "none"
    /\ n \in up
    /\ depth' = 1
    /\ frames' = [i \in 1..1 |-> NewFrame("client", n, o, {}, 0)]
    /\ disturbed' = ~Settled
    /\ UNCHANGED <<choice, cancelled, outcome, membershipVars>>

\* the checksum of the context is not that of the ring
ChecksumDiffers(f) == f.sum # {} /\ f.sum # Checksum(f.node)

RefuseChecksum ==
    /\ At("enter")
    /\ ChecksumDiffers(Top)
    /\ Finish("internal")

\* Mutant: every call of check chooses
SnapshotTimestampFresh(f) == choice[f.node]

\* the timestamp in the context, or the one that the node chooses
SnapshotTimestamp(f) == IF f.ts # 0 THEN f.ts ELSE choice[f.node]

\* the node may lack the snapshot that it chose itself: with entries of three or more
\* peers, members or departed, the choice need not be in its own store
\* (ConfigSnapshots shows how)
MayLackSnapshot(f) == f.ts = 0

\* the snapshot is selected and the relation's rewrite is looked up
Enter ==
    /\ At("enter")
    /\ ~ChecksumDiffers(Top)
    /\ LET ts == SnapshotTimestamp(Top) IN
        \/ ts = 0 /\ Finish("undefined")
        \/ ts # 0 /\ MayLackSnapshot(Top) /\ Finish("undefined")
        \/ ts # 0 /\ Top.object \in Undefined[ts] /\ Finish("answer")
        \/ /\ ts # 0 /\ Top.object \notin Undefined[ts]
           /\ Becomes([Top EXCEPT !.ts = ts, !.pc = "locate"])

\* Mutant: the node looks for an owner among its peers
OwnerAmongPeers(f) == LocateKey[f.object][ring[f.node] \ {f.node}]

\* Hashring.LocateKey on the node's ring as it is now
Owner(f) == LocateKey[f.object][ring[f.node]]

Locate ==
    /\ At("locate")
    /\ Becomes([Top EXCEPT !.owner = Owner(Top),
                           !.pc = IF Owner(Top) = Top.node THEN "eval" ELSE "client"])

\* the first time, a missing client fails the check
GetClient ==
    /\ At("client")
    /\ IF HasClient(Top.node, Top.owner)
       THEN Becomes([Top EXCEPT !.conn = clients[Top.node][Top.owner], !.pc = "stamp"])
       ELSE Finish("internal")

\* the context gets the checksum of the ring as it is now, once for all attempts
NewContextWithChecksum ==
    /\ At("stamp")
    /\ Becomes([Top EXCEPT !.sum = Checksum(Top.node), !.pc = "call"])

\* client.Check: the request reaches the peer, without the context's values
CallClient ==
    /\ At("call")
    /\ ~cancelled
    /\ Top.owner \in up /\ Top.conn = addr[Top.owner]
    /\ Push(NewFrame("proxied", Top.owner, Top.object, {}, 0))

\* where a failed call leads: codes.Canceled ends the loop, any other code (that
\* of a deadline too) is followed by another round
AfterFailure == IF cancelled THEN {"eval", "retry"} ELSE {"retry"}

\* the request cannot be delivered, or the context is done
CallFails ==
    /\ At("call")
    /\ \E loc \in AfterFailure : Goto(loc)

\* the connection breaks, or the context is done, while the peer works on it
CallBreaks(i) ==
    /\ i \in 1..depth - 1
    /\ frames[i + 1].kind = "proxied"
    /\ \E loc \in AfterFailure : Resume(i, [frames[i] EXCEPT !.pc = loc])
    /\ UNCHANGED <<choice, cancelled, outcome, disturbed, membershipVars>>

\* Mutants: the last retry is followed by another; the retries are not counted
RetryOnceMore ==
    /\ At("retry")
    /\ LET owner == Owner(Top) IN
        IF Top.retries > Retries + 1 \/ owner = Top.node
        THEN Goto("eval")
        ELSE Becomes([Top EXCEPT !.retries = @ + 1, !.owner = owner, !.pc = "reclient"])

RetryForever ==
    /\ At("retry")
    /\ LET owner == Owner(Top) IN
        IF owner = Top.node
        THEN Goto("eval")
        ELSE Becomes([Top EXCEPT !.owner = owner, !.pc = "reclient"])

\* the head of the loop: too many retries, or the node is now the owner
Retry ==
    /\ At("retry")
    /\ LET owner == Owner(Top) IN
        IF Top.retries > Retries \/ owner = Top.node
        THEN Goto("eval")
        ELSE Becomes([Top EXCEPT !.retries = @ + 1, !.owner = owner, !.pc = "reclient"])

\* in the loop a missing client counts as a failed attempt
GetClientAgain ==
    /\ At("reclient")
    /\ IF HasClient(Top.node, Top.owner)
       THEN Becomes([Top EXCEPT !.conn = clients[Top.node][Top.owner], !.pc = "call"])
       ELSE Goto("retry")

\* checkRewrite comes to a result without a further check, or finds its context done
Evaluate ==
    /\ At("eval")
    /\ \/ Finish("answer")
       \/ cancelled /\ Finish("internal")

\* a query of checkLeaf fails: RowCount or SubjectSets
QueryFails ==
    /\ At("eval")
    /\ Becomes([Top EXCEPT !.pc = "done", !.result = "internal", !.failedAt = {Top.node}])

\* checkLeaf calls check with the same context
EvaluateNested(o) ==
    /\ At("eval")
    /\ o \in Nested[Top.object]
    /\ Push(NewFrame("nested", Top.node, o, Top.sum, Top.ts))

\* Mutant: what a peer answers is final, an error too
ReturnPassesErrors ==
    /\ At("done")
    /\ IF depth = 1
       THEN /\ depth' = 0
            /\ frames' = <<>>
            /\ outcome' = Top.result
       ELSE /\ Resume(depth - 1, [frames[depth - 1] EXCEPT !.pc = "done",
                                  !.result = Top.result, !.failedAt = Top.failedAt])
            /\ UNCHANGED outcome
    /\ UNCHANGED <<choice, cancelled, disturbed, membershipVars>>

\* check returns to the client, to a peer or to checkLeaf
Return ==
    /\ At("done")
    /\ IF depth = 1
       THEN /\ depth' = 0
            /\ frames' = <<>>
            /\ outcome' = Top.result
       ELSE LET caller == frames[depth - 1]
                refused == Top.kind = "proxied" /\ Top.result # "answer"
            IN /\ IF refused
                  THEN \E loc \in AfterFailure :
                        Resume(depth - 1, [caller EXCEPT !.pc = loc])
                  ELSE Resume(depth - 1, [caller EXCEPT !.pc = "done",
                                !.result = Top.result, !.failedAt = Top.failedAt])
               /\ UNCHANGED outcome
    /\ UNCHANGED <<choice, cancelled, disturbed, membershipVars>>

\* the client gives up, or its deadline passes
Cancel ==
    /\ depth > 0
    /\ ~cancelled
    /\ cancelled' = TRUE
    /\ UNCHANGED <<choice, frames, depth, outcome, disturbed, membershipVars>>

\* a newer snapshot has become common to the peers that n knows of
NewSnapshot(n) ==
    /\ choice[n] < MaxVersion
    /\ choice' = [choice EXCEPT ![n] = @ + 1]
    /\ UNCHANGED <<frames, depth, cancelled, outcome, disturbed, membershipVars>>

\* a node's death ends its frames: its caller sees the connection break
Dies(n) ==
    /\ Crash(n)
    /\ \/ /\ \A i \in 1..depth : frames[i].node # n
          /\ UNCHANGED <<frames, depth, outcome>>
       \/ \E i \in 1..depth :
            /\ frames[i].node = n
            /\ \A j \in 1..i - 1 : frames[j].node # n
            /\ IF i = 1
               THEN depth' = 0 /\ frames' = <<>> /\ outcome' = "lost"
               ELSE /\ \E loc \in AfterFailure :
                        Resume(i - 1, [frames[i - 1] EXCEPT !.pc = loc])
                    /\ UNCHANGED outcome
    /\ disturbed' = TRUE
    /\ UNCHANGED <<choice, cancelled>>

\* memberlist's callbacks, and restarts, while the check goes on
MembershipChanges ==
    /\ \/ \E n, m \in Node : NotifyJoin(n, m) \/ NotifyLeave(n, m)
       \/ \E n \in Node : NotifyJoinAdds(n) \/ NotifyLeaveRemoves(n) \/ Restart(n)
    /\ disturbed' = TRUE
    /\ UNCHANGED <<choice, frames, depth, cancelled, outcome>>

CheckStep ==
    \/ RefuseChecksum \/ Enter \/ Locate \/ GetClient \/ NewContextWithChecksum
    \/ CallClient \/ CallFails \/ Retry \/ GetClientAgain \/ Evaluate \/ QueryFails
    \/ Return
    \/ \E o \in Object : EvaluateNested(o)

Next ==
    \/ \E n \in Node, o \in Object : Check(n, o)
    \/ CheckStep
    \/ \E i \in 1..MaxDepth : CallBreaks(i)
    \/ Cancel
    \/ \E n \in Node : NewSnapshot(n) \/ Dies(n)
    \/ MembershipChanges

Spec == Init /\ [][Next]_vars

\* a check that can take its next step takes it; nothing else has to happen
FairSpec == Spec /\ WF_vars(CheckStep)

\* memberlist notices what it should, whatever a check does
ClusterSpec == Spec /\ MembershipFairness

-----------------------------------------------------------------------------
\* A check and the nested checks that it calls on the same node read one version
\* of the config, though the node's choice moves on between them and whichever
\* attempts to forward the check came before: the timestamp in the context is
\* kept through retries and the local fallback.
NestedSameSnapshot ==
    \A i \in 2..depth :
        frames[i].kind = "nested" =>
            /\ frames[i].ts = frames[i - 1].ts
            /\ frames[i].ts # 0

\* While the membership is settled and the client waits, a call of check, that of
\* the client too, fails with an internal error only where a query failed on its own
\* node.  What goes wrong at a peer (a query, the connection, a namespace that it
\* does not know yet) is made good by the retries and the fallback, however deep the
\* call that was forwarded.
InternalIsOwnFailure ==
    \A i \in 1..depth :
        frames[i].result = "internal" =>
            disturbed \/ cancelled \/ frames[i].failedAt = {frames[i].node}

\* While the membership is settled a proxied check is evaluated where it arrives:
\* it is not proxied again.
SettledForwardsOnce ==
    \A i \in 2..depth - 1 :
        frames[i].kind = "proxied" /\ frames[i + 1].kind = "proxied" => disturbed

\* Every request is answered, or its node dies: no order of failed calls, stale
\* clients, missing clients and membership changes retries for ever.
CheckAnswered == depth > 0 ~> depth = 0

\* the stages of a call f that waits for one of kind callee, or for none: it waits
\* for a peer within an attempt, and for a nested check within its evaluation
Stage(f, callee) ==
    CASE f.pc = "enter" -> 0
      [] f.pc = "locate" -> 1
      [] f.pc = "client" -> 2
      [] f.pc = "stamp" -> 3
      [] f.pc = "reclient" -> 4
      [] f.pc = "call" -> 5
      [] f.pc = "wait" /\ callee = "proxied" -> 6
      [] f.pc = "retry" -> 7
      [] f.pc = "eval" -> 8
      [] f.pc = "wait" /\ callee # "proxied" -> 9
      [] f.pc = "done" -> 10

\* the stages 4 to 7 are gone through once for every attempt
Progress(f, callee) ==
    Stage(f, callee) + 4 * (IF Stage(f, callee) < 8 THEN f.retries ELSE Retries + 1)

Callee(i) == IF i < depth THEN frames[i + 1].kind ELSE "none"
ProgressOf(i) == Progress(frames[i], Callee(i))

\* No call of check ever goes back.  Whatever fails, breaks or dies between two of
\* its steps, a call that is still under way was left alone or is at a later stage
\* of its attempt, at a later attempt, or evaluates: it is not evaluated twice, nor
\* forwarded after its evaluation began, and it makes a bounded number of steps.
ChecksMoveOn ==
    [][\A i \in (1..depth) \cap (1..depth') :
        \/ frames'[i] = frames[i] /\ ProgressOf(i)' = ProgressOf(i)
        \/ ProgressOf(i)' > ProgressOf(i)]_vars

\* A node's fallback to a local evaluation is not refused by the node itself: the
\* checksum test at the entry of check is there for the requests of peers, so a
\* nested check of a request that is still wanted passes it.
FallbackNotRefused ==
    At("enter") /\ ~cancelled /\ Top.kind = "nested" => ~ChecksumDiffers(Top)
=============================================================================
