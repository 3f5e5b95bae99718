----------------------------- MODULE ShardServer ----------------------------
(***************************************************************************)
(* The manager's end of the sharding protocol                              *)
(* (pkg/manager/controllers/shardingconfigserver): the gRPC server that    *)
(* keeps a connection per Pod, the event handler of the Pod informer, and  *)
(* the reconciler of one ShardingConfig that sends its spec to the proxies *)
(* and deletes the Pods that run another one.                              *)
(*                                                                         *)
(* Reconcile is two steps: Gate reads the Pods and what their connections  *)
(* report, Act acts on what was read; everything else may move in between. *)
(***************************************************************************)
EXTENDS ShardNet

VARIABLES
    config,   \* the hash of the ShardingConfig's limits
    seen,     \* seen[p]: the Pod as the informer's cache holds it
    conn,     \* cachedGrpcSrvConnection
    dying,    \* connections replaced by a newer one and not yet torn down
    hashExp,  \* podHashExpectation
    delExp,   \* podDeletionExpectation
    queue,    \* the ShardingConfig is in the work queue
    timer,    \* the ShardingConfig is waiting in it (RequeueAfter)
    rec       \* the reconcile under way

serverVars == <<config, seen, conn, dying, hashExp, delExp, queue, timer, rec>>

NoConn == [up |-> FALSE, status |-> NoMeta, dispatched |-> FALSE, disconnected |-> FALSE]
ConnType == [up : BOOLEAN, status : Status, dispatched : BOOLEAN, disconnected : BOOLEAN]

(* A snapshot of a connection: fresh until Register replaces it.           *)
NotSynced == [synced |-> FALSE, fresh |-> FALSE, dispatched |-> FALSE, status |-> NoMeta]
SyncPod == [synced : BOOLEAN, fresh : BOOLEAN, dispatched : BOOLEAN, status : Status]
Idle == [pc |-> "idle", spec |-> None, pods |-> [p \in Pod |-> NotSynced]]

----------------------------------------------------------------------------
(* The Pod informer delivers p: Create, Update and Delete of               *)
(* podEventHandler decide whether the ShardingConfig is enqueued.          *)
(* Mutant: the last container of a deleted Pod stops unnoticed.            *)
MutPodEventEnqueues(old, new) ==
    \/ ~ Exists(old)
    \/ ~ IsPodActive(new) /\ IsPodActive(old)
    \/ IsPodActive(new) /\ \/ (old.phase = "running") # (new.phase = "running")
                           \/ IsPodReady(old) # IsPodReady(new)

PodEventEnqueues(old, new) ==
    \/ ~ Exists(old) \/ ~ Exists(new)
    \/ ~ IsPodActive(new) /\ (IsPodActive(old) \/ getRunningContainers(old) # getRunningContainers(new))
    \/ IsPodActive(new) /\ \/ (old.phase = "running") # (new.phase = "running")
                           \/ IsPodReady(old) # IsPodReady(new)

ObservePod(p) ==
    /\ seen[p] # pod[p]
    /\ seen' = [seen EXCEPT ![p] = pod[p]]
    /\ queue' = (queue \/ PodEventEnqueues(seen[p], pod[p]))
    /\ IF Exists(pod[p]) THEN UNCHANGED <<hashExp, delExp>>
       ELSE /\ hashExp' = [hashExp EXCEPT ![p] = None]
            /\ delExp' = delExp \ {p}
    /\ UNCHANGED <<pod, stream, config, conn, dying, timer, rec>>

(* Register: the first message of a stream.                                *)
Register(p) ==
    /\ stream[p].state = "new" /\ stream[p].up # <<>>
    /\ IF IsPodActive(seen[p])
       THEN /\ conn' = [conn EXCEPT ![p] = [NoConn EXCEPT !.up = TRUE, !.status = Head(stream[p].up)]]
            /\ dying' = IF conn[p].up /\ ~ conn[p].disconnected THEN dying \cup {p} ELSE dying
            /\ hashExp' = [hashExp EXCEPT ![p] = None]
            /\ rec' = [rec EXCEPT !.pods[p].fresh = FALSE]
            /\ queue' = TRUE
            /\ stream' = [stream EXCEPT ![p].state = "open", ![p].up = Tail(@)]
       ELSE /\ stream' = [stream EXCEPT ![p] = Closed]
            /\ UNCHANGED <<conn, dying, hashExp, rec, queue>>
    /\ UNCHANGED <<pod, config, seen, delExp, timer>>

(* The receiving goroutine of Register.                                    *)
RecvStatus(p) ==
    /\ stream[p].state = "open" /\ stream[p].up # <<>>
    /\ conn' = [conn EXCEPT ![p].status = Head(stream[p].up)]
    /\ queue' = (queue \/ conn[p].status # Head(stream[p].up))
    /\ stream' = [stream EXCEPT ![p].up = Tail(@)]
    /\ UNCHANGED <<pod, config, seen, dying, hashExp, delExp, timer, rec>>

(* The end of Register, when the stream is over: for the connection in the *)
(* cache, or late, for one that a newer connection of the Pod replaced.    *)
TornDown(p) ==
    /\ hashExp' = [hashExp EXCEPT ![p] = None]
    /\ queue' = TRUE
    /\ UNCHANGED <<pod, stream, config, seen, delExp, timer, rec>>

Teardown(p) ==
    /\ conn[p].up /\ ~ conn[p].disconnected /\ stream[p].state # "open"
    /\ conn' = [conn EXCEPT ![p].disconnected = TRUE]
    /\ UNCHANGED dying
    /\ TornDown(p)

LateTeardown(p) ==
    /\ p \in dying
    /\ dying' = dying \ {p}
    /\ UNCHANGED conn
    /\ TornDown(p)

----------------------------------------------------------------------------
(* Mutant of Satisfied: sent specs are not waited for.                     *)
MutSatisfied(p) == TRUE

Satisfied(p) == hashExp[p] \in {None, conn[p].status.exp}

(* Why the gate of Reconcile stops at a Pod: until something happens to    *)
(* it, or for a while.                                                     *)
Waits(p) ==
    \/ Exists(seen[p]) /\ ~ IsPodActive(seen[p]) /\ getRunningContainers(seen[p])
    \/ IsPodActive(seen[p]) /\ \/ p \in delExp
                               \/ conn[p].up /\ (conn[p].disconnected \/ ~ Satisfied(p))

WaitsAWhile(p, young) ==
    /\ IsPodActive(seen[p]) /\ p \notin delExp /\ ~ conn[p].up
    /\ IsPodReady(seen[p]) \/ p \in young

(* The Pods whose expectation the gate found met, up to where it stopped.  *)
Met(stops) ==
    [p \in Pod |-> IF IsPodActive(seen[p]) /\ conn[p].up /\ \A q \in stops : p < q THEN None ELSE hashExp[p]]

SyncPods == [p \in Pod |->
                IF IsPodActive(seen[p]) /\ conn[p].up
                THEN [synced |-> TRUE, fresh |-> TRUE,
                      dispatched |-> conn[p].dispatched, status |-> conn[p].status]
                ELSE NotSynced]

(* clearOldPods: Pods that no longer match the selector are deleted, and   *)
(* the loop returns at the first one it could delete.                      *)
Unmatched == {p \in Pod : Exists(seen[p]) /\ IsPodActive(seen[p]) /\ ~ seen[p].matches}

Deleted(o) ==
    CASE o.phase = "running" -> [o EXCEPT !.phase = "terminating", !.ready = FALSE]
      [] o.phase = "pending" -> [o EXCEPT !.phase = "gone"]
      [] OTHER               -> o

ClearOldPods ==
    LET live == {p \in Unmatched : Exists(pod[p])}
    IN  pod' = [p \in Pod |-> IF live # {} /\ p = CHOOSE x \in live : \A y \in live : x <= y
                              THEN Deleted(pod[p]) ELSE pod[p]]

(* Reconcile up to the point where every Pod has been let through.  The    *)
(* Pods in young have been Pending for less than a minute.                 *)
GateWith(young) ==
    LET stops == {p \in Pod : Waits(p) \/ WaitsAWhile(p, young)}
        first == CHOOSE p \in stops : \A q \in stops : p <= q
    IN
    /\ hashExp' = Met(stops)
    /\ IF stops = {}
       THEN rec' = [pc |-> "act", spec |-> config, pods |-> SyncPods] /\ UNCHANGED timer
       ELSE timer' = (timer \/ WaitsAWhile(first, young)) /\ UNCHANGED rec

Gate ==
    /\ rec.pc = "idle" /\ queue
    /\ queue' = FALSE
    /\ ClearOldPods
    /\ \E young \in SUBSET {p \in Pod : seen[p].phase = "pending"} : GateWith(young)
    /\ UNCHANGED <<stream, config, seen, conn, dying, delExp>>

Synced == {p \in Pod : rec.pods[p].synced}
ToDelete == {p \in Synced : rec.pods[p].status.exp # rec.pods[p].status.cur}
NonLeaders == {p \in ToDelete : ~ rec.pods[p].status.lead}
PodsToDelete == IF NonLeaders # {} THEN NonLeaders ELSE ToDelete
PodsToUpdate == {p \in Synced \ ToDelete :
                    rec.pods[p].status # NoMeta /\ rec.pods[p].status.exp # rec.spec}
PodsToDispatch == {p \in Synced \ (ToDelete \cup PodsToUpdate) :
                    rec.pods[p].status = NoMeta \/ ~ rec.pods[p].dispatched}

(* The Pods that must go are deleted, non-leaders first, except those the  *)
(* API server refuses to or does not find.  The error of the last call is  *)
(* the one returned.                                                       *)
DeletePods(refused) ==
    LET failed == refused \cup {p \in PodsToDelete : ~ Exists(pod[p])} IN
    /\ rec.pc = "act" /\ PodsToDelete # {} /\ refused \subseteq PodsToDelete
    /\ pod' = [p \in Pod |-> IF p \in PodsToDelete \ failed THEN Deleted(pod[p]) ELSE pod[p]]
    /\ delExp' = delExp \cup (PodsToDelete \ failed)
    /\ queue' = (queue \/ \E p \in failed : \A q \in PodsToDelete : q <= p)
    /\ rec' = Idle
    /\ UNCHANGED <<stream, config, seen, conn, dying, hashExp, timer>>

(* Otherwise the spec is sent: to the Pods that report another hash, and   *)
(* when there are none, to those that connected and have not been sent     *)
(* one.  A send on a stream that is over fails once its end was noticed;   *)
(* until then it may seem to succeed.                                      *)
(* Mutant of Targets: new Pods are sent the spec along with the updates.   *)
MutTargets == PodsToUpdate \cup PodsToDispatch

Targets == IF PodsToUpdate # {} THEN PodsToUpdate ELSE PodsToDispatch

Delivers(p) == rec.pods[p].fresh /\ stream[p].state = "open"
Fails(p) == IF rec.pods[p].fresh THEN conn[p].disconnected ELSE p \notin dying

SendSpecs ==
    /\ rec.pc = "act" /\ PodsToDelete = {}
    /\ \E failed \in SUBSET {p \in Targets : ~ Delivers(p)} :
        /\ {p \in Targets : Fails(p)} \subseteq failed
        /\ hashExp' = [p \in Pod |-> IF p \in Targets \ failed THEN rec.spec ELSE hashExp[p]]
        /\ queue' = (queue \/ \E p \in failed : \A q \in Targets : q <= p)
    /\ stream' = [p \in Pod |-> IF p \in Targets /\ Delivers(p)
                                THEN [stream[p] EXCEPT !.down = Append(@, rec.spec)] ELSE stream[p]]
    /\ conn' = [p \in Pod |-> IF p \in Targets /\ rec.pods[p].fresh
                              THEN [conn[p] EXCEPT !.dispatched = TRUE] ELSE conn[p]]
    /\ rec' = Idle
    /\ UNCHANGED <<pod, config, seen, dying, delExp, timer>>

(* RequeueAfter ends.                                                      *)
Requeue ==
    /\ timer
    /\ timer' = FALSE /\ queue' = TRUE
    /\ UNCHANGED <<pod, stream, config, seen, conn, dying, hashExp, delExp, rec>>

Reconcile == Gate \/ DeletePods({}) \/ SendSpecs
=============================================================================
