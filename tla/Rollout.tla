------------------------------- MODULE Rollout ------------------------------
(***************************************************************************)
(* The rollout controller (pkg/manager/controllers/rollout): it moves the  *)
(* Pods of a StatefulSet that updates on delete to the new revision, one   *)
(* ShardingConfig after another, in each the leader last.  The StatefulSet *)
(* controller, kubelet and the leases the controller reads are external.   *)
(***************************************************************************)
EXTENDS Integers, Sequences, FiniteSets, Functions

CONSTANTS
    Order,        \* the ShardingConfigs of the Pods, sorted by name
    ConfigOf,     \* the injected-config label of each Pod of the StatefulSet
    RollTypes,    \* what users write in the rolling label, as sets of configs
    SamePrefix,   \* <<p, q>>: the name of p is a prefix of the name of q
    MaxRev,       \* the last revision of the template; the first is 1
    MaxLag,       \* kubelet and the StatefulSet controller outrun the informer by so many versions
    Disturbance,  \* what may happen besides
    MaxEvents,    \* how many edits, labels and disturbances
    None          \* no label, no annotation, no holder

Pods == DOMAIN ConfigOf
Configs == {Order[i] : i \in DOMAIN Order}
Members(c) == {p \in Pods : ConfigOf[p] = c}

ASSUME RolloutAssumption ==
    /\ IsFiniteSet(Pods)
    /\ Order \in Seq(Configs) /\ \A i, j \in DOMAIN Order : Order[i] = Order[j] => i = j
    /\ RollTypes \subseteq SUBSET Configs

VARIABLES
    sts,          \* the StatefulSet: template revision, label and annotations
    stsSeen,      \* the informer's copy,
    current,      \* ... and whether it is the latest version
    pods,         \* the Pods, as the API server has them
    watch,        \* the versions of Pods the informer has still to see, in order
    seenPods,     \* the Pods as the informer has them
    deleting,     \* rollingDeleteExpectation
    leader,       \* the holder of each lease the controller reads
    alive,        \* the leases whose holder has not gone since
    work,         \* whether the StatefulSet is in the work queue
    down,         \* the revision for which the rollout deleted a Pod that is not back, or 0
    unrecorded,   \* the Pods deleted as leaders, until the informer has caught up
    events        \* how many events are left

clusterVars == <<pods, watch, leader, alive>>
managerVars == <<stsSeen, current, seenPods, deleting, work>>
rolloutVars == <<sts, clusterVars, managerVars, down, unrecorded, events>>

NewPod(rev, phase) == [rev |-> rev, phase |-> phase]

(* The template has been edited and a rollout been asked for.              *)
RolloutInit ==
    /\ sts \in [rev : {2}, roll : {Configs}, onDelete : {TRUE}, annotated : {FALSE}, expected : {None}, upgraded : {{}}]
    /\ stsSeen = sts /\ current = TRUE
    /\ pods = [p \in Pods |-> NewPod(1, "ready")]
    /\ seenPods = pods /\ watch = <<>>
    /\ deleting = {} /\ work = TRUE
    /\ leader = [c \in Configs |-> None] /\ alive = {}
    /\ down = [p \in Pods |-> 0] /\ unrecorded = {} /\ events = MaxEvents

-----------------------------------------------------------------------------
(* Users and faults.                                                       *)
inRolling == stsSeen.roll # None
May(kind) == kind \in Disturbance /\ events > 0 /\ events' = events - 1

WriteSts(s) == sts' = s /\ current' = FALSE

EditTemplate ==
    /\ May("edit") /\ sts.rev < MaxRev
    /\ WriteSts([sts EXCEPT !.rev = @ + 1])
    /\ UNCHANGED <<stsSeen, clusterVars, seenPods, deleting, work, down, unrecorded>>

StartRollout(configs) ==
    /\ May("label") /\ sts.roll = None
    /\ WriteSts([sts EXCEPT !.roll = configs, !.onDelete = TRUE])
    /\ down' = [p \in Pods |-> 0]
    /\ UNCHANGED <<stsSeen, clusterVars, seenPods, deleting, work, unrecorded>>

ChangeStrategy ==
    /\ May("strategy") /\ sts.onDelete
    /\ WriteSts([sts EXCEPT !.onDelete = FALSE])
    /\ UNCHANGED <<stsSeen, clusterVars, seenPods, deleting, work, down, unrecorded>>

(* Everything in memory is lost, the caches are filled anew, and the       *)
(* Create event of a StatefulSet with the label enqueues it.               *)
Restarted(s) ==
    /\ deleting' = {} /\ work' = TRUE
    /\ sts' = s /\ stsSeen' = s /\ current' = TRUE
    /\ seenPods' = pods /\ watch' = <<>>
    /\ UNCHANGED <<pods, leader, alive, down, unrecorded>>

RestartController ==
    /\ May("restart") /\ Restarted(sts)

(* A broken watch is replaced by a list: the informer jumps to the latest  *)
(* versions, and a Pod deleted and created meanwhile only looks updated.   *)
Relist ==
    /\ May("relist") /\ watch # <<>>
    /\ seenPods' = pods /\ watch' = <<>>
    /\ deleting' = {p \in deleting : pods[p].phase # "gone"}
    /\ work' = (work \/ inRolling) /\ unrecorded' = {}
    /\ UNCHANGED <<sts, stsSeen, current, pods, leader, alive, down>>

-----------------------------------------------------------------------------
(* The cluster.                                                            *)
PodBecomes(p, v) ==
    /\ Len(watch) < MaxLag
    /\ pods' = [pods EXCEPT ![p] = v]
    /\ watch' = Append(watch, <<p, v>>)
    /\ UNCHANGED <<sts, managerVars, leader>>

Terminated(p) ==
    /\ pods[p].phase = "terminating"
    /\ PodBecomes(p, NewPod(0, "gone"))
    /\ alive' = {c \in alive : leader[c] # p}
    /\ UNCHANGED <<down, unrecorded, events>>

Recreate(p) ==
    /\ pods[p].phase = "gone"
    /\ PodBecomes(p, NewPod(sts.rev, "unready"))
    /\ UNCHANGED <<alive, down, unrecorded, events>>

BecomeReady(p) ==
    /\ pods[p].phase = "unready"
    /\ PodBecomes(p, NewPod(pods[p].rev, "ready"))
    /\ down' = [down EXCEPT ![p] = 0]
    /\ UNCHANGED <<alive, unrecorded, events>>

CrashPod(p) ==
    /\ May("crash") /\ pods[p].phase = "ready"
    /\ PodBecomes(p, NewPod(pods[p].rev, "unready"))
    /\ UNCHANGED <<alive, down, unrecorded>>

Elect(p) ==
    /\ pods[p].phase = "ready" /\ ConfigOf[p] \notin alive
    /\ leader' = [leader EXCEPT ![ConfigOf[p]] = p]
    /\ alive' = alive \cup {ConfigOf[p]}
    /\ UNCHANGED <<sts, pods, watch, managerVars, down, unrecorded, events>>

-----------------------------------------------------------------------------
(* The watches: the predicate of the StatefulSet and podEventHandler.      *)
WatchSts ==
    /\ ~ current /\ current' = TRUE
    /\ stsSeen' = sts
    /\ work' = (work \/ sts.roll # None)
    /\ UNCHANGED <<sts, clusterVars, seenPods, deleting, down, unrecorded, events>>

GetExpectation(p) == p \in deleting
DeleteExpectation(p) == deleting' = deleting \ {p}

(* A create or an update enqueues the StatefulSet in rolling; a delete     *)
(* only removes the expectation.                                           *)
WatchPods ==
    /\ watch # <<>> /\ watch' = Tail(watch)
    /\ LET p == Head(watch)[1]
           v == Head(watch)[2]
       IN  /\ seenPods' = [seenPods EXCEPT ![p] = v]
           /\ IF v.phase = "gone"
                 THEN DeleteExpectation(p) /\ UNCHANGED work
                 ELSE work' = (work \/ inRolling) /\ UNCHANGED deleting
    /\ unrecorded' = IF watch' = <<>> THEN {} ELSE unrecorded
    /\ UNCHANGED <<sts, stsSeen, current, pods, leader, alive, down, events>>

-----------------------------------------------------------------------------
(* Reconcile, on the informer's copies.  While a Pod is missing from them  *)
(* it fails and is retried.                                                *)
Begin == work /\ \A p \in Pods : seenPods[p].phase # "gone"

recentRevision == stsSeen.rev
isUpdatedRevision(p) == seenPods[p].rev = recentRevision

NotRolling ==
    /\ Begin /\ stsSeen.roll = None /\ work' = FALSE
    /\ UNCHANGED <<sts, stsSeen, current, clusterVars, seenPods, deleting, down, unrecorded, events>>

(* A write of an old version is refused, and the reconcile retried.        *)
DropLabel ==
    /\ Begin /\ stsSeen.roll # None /\ ~ stsSeen.onDelete /\ current
    /\ WriteSts([stsSeen EXCEPT !.roll = None]) /\ work' = FALSE
    /\ UNCHANGED <<stsSeen, clusterVars, seenPods, deleting, down, unrecorded, events>>

Rolling == Begin /\ stsSeen.roll # None /\ stsSeen.onDelete

Labelled == {p \in Pods : ConfigOf[p] \in Configs}
upgradedPods == {p \in Labelled : isUpdatedRevision(p)}
expectedPodRevision ==
    [p \in Labelled |-> IF ConfigOf[p] \in stsSeen.roll THEN recentRevision ELSE seenPods[p].rev]
WithAnnotations == [stsSeen EXCEPT !.annotated = TRUE, !.expected = expectedPodRevision, !.upgraded = upgradedPods]

(* SetExpectedRevision writes into the annotations, which are nil if there *)
(* are none: the panic ends the process, after the deferred function has   *)
(* written the other annotation.                                           *)
PanicOnAnnotations ==
    /\ Rolling /\ ~ stsSeen.annotated
    /\ Restarted(IF current THEN [stsSeen EXCEPT !.annotated = TRUE, !.upgraded = upgradedPods] ELSE sts)
    /\ UNCHANGED events

(* The expectation is written first; only a controller that knows the      *)
(* latest version, or has nothing to write, goes on.                       *)
SetExpectedRevision ==
    /\ Rolling /\ stsSeen.annotated
    /\ current \/ stsSeen.expected = expectedPodRevision

(* Mutant: the deferred write patches whatever is there.                   *)
MutFinishReconcile(s, requeue) ==
    /\ IF s # stsSeen THEN WriteSts([s EXCEPT !.rev = sts.rev]) ELSE UNCHANGED <<sts, current>>
    /\ work' = requeue

(* The deferred function of Reconcile, and the requeue.                    *)
FinishReconcile(s, requeue) ==
    IF s = stsSeen THEN UNCHANGED <<sts, current>> /\ work' = requeue
    ELSE IF current THEN WriteSts(s) /\ work' = requeue
    ELSE UNCHANGED <<sts, current>> /\ work' = TRUE

-----------------------------------------------------------------------------
(* upgrade, on the first config that is not finished.                      *)
Terminating(p) == seenPods[p].phase = "terminating" \/ GetExpectation(p)

(* Mutant: updated Pods count whether or not they are ready.               *)
MutWaiting(c) == \E p \in Members(c) : Terminating(p)
Waiting(c) ==
    \E p \in Members(c) : Terminating(p) \/ (isUpdatedRevision(p) /\ seenPods[p].phase # "ready")

expectDeletePods(c) == {p \in Members(c) : ~ isUpdatedRevision(p)}
Finished(c) == ~ Waiting(c) /\ expectDeletePods(c) = {}
Upgrading(c) ==
    /\ SetExpectedRevision
    /\ c \in stsSeen.roll /\ ~ Finished(c)
    /\ \E i \in DOMAIN Order :
          /\ Order[i] = c
          /\ \A j \in 1 .. i - 1 : Order[j] \in stsSeen.roll => Finished(Order[j])

(* Mutant: the identity of the holder is compared as a whole, and it has a *)
(* suffix.                                                                 *)
MutIsLeader(p) == FALSE
isLeader(p) == leader[ConfigOf[p]] = p \/ <<p, leader[ConfigOf[p]]>> \in SamePrefix

(* The API server marks a Pod that exists; of one that is gone, and of one *)
(* in `refused`, the controller gets an error.                             *)
Marked(p) == NewPod(pods[p].rev, "terminating")
Accepted(P, refused) == {p \in P \ refused : pods[p].phase # "gone"}
Delete(D) ==
    LET new == {p \in D : pods[p].phase # "terminating"} IN
    /\ pods' = [p \in Pods |-> IF p \in new THEN Marked(p) ELSE pods[p]]
    /\ \E order \in Injection(1 .. Cardinality(new), new) : watch' = watch \o [i \in DOMAIN order |-> <<order[i], Marked(order[i])>>]
    /\ down' = [p \in Pods |-> IF p \in new /\ pods[p].rev < recentRevision THEN recentRevision ELSE down[p]]

(* Mutant: no expectation is recorded.                                     *)
MutRecord(D) == UNCHANGED deleting
Record(D) == deleting' = deleting \cup D

WaitForPods(c) ==
    /\ Upgrading(c) /\ Waiting(c)
    /\ FinishReconcile(WithAnnotations, FALSE)
    /\ UNCHANGED <<stsSeen, clusterVars, seenPods, deleting, down, unrecorded, events>>

(* Mutant: the reconcile is not tried again.                               *)
MutWaitForHolder(c) ==
    /\ Upgrading(c) /\ ~ Waiting(c) /\ leader[c] = None
    /\ FinishReconcile(WithAnnotations, FALSE)
    /\ UNCHANGED <<stsSeen, clusterVars, seenPods, deleting, down, unrecorded, events>>
WaitForHolder(c) ==
    /\ Upgrading(c) /\ ~ Waiting(c) /\ leader[c] = None
    /\ FinishReconcile(WithAnnotations, TRUE)
    /\ UNCHANGED <<stsSeen, clusterVars, seenPods, deleting, down, unrecorded, events>>

DeleteFollowers(c, refused) ==
    LET followers == {p \in expectDeletePods(c) : ~ isLeader(p)}
        D == Accepted(followers, refused)
    IN  /\ Upgrading(c) /\ ~ Waiting(c) /\ leader[c] # None
        /\ followers # {} /\ refused \subseteq followers
        /\ IF refused = {} THEN UNCHANGED events ELSE May("api")
        /\ Delete(D) /\ Record(D)
        /\ FinishReconcile(WithAnnotations, D # followers)
        /\ UNCHANGED <<stsSeen, seenPods, leader, alive, unrecorded>>

DeleteLeader(c, p) ==
    /\ Upgrading(c) /\ ~ Waiting(c) /\ leader[c] # None
    /\ \A q \in expectDeletePods(c) : isLeader(q)
    /\ p \in expectDeletePods(c)
    /\ Delete(Accepted({p}, {})) /\ unrecorded' = unrecorded \cup {p}
    /\ FinishReconcile(WithAnnotations, TRUE)
    /\ UNCHANGED <<stsSeen, seenPods, deleting, leader, alive, events>>

FinishRollout ==
    /\ SetExpectedRevision
    /\ \A c \in stsSeen.roll : Finished(c)
    /\ FinishReconcile([WithAnnotations EXCEPT !.roll = None], FALSE)
    /\ UNCHANGED <<stsSeen, clusterVars, seenPods, deleting, down, unrecorded, events>>

RollingStep ==
    \/ NotRolling \/ DropLabel \/ PanicOnAnnotations \/ FinishRollout
    \/ \E c \in Configs :
          \/ WaitForPods(c) \/ WaitForHolder(c)
          \/ \E refused \in SUBSET Members(c) : DeleteFollowers(c, refused)
          \/ \E p \in Members(c) : DeleteLeader(c, p)

ClusterStep(p) == Terminated(p) \/ Recreate(p) \/ BecomeReady(p)

RolloutNext ==
    \/ RollingStep \/ WatchSts \/ WatchPods \/ Relist \/ EditTemplate \/ ChangeStrategy \/ RestartController
    \/ \E configs \in RollTypes : StartRollout(configs)
    \/ \E p \in Pods : ClusterStep(p) \/ Elect(p) \/ CrashPod(p)

(* The worker and the informers go on, the cluster replaces Pods, and a    *)
(* lease without a holder finds one.                                       *)
RolloutFairness ==
    /\ WF_rolloutVars(RollingStep) /\ WF_rolloutVars(WatchSts) /\ WF_rolloutVars(WatchPods)
    /\ \A p \in Pods : WF_rolloutVars(ClusterStep(p))
    /\ \A c \in Configs : WF_rolloutVars(\E p \in Members(c) : Elect(p))

RolloutSpec == RolloutInit /\ [][RolloutNext]_rolloutVars /\ RolloutFairness

-----------------------------------------------------------------------------
(* Of the Pods the rollout took down for one revision and that are not     *)
(* back, all belong to one ShardingConfig: the shards are rolled one after *)
(* another, however late the informers are and whatever else happens.  (A  *)
(* leader deleted a second time, see UpdatedKept, does not count.)         *)
OneShardAtATime ==
    \A p, q \in Pods : down[p] # 0 /\ down[p] = down[q] => ConfigOf[p] = ConfigOf[q]

TakenDown(p) == pods[p].phase \in {"ready", "unready"} /\ pods'[p].phase = "terminating"

(* A Pod that already runs the revision being rolled out is not deleted    *)
(* again, although the informer may still show its predecessor; for a Pod  *)
(* deleted as the leader, which is not recorded, the code does not ensure  *)
(* it.                                                                     *)
UpdatedKept ==
    [][\A p \in Pods : TakenDown(p) /\ p \notin unrecorded => pods[p].rev # stsSeen.rev]_rolloutVars

(* The leader goes last: when the holder of the lease is deleted, every    *)
(* other Pod of its config that exists has the new revision, except a Pod  *)
(* whose name is a prefix of the holder's.                                 *)
LeaderLast ==
    [][\A p \in Pods : TakenDown(p) /\ leader[ConfigOf[p]] = p =>
          \A q \in Members(ConfigOf[p]) \ {p} :
              pods[q].phase = "gone" \/ pods[q].rev >= stsSeen.rev \/ <<q, p>> \in SamePrefix]_rolloutVars

(* The rolling label goes, while the strategy stays, only once no Pod of   *)
(* the configs it names is left at an old revision.                        *)
FinishedMeansUpdated ==
    [][sts.roll # None /\ sts'.roll = None /\ sts.onDelete =>
          \A p \in Pods : ConfigOf[p] \in sts.roll => pods[p].phase = "gone" \/ pods[p].rev = sts.rev]_rolloutVars

(* A deletion the informer never reports: its expectation stays for good.  *)
Stranded ==
    \E p \in deleting : watch = <<>> /\ pods[p].phase \in {"ready", "unready"}

(* Every rollout ends, unless the informer missed the end of a Pod.        *)
RolloutEnds == sts.roll # None ~> (sts.roll = None \/ Stranded)
=============================================================================
