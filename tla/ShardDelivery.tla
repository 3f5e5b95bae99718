---------------------------- MODULE ShardDelivery ---------------------------
(***************************************************************************)
(* The proxies and the manager of one ShardingConfig, with the cluster     *)
(* around them: a workload that keeps replacing deleted Pods, users who    *)
(* edit the ShardingConfig, and faults of proxies, streams and manager.    *)
(***************************************************************************)
EXTENDS SpecProxy, ShardServer, Functions

CONSTANTS
    Replicas,     \* how many Pods the workload runs at a time
    MaxEnv,       \* how many edits and faults happen
    Faults        \* which of them may

FaultKind == {"edit", "break", "crash", "wipe", "restart", "unready", "relabel", "late", "elect", "api"}
ASSUME DeliveryAssumption == Replicas \in Nat /\ MaxEnv \in Nat /\ Faults \subseteq FaultKind

VARIABLE env      \* how many are left

vars == <<pod, stream, proxy, serverVars, env>>

Init ==
    /\ pod = [p \in Pod |-> AbsentPod] /\ stream = [p \in Pod |-> Closed]
    /\ proxy = [p \in Pod |-> DownProxy]
    /\ config = (CHOOSE h \in Hash : TRUE)
    /\ seen = [p \in Pod |-> AbsentPod] /\ conn = [p \in Pod |-> NoConn] /\ dying = {}
    /\ hashExp = [p \in Pod |-> None] /\ delExp = {}
    /\ queue = TRUE /\ timer = FALSE /\ rec = Idle
    /\ env = MaxEnv

----------------------------------------------------------------------------
(* The cluster.                                                            *)
Becomes(p, phase) == pod' = [pod EXCEPT ![p] = [@ EXCEPT !.phase = phase, !.ready = FALSE]]

CreatePod(p) ==
    /\ pod[p].phase = "absent" /\ \A q \in 1 .. p - 1 : pod[q].phase # "absent"
    /\ Cardinality({q \in Pod : IsPodActive(pod[q])}) < Replicas
    /\ Becomes(p, "pending")
    /\ UNCHANGED <<stream, proxy, seen>>

RunPod(p) ==
    /\ pod[p].phase = "pending"
    /\ Becomes(p, "running")
    /\ UNCHANGED <<stream, proxy, seen>>

(* The containers of a Pod being deleted stop, its proxy among them.       *)
StopContainers(p) ==
    /\ pod[p].phase = "terminating"
    /\ Becomes(p, "gone")
    /\ proxy' = [proxy EXCEPT ![p] = DownProxy]
    /\ stream' = [stream EXCEPT ![p] = Closed]
    /\ UNCHANGED seen

ReadyPod(p) ==
    /\ pod[p].phase = "running" /\ ~ pod[p].ready /\ proxy[p].serving
    /\ pod' = [pod EXCEPT ![p].ready = TRUE]
    /\ UNCHANGED <<stream, proxy, seen>>

ClusterStep(p) ==
    /\ CreatePod(p) \/ RunPod(p) \/ StopContainers(p) \/ ReadyPod(p)
    /\ UNCHANGED <<config, conn, dying, hashExp, delExp, queue, timer, rec, env>>

----------------------------------------------------------------------------
(* Users and faults.                                                       *)
May(kind) == kind \in Faults /\ env > 0 /\ env' = env - 1

EditConfig(h) ==
    /\ May("edit") /\ h # config
    /\ config' = h /\ queue' = TRUE
    /\ UNCHANGED <<pod, stream, proxy, seen, conn, dying, hashExp, delExp, timer, rec>>

BreakStream(p) ==
    /\ May("break") /\ stream[p].state # "closed"
    /\ stream' = [stream EXCEPT ![p] = Closed]
    /\ UNCHANGED <<pod, proxy, serverVars>>

Crash(p) ==
    /\ \/ May("crash") /\ CrashProxy(p, TRUE)
       \/ May("wipe") /\ CrashProxy(p, FALSE)
    /\ UNCHANGED serverVars

Unready(p) ==
    /\ May("unready") /\ IsPodReady(pod[p])
    /\ pod' = [pod EXCEPT ![p].ready = FALSE]
    /\ UNCHANGED <<stream, proxy, serverVars>>

Relabel(p) ==
    /\ May("relabel") /\ IsPodActive(pod[p]) /\ pod[p].matches
    /\ pod' = [pod EXCEPT ![p].matches = FALSE]
    /\ UNCHANGED <<stream, proxy, serverVars>>

Elect(p) ==
    /\ May("elect")
    /\ UpdateLeaderElection(p)
    /\ UNCHANGED serverVars

FailDelete ==
    /\ May("api")
    /\ \E refused \in (SUBSET PodsToDelete) \ {{}} : DeletePods(refused)
    /\ UNCHANGED proxy

(* A new manager takes over: the old one's streams end, and it starts with *)
(* a cache it has just filled and empty expectations.                      *)
RestartManager ==
    /\ May("restart")
    /\ stream' = [p \in Pod |-> Closed]
    /\ seen' = pod /\ conn' = [p \in Pod |-> NoConn] /\ dying' = {}
    /\ hashExp' = [p \in Pod |-> None] /\ delExp' = {}
    /\ queue' = TRUE /\ timer' = FALSE /\ rec' = Idle
    /\ UNCHANGED <<pod, proxy, config>>

Environment ==
    \/ \E h \in Hash : EditConfig(h)
    \/ \E p \in Pod : BreakStream(p) \/ Crash(p) \/ Unready(p) \/ Relabel(p) \/ Elect(p)
    \/ FailDelete \/ RestartManager

----------------------------------------------------------------------------
ProxyActs(p) ==
    /\ StartProxy(p) \/ Connect(p) \/ RecvSpec(p) \/ LoadSpec(p) \/ SendStatus(p)
    /\ UNCHANGED <<serverVars, env>>

(* Without the fault "late" the end of a stream is noticed before the      *)
(* proxy's next one is served.                                             *)
Serve(p) ==
    /\ Register(p)
    /\ "late" \in Faults \/ ~ conn[p].up \/ conn[p].disconnected
    /\ UNCHANGED <<proxy, env>>

ServerReads(p) ==
    /\ ObservePod(p) \/ RecvStatus(p) \/ Teardown(p) \/ LateTeardown(p)
    /\ UNCHANGED <<proxy, env>>

Worker == (Reconcile \/ Requeue) /\ UNCHANGED <<proxy, env>>

Next ==
    \/ \E p \in Pod : ClusterStep(p) \/ ProxyActs(p) \/ Serve(p) \/ ServerReads(p)
    \/ Worker
    \/ Environment

DeliverySpec == Init /\ [][Next]_vars

(* The cluster, the proxies and the manager keep running; users and faults *)
(* need not come.                                                          *)
Fairness ==
    /\ \A p \in Pod : /\ WF_vars(ClusterStep(p)) /\ WF_vars(ProxyActs(p))
                      /\ WF_vars(Serve(p)) /\ WF_vars(ServerReads(p))
    /\ WF_vars(Worker)

FairDelivery == DeliverySpec /\ Fairness

----------------------------------------------------------------------------
ProxyType == [up : BOOLEAN, expected : SpecType, current : SpecType, half : BOOLEAN,
              serving : BOOLEAN, prev : Status, lead : BOOLEAN,
              expectedFile : SpecType, currentFile : SpecType]

(* The state of both ends is well formed.                                  *)
TypeOK ==
    /\ pod \in [Pod -> PodObj] /\ stream \in [Pod -> Stream]
    /\ proxy \in [Pod -> ProxyType]
    /\ config \in Hash /\ seen \in [Pod -> PodObj] /\ conn \in [Pod -> ConnType]
    /\ dying \subseteq Pod /\ hashExp \in [Pod -> Hash \cup {None}] /\ delExp \subseteq Pod
    /\ queue \in BOOLEAN /\ timer \in BOOLEAN
    /\ rec \in [pc : {"idle", "act"}, spec : Hash \cup {None}, pods : [Pod -> SyncPod]]
    /\ env \in 0 .. MaxEnv

(* The limits a proxy filters with are those of one spec: although the     *)
(* files grow at their end, no restart makes it run a union of specs.      *)
Whole == \A p \in Pod : LET c == proxy[p].current IN c.limits = {c.hash} \ {None}

(* When Reconcile decides, every connected Pod it decides about has taken  *)
(* and reported whatever was sent to it ("filter and wait for all pods     *)
(* satisfied").                                                            *)
AllSatisfied ==
    rec.pc = "act" => \A p \in Pod :
        rec.pods[p].synced /\ rec.pods[p].fresh /\ stream[p].state = "open" =>
            Range(stream[p].down) \cup {proxy[p].expected.hash} = {rec.pods[p].status.exp}

(* The spec a proxy serves with, and the one it will start with.           *)
Running == [p \in Pod |-> IF proxy[p].up /\ proxy[p].serving THEN proxy[p].current.hash ELSE None]
Saved == [p \in Pod |-> IF proxy[p].currentFile.hash # None THEN proxy[p].currentFile.hash
                        ELSE proxy[p].expectedFile.hash]

Rollout == INSTANCE SpecRollout WITH running <- Running, saved <- Saved

(* The protocol implements SpecRollout: a proxy takes up a spec only when  *)
(* every other proxy has that same spec or none, and keeps it for life.    *)
RolloutSpec == Rollout!Spec

(* In the end every Pod that stays serves the ShardingConfig as it is,     *)
(* through manager restarts, late teardowns and lost streams.              *)
Converges == <>[](\A p \in Pod : IsPodActive(pod[p]) => Running[p] = config)
=============================================================================
