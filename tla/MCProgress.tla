----------------------------- MODULE MCProgress -----------------------------
(***************************************************************************)
(* What must eventually happen.  Five parts that share no state are        *)
(* checked beside each other; `part` says which of them runs:              *)
(*   rollout    a rolling upgrade of shards              (Rollout)         *)
(*   election   the leaders of two shards                (LeaderElection)  *)
(*   breaker    the recovery of open breakers            (CircuitBreaker)  *)
(*   manager    the leading manager and its proxies      (ManagerState)    *)
(*   split      a root is split into shards              (AutoSharding)    *)
(***************************************************************************)
EXTENDS MCRollout, LeaderElection, AutoSharding

CONSTANTS q10, StateId, NoRule, NoConfig, NoState, r1, Manager, MaxTroubles

VARIABLES
    part,
    breakerMap, rules, states, indices, heap, stateSet, stateQueue, loop, sync, req, orphaned,
    mLease, active, mLeading, state, mPods, view, event, mQueued, mPass, known, conn, troubles

breakerVars == <<breakerMap, rules, states, indices, heap, stateSet, stateQueue, loop, sync,
                 req, orphaned>>
electedVars == <<mLease, active, mLeading, state, mPods, view, event, mQueued, mPass,
                 known, conn, troubles>>
progressVars == <<part, rolloutVars, electionVars, breakerVars, electedVars, shardingVars>>

MCShardOf == (p1 :> "a") @@ (p10 :> "a") @@ (q1 :> "b") @@ (q10 :> "b")
MCResourceLock == [e \in Elector |-> IF MCShardOf[e] = "a" THEN "leases" ELSE "configmaps"]

(* Two rules that a request meets together, one with an empty window, and  *)
(* a configuration that is never replaced.                                 *)
Window(n) == [seeds |-> {"s1"}, policy |-> "NORMAL", recover |-> "SLEEPING_WINDOW", window |-> n]
WindowPair ==
    {[name |-> "b1", limitings |-> <<[name |-> "l1", rule |-> Window(2)],
                                     [name |-> "l2", rule |-> Window(0)]>>]}
C == INSTANCE CircuitBreaker WITH
        Breaker <- {"b1"}, Limiting <- {"l1", "l2"}, Seed <- {"s1"}, Config <- WindowPair,
        Lookup <- {<<"s1">>}, Request <- {r1}, MaxWindow <- 2, Options <- {"UPDATE"}

M == INSTANCE ManagerState WITH
        lease <- mLease, leading <- mLeading, pods <- mPods, queued <- mQueued, pass <- mPass

(* Seven roots: two good ones with different numbers of shards, one of     *)
(* them again but disabled, and one each without a canary section, with no *)
(* canary replicas, with both kinds of canary objects, with repeated       *)
(* resources.                                                              *)
Make(canary, size, resources, disable) ==
    [canary |-> canary, auto |-> [shardingSize |-> size, everyShardReplicas |-> 2],
     resources |-> resources, disable |-> disable]
Canary(replicas, ns, hash) == [replicas |-> replicas, inNamespaces |-> ns, inShardHash |-> hash]

Deployments == << <<"apps", "deployments">> >>
ByNamespace == Make(Canary(1, {"grey"}, {}), 2, Deployments, FALSE)
ByHash == Make(Canary(2, {}, {0}), 3, Deployments, FALSE)

MCRootSpecs ==
    { ByNamespace, ByHash, Make(Canary(1, {"grey"}, {}), 2, Deployments, TRUE),
      Make(Nil, 1, Deployments, FALSE), Make(Canary(0, {"grey"}, {}), 1, Deployments, FALSE),
      Make(Canary(1, {"grey"}, {0}), 1, Deployments, FALSE),
      Make(Canary(1, {"grey"}, {}), 1, Deployments \o Deployments, FALSE) }
MCNamespaces == {"grey", "white"}

ProgressInit ==
    /\ part \in {"rollout", "election", "breaker", "manager", "split"}
    /\ RolloutInit /\ ElectionInit /\ C!Init /\ M!StateInit /\ ShardingInit

ProgressNext ==
    \/ part = "rollout" /\ RolloutNext /\ UNCHANGED <<part, electionVars, breakerVars, electedVars, shardingVars>>
    \/ part = "election" /\ ElectionNext /\ UNCHANGED <<part, rolloutVars, breakerVars, electedVars, shardingVars>>
    \/ part = "breaker" /\ C!Next /\ UNCHANGED <<part, rolloutVars, electionVars, electedVars, shardingVars>>
    \/ part = "manager" /\ M!StateNext /\ UNCHANGED <<part, rolloutVars, electionVars, breakerVars, shardingVars>>
    \/ part = "split" /\ ShardingNext /\ UNCHANGED <<part, rolloutVars, electionVars, breakerVars, electedVars>>

(* The fairness of each part, written out: as a disjunction of the parts'  *)
(* own it would give TLC many more combinations to look at.                *)
ProgressFairness ==
    /\ WF_rolloutVars(part = "rollout" /\ RollingStep)
    /\ WF_rolloutVars(part = "rollout" /\ WatchSts) /\ WF_rolloutVars(part = "rollout" /\ WatchPods)
    /\ \A p \in Pods : WF_rolloutVars(part = "rollout" /\ ClusterStep(p))
    /\ \A c \in Configs : WF_rolloutVars(part = "rollout" /\ \E p \in Members(c) : Elect(p))
    /\ \A e \in Elector : WF_electionVars(part = "election" /\ Campaign(e))
    /\ WF_breakerVars(part = "breaker" /\ C!SyncStep) /\ WF_breakerVars(part = "breaker" /\ C!LoopStep)
    /\ WF_breakerVars(part = "breaker" /\ C!Tick) /\ WF_breakerVars(part = "breaker" /\ C!RequestStep(r1))
    /\ \A st \in StateId : WF_breakerVars(part = "breaker" /\ C!TimerFires(st))
    /\ \A m \in Manager :
          /\ SF_electedVars(part = "manager" /\ M!Acquire(m))
          /\ WF_electedVars(part = "manager" /\ M!Resign(m)) /\ WF_electedVars(part = "manager" /\ M!PodUp(m))
          /\ WF_electedVars(part = "manager" /\ M!WatchState(m)) /\ WF_electedVars(part = "manager" /\ M!WatchPods(m))
          /\ WF_electedVars(part = "manager" /\ M!Reconcile(m))
          /\ WF_electedVars(part = "manager" /\ (M!CreateState(m) \/ M!UpdateState(m)))
    /\ WF_electedVars(part = "manager" /\ M!Learn) /\ WF_electedVars(part = "manager" /\ M!Connect)
    /\ WF_shardingVars(part = "split" /\ Worker)
    /\ WF_shardingVars(part = "split" /\ WatchRoot) /\ WF_shardingVars(part = "split" /\ WatchChildren)

ProgressSpec ==
    /\ ProgressInit
    /\ [][ProgressNext]_progressVars
    /\ ProgressFairness

(* The properties of the parts, each of the part that runs.                *)
RolloutsEnd == part = "rollout" => RolloutEnds
ShardsLed == part = "election" => EveryShardLed
ClosedByPolicy == C!ClosedByPolicy
WindowRecovers == C!WindowRecovers
ProxyFollows == part = "manager" => M!ProxyFollows
=============================================================================
