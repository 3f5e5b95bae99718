------------------------------ MODULE ShardNet ------------------------------
(***************************************************************************)
(* What the two ends of the sharding protocol share: the Pods that carry a *)
(* proxy of one ShardingConfig, as the API server keeps them, and the      *)
(* gRPC stream each proxy holds with the manager.  The proxy's end is      *)
(* SpecProxy, the manager's end is ShardServer, and ShardDelivery composes *)
(* them with the environment.                                              *)
(***************************************************************************)
EXTENDS Integers, Sequences, FiniteSets

CONSTANTS
    Pods,    \* how many Pods are ever created; Reconcile visits them in this order
    Hash,    \* the hashes of the limits a ShardingConfig may hold
    None

ASSUME PodsAssumption == Pods \in Nat \ {0}
ASSUME NoneAssumption == None \notin Hash
ASSUME HashAssumption == Hash # {}

VARIABLES
    pod,     \* pod[p]: the Pod object
    stream   \* stream[p]: the stream of the proxy of p, as the proxy sees it

Pod == 1 .. Pods

(* A Pod is Pending, Running, or being deleted with containers that still  *)
(* run; it is gone when the last of them has stopped.                      *)
Phase == {"absent", "pending", "running", "terminating", "gone"}
PodObj == [phase : Phase, ready : BOOLEAN, matches : BOOLEAN]
AbsentPod == [phase |-> "absent", ready |-> FALSE, matches |-> TRUE]

Exists(o) == o.phase \notin {"absent", "gone"}
IsPodActive(o) == o.phase \in {"pending", "running"}
getRunningContainers(o) == o.phase = "terminating"
IsPodReady(o) == o.phase = "running" /\ o.ready

(* What a proxy reports: no meta state before it has a spec, then the      *)
(* hashes it expects and runs, and whether its workload is the leader.     *)
NoMeta == [exp |-> None, cur |-> None, lead |-> FALSE]
Status == [exp : Hash \cup {None}, cur : Hash \cup {None}, lead : BOOLEAN]

(* A stream the proxy has opened ("new") or that Register serves ("open"), *)
(* with the messages under way in each direction; breaking it loses them.  *)
Stream == [state : {"closed", "new", "open"}, up : Seq(Status), down : Seq(Hash)]
Closed == [state |-> "closed", up |-> <<>>, down |-> <<>>]
=============================================================================
