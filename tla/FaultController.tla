-------------------------- MODULE FaultController ---------------------------
(***************************************************************************)
(* The FaultInjection controller of ctrlmesh-manager                       *)
(* (pkg/manager/controllers/faultinjection).  Statement by statement it is *)
(* the controller BreakerController models, with FaultInjection objects    *)
(* and the FaultInject service of the proxies for CircuitBreaker objects   *)
(* and the Throttling service; the snapshots it does without are not part  *)
(* of that model.  So each of its operations is the operation there.       *)
(***************************************************************************)
EXTENDS Integers

CONSTANTS Fault, Pod, Label, Hash, FaultSpec, Env, MaxEnv, NoSpec, NoHash, NoTarget

VARIABLES obj, seen, news, pod, proxy, podCache, queue, timer, rec, env

Twin == INSTANCE BreakerController WITH Breaker <- Fault, BreakerSpec <- FaultSpec

vars == <<obj, seen, news, pod, proxy, podCache, queue, timer, rec, env>>

Init == Twin!Init

-----------------------------------------------------------------------------
(* Reconcile and tryClearOrAddFinalizer.                                   *)
Get(f) == Twin!Get(f)
AddFinalizer(f) == Twin!AddFinalizer(f)
List(f) == Twin!List(f)
SyncPod(f, p) == Twin!SyncPod(f, p)
UnselectPod(f, p) == Twin!UnselectPod(f, p)
Synced(f) == Twin!Synced(f)
UpdateStatus(f) == Twin!UpdateStatus(f)
ClearStatus(f) == Twin!ClearStatus(f)
Requeue(f) == Twin!Requeue(f)

ClearPod(f, p) == Twin!ClearPod(f, p)
RemoveFinalizer(f) == Twin!RemoveFinalizer(f)

(* The object and Pod informers, with FaultInjectionPredicate and          *)
(* podEventHandler deciding what is enqueued.                              *)
Watch(f) == Twin!Watch(f)
Relabel(p, l) == Twin!Relabel(p, l)
RemovePod(p) == Twin!RemovePod(p)
BecomeReady(p) == Twin!BecomeReady(p)

RestartManager == Twin!RestartManager

Reconcile(f) ==
    \/ Get(f) \/ AddFinalizer(f) \/ List(f) \/ Synced(f) \/ UpdateStatus(f)
    \/ \E p \in Pod : SyncPod(f, p) \/ UnselectPod(f, p) \/ ClearPod(f, p)
    \/ ClearStatus(f) \/ RemoveFinalizer(f)

Environment ==
    \/ \E f \in Fault, s \in FaultSpec : Twin!CreateOrEdit(f, s)
    \/ \E f \in Fault : Twin!ToggleDisabled(f) \/ Twin!DeleteObject(f)
    \/ \E p \in Pod, l \in Label : Relabel(p, l)
    \/ \E p \in Pod : Twin!Flap(p) \/ Twin!RestartProxy(p) \/ BecomeReady(p) \/ RemovePod(p) \/ Twin!RecreatePod(p)
    \/ RestartManager

Next == Environment \/ \E f \in Fault : Reconcile(f) \/ Watch(f) \/ Requeue(f)
=============================================================================
