--------------------------- MODULE MCControllers ----------------------------
(* The CircuitBreaker controller or the FaultInjection controller, on the  *)
(* same instance; `controller` says which of the two runs.                 *)
EXTENDS MCBreakerController

VARIABLE controller

F == INSTANCE FaultController WITH Fault <- Breaker, FaultSpec <- BreakerSpec

both == <<controller, vars>>

Of(name, A) == controller = name /\ A /\ UNCHANGED controller

ReconcileOf(b) == Of("circuitbreaker", Reconcile(b)) \/ Of("faultinjection", F!Reconcile(b))
WatchOf(b) == Of("circuitbreaker", Watch(b)) \/ Of("faultinjection", F!Watch(b))
RequeueOf(b) == Of("circuitbreaker", Requeue(b)) \/ Of("faultinjection", F!Requeue(b))

ControllersInit ==
    /\ Init
    /\ \/ controller = "circuitbreaker"
       \/ controller = "faultinjection" /\ pod[p1].label = l1

ControllersSpec ==
    /\ ControllersInit
    /\ [][Of("circuitbreaker", Next) \/ Of("faultinjection", F!Next)]_both
    /\ \A b \in Breaker : WF_both(ReconcileOf(b)) /\ WF_both(WatchOf(b)) /\ WF_both(RequeueOf(b))
=============================================================================
