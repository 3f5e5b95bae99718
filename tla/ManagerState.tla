---------------------------- MODULE ManagerState ----------------------------
(***************************************************************************)
(* How proxies find the leading manager.  The leader runs the controller   *)
(* of the ManagerState object (pkg/manager/controllers/managerstate), and  *)
(* the gRPC server of its registry (pkg/grpcregistry), both only while it  *)
(* leads.  A proxy connects to the endpoint the object names as leader     *)
(* (connect in pkg/proxy/proto/grpc.go).                                   *)
(*                                                                         *)
(* The election of managers is controller-runtime's: a manager whose lease *)
(* has run out may work on until it notices, and then exits.  Versions of  *)
(* the object are not counted; a copy is "current" or "old".               *)
(***************************************************************************)
EXTENDS Naturals, FiniteSets

CONSTANTS Nil, Manager, MaxTroubles

VARIABLES
    lease,     \* the manager that holds the lease, or Nil
    active,    \* the managers whose pods are active
    leading,   \* the managers that run what only the leader runs
    state,     \* the status of ManagerState: [endpoints, leader], Nil if there is none
    pods,      \* pods[m]: the active pods in the cache of m
    view,      \* view[m]: its cached copy of the object, "none", "old" or "current"
    event,     \* the managers to whom changes of the object are on their way
    queued,    \* the managers whose work queue holds the object
    pass,      \* pass[m]: the reconciliation under way: [at, endpoints, copy]
    known,     \* the status in the proxy's cache
    conn,      \* the manager the proxy is connected to, or Nil
    troubles

election == <<lease, active, leading>>
cached == <<pods, view, event, queued>>
proxyVars == <<known, conn>>
stateVars == <<election, state, cached, pass, proxyVars, troubles>>

Rest == [at |-> "rest", endpoints |-> {}, copy |-> "none"]
NoStatus == [endpoints |-> {}, leader |-> Nil]
Exists == IF state = Nil THEN "none" ELSE "current"

StateInit ==
    /\ lease = Nil
    /\ active = Manager
    /\ leading = {}
    /\ state = Nil
    /\ pods = [m \in Manager |-> Manager]
    /\ view = [m \in Manager |-> "none"]
    /\ event = {}
    /\ queued = {}
    /\ pass = [m \in Manager |-> Rest]
    /\ known = Nil
    /\ conn = Nil
    /\ troubles = 0

Trouble == troubles < MaxTroubles /\ troubles' = troubles + 1

-----------------------------------------------------------------------------
(* A manager takes a free lease.  Its controllers start on synced caches,  *)
(* with every object queued, and the registry starts its server.           *)
Acquire(m) ==
    /\ lease = Nil
    /\ m \in active \ leading
    /\ lease' = m
    /\ leading' = leading \cup {m}
    /\ pods' = [pods EXCEPT ![m] = active]
    /\ view' = [view EXCEPT ![m] = Exists]
    /\ event' = event \ {m}
    /\ queued' = queued \cup {m}
    /\ UNCHANGED <<active, state, pass, proxyVars, troubles>>

(* The process ends, and with it the reconciliation and the connections.   *)
Stop(m) ==
    /\ leading' = leading \ {m}
    /\ queued' = queued \ {m}
    /\ pass' = [pass EXCEPT ![m] = Rest]
    /\ conn' = IF conn = m THEN Nil ELSE conn

Expire ==
    /\ Trouble
    /\ lease # Nil
    /\ lease' = Nil
    /\ UNCHANGED <<active, leading, state, cached, pass, proxyVars>>

Resign(m) ==
    /\ m \in leading
    /\ lease # m
    /\ Stop(m)
    /\ UNCHANGED <<lease, active, state, pods, view, event, known, troubles>>

PodDown(m) ==
    /\ Trouble
    /\ m \in active
    /\ active' = active \ {m}
    /\ Stop(m)
    /\ lease' = IF lease = m THEN Nil ELSE lease
    /\ UNCHANGED <<state, pods, view, event, known>>

PodUp(m) ==
    /\ m \notin active
    /\ active' = active \cup {m}
    /\ UNCHANGED <<lease, leading, state, cached, pass, proxyVars, troubles>>

-----------------------------------------------------------------------------
(* The watches of SetupWithManager: of the object, and of the pods the     *)
(* service of the manager selects.                                         *)
WatchState(m) ==
    /\ m \in leading \cap event
    /\ event' = event \ {m}
    /\ view' = [view EXCEPT ![m] = Exists]
    /\ queued' = queued \cup {m}
    /\ UNCHANGED <<election, state, pods, pass, proxyVars, troubles>>

WatchPods(m) ==
    /\ m \in leading
    /\ pods[m] # active
    /\ pods' = [pods EXCEPT ![m] = active]
    /\ queued' = queued \cup {m}
    /\ UNCHANGED <<election, state, view, event, pass, proxyVars, troubles>>

(* Reconcile up to its write.  A manager that does not find itself among   *)
(* the active pods gives up, and the request is queued again.              *)
Reconcile(m) ==
    /\ m \in leading \cap queued
    /\ pass[m].at = "rest"
    /\ m \in pods[m]
    /\ pass' = [pass EXCEPT ![m] = [at |-> "write", endpoints |-> pods[m], copy |-> view[m]]]
    /\ queued' = queued \ {m}
    /\ UNCHANGED <<election, state, pods, view, event, proxyVars, troubles>>

Aged(copy) == IF copy = "current" THEN "old" ELSE copy

(* A write makes every copy old.                                           *)
Written(m, status) ==
    /\ state' = status
    /\ event' = Manager
    /\ view' = [k \in Manager |-> Aged(view[k])]
    /\ pass' = [k \in Manager |-> IF k = m THEN Rest ELSE [pass[k] EXCEPT !.copy = Aged(@)]]

(* The object is created without its status, which is a subresource.  That *)
(* it exists already is no error, and nothing is queued again.             *)
CreateState(m) ==
    /\ pass[m].at = "write"
    /\ pass[m].copy = "none"
    /\ IF state = Nil THEN Written(m, NoStatus)
       ELSE pass' = [pass EXCEPT ![m] = Rest] /\ UNCHANGED <<state, view, event>>
    /\ UNCHANGED <<election, pods, queued, proxyVars, troubles>>

(* The timestamp differs in every pass, so every pass writes; an old copy  *)
(* makes a conflict.                                                       *)
UpdateState(m) ==
    /\ pass[m].at = "write"
    /\ pass[m].copy # "none"
    /\ IF pass[m].copy = "current" /\ state # Nil
       THEN /\ Written(m, [endpoints |-> pass[m].endpoints, leader |-> m])
            /\ queued' = queued
       ELSE /\ pass' = [pass EXCEPT ![m] = Rest]
            /\ queued' = queued \cup {m}
            /\ UNCHANGED <<state, view, event>>
    /\ UNCHANGED <<election, pods, proxyVars, troubles>>

CallFails(m) ==
    /\ Trouble
    /\ pass[m].at = "write"
    /\ pass' = [pass EXCEPT ![m] = Rest]
    /\ queued' = queued \cup {m}
    /\ UNCHANGED <<election, state, pods, view, event, proxyVars>>

DeleteState ==
    /\ Trouble
    /\ state # Nil
    /\ state' = Nil
    /\ event' = Manager
    /\ view' = [m \in Manager |-> Aged(view[m])]
    /\ pass' = [m \in Manager |-> [pass[m] EXCEPT !.copy = Aged(@)]]
    /\ UNCHANGED <<election, pods, queued, proxyVars>>

-----------------------------------------------------------------------------
(* The proxy: its informer, and connect, which waits for a status with a   *)
(* leader and dials it.  Only a leading manager answers on that port.      *)
Learn ==
    /\ known # state
    /\ known' = state
    /\ UNCHANGED <<election, state, cached, pass, conn, troubles>>

MutConnect ==
    /\ conn = Nil
    /\ known \notin {Nil, NoStatus}
    /\ \E m \in known.endpoints :
          /\ m = CHOOSE x \in known.endpoints : TRUE
          /\ m \in leading
          /\ conn' = m
    /\ UNCHANGED <<election, state, cached, pass, known, troubles>>

Connect ==
    /\ conn = Nil
    /\ known \notin {Nil, NoStatus}
    /\ known.leader \in leading
    /\ conn' = known.leader
    /\ UNCHANGED <<election, state, cached, pass, known, troubles>>

Work(m) ==
    \/ Acquire(m) \/ Resign(m) \/ PodUp(m)
    \/ WatchState(m) \/ WatchPods(m)
    \/ Reconcile(m) \/ CreateState(m) \/ UpdateState(m)

StateNext ==
    \/ \E m \in Manager : Work(m) \/ PodDown(m) \/ CallFails(m)
    \/ Expire
    \/ DeleteState
    \/ Learn
    \/ Connect

(* Managers and informers work on, the election finds a leader, a manager  *)
(* without a lease exits, and pods are replaced.                           *)
StateFairness ==
    /\ \A m \in Manager :
        /\ SF_stateVars(Acquire(m))
        /\ WF_stateVars(Resign(m))
        /\ WF_stateVars(PodUp(m))
        /\ WF_stateVars(WatchState(m))
        /\ WF_stateVars(WatchPods(m))
        /\ WF_stateVars(Reconcile(m))
        /\ WF_stateVars(CreateState(m) \/ UpdateState(m))
    /\ WF_stateVars(Learn)
    /\ WF_stateVars(Connect)

StateSpec == StateInit /\ [][StateNext]_stateVars /\ StateFairness

-----------------------------------------------------------------------------
(* In the end the object names the holder of the lease and all active pods *)
(* and the proxy is connected to the holder, and all stays so.  A manager  *)
(* that has lost the lease may still write, creations may collide, and the *)
(* controller rewrites the object forever; a connection to a former leader *)
(* ends with that manager, and the next attempt reads the object again.    *)
ProxyFollows ==
    <>[](/\ lease # Nil
         /\ state = [endpoints |-> active, leader |-> lease]
         /\ conn = lease)
=============================================================================
