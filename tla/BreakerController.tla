------------------------- MODULE BreakerController -------------------------
(***************************************************************************)
(* The CircuitBreaker controller of ctrlmesh-manager                       *)
(* (pkg/manager/controllers/circuitbreaker): it keeps the proxies of the   *)
(* pods a CircuitBreaker selects in step with its spec, and takes the      *)
(* configuration away from pods no longer selected and when the object is  *)
(* disabled or deleted.                                                    *)
(*                                                                         *)
(* One worker reconciles one object at a time.  It works on the object it  *)
(* read first, writes back with optimistic concurrency, and between its    *)
(* calls the users edit the object, pods come, go and change their labels, *)
(* and the manager restarts and loses its podCache, queue and workers.     *)
(*                                                                         *)
(* The object is read from the informer's cache, which lags behind the    *)
(* API server.                                                             *)
(*                                                                         *)
(* What is abstracted: a spec is its hash and the label it selects; a      *)
(* proxy is the hash it has for every object (CircuitBreaker models what   *)
(* it does with it); a pod has one name and one address, and the cache of  *)
(* pods does not lag.                                                      *)
(***************************************************************************)
EXTENDS Integers, FiniteSets

CONSTANTS
    Breaker,    \* names of CircuitBreaker objects
    Pod,        \* names of pods with a proxy container
    Label,      \* label values
    Hash,       \* hashes of converted specs
    BreakerSpec,\* the specs users write: [hash, label]
    Env,        \* what the environment does: a subset of EnvKind
    MaxEnv,     \* bound on the steps of the environment and on failed calls
    NoSpec,     \* the object does not exist
    NoHash,     \* no configuration; an empty ConfigHash
    NoTarget    \* not in TargetStatus

EnvKind == {"edit", "disable", "delete", "relabel", "flap", "restartProxy", "removePod",
            "restartManager", "callFails", "replyLost"}

ASSUME SpecAssumption == BreakerSpec \subseteq [hash : Hash, label : Label]
ASSUME NullAssumption ==
    NoSpec \notin BreakerSpec /\ NoHash \notin Hash /\ NoTarget \notin Hash \cup {NoHash}
ASSUME EnvAssumption == Env \subseteq EnvKind /\ MaxEnv \in Nat

VARIABLES
    obj,        \* the CircuitBreaker objects in the API server
    seen,       \* the informer's copy of them
    news,       \* writes the informer has not seen: none, or do they pass BreakerPredicate
    pod,        \* the pods in the API server
    proxy,      \* the configurations the proxies hold
    podCache,   \* defaultPodConfigCache
    queue,      \* objects in the controller's work queue
    timer,      \* objects with a requeue after defaultRequeueTime
    rec,        \* the workers
    env         \* steps the environment has left

vars == <<obj, seen, news, pod, proxy, podCache, queue, timer, rec, env>>

NoTargets == [p \in Pod |-> NoTarget]
NoObj == [spec |-> NoSpec, disabled |-> FALSE, deleting |-> FALSE, finalizer |-> FALSE, status |-> NoTargets]
IdleRec == [pc |-> "idle", spec |-> NoSpec, status |-> NoTargets, fresh |-> TRUE,
            todo |-> {}, avail |-> {}, target |-> NoTargets, err |-> FALSE]

Exists(o) == o.spec # NoSpec
Targets(status) == {p \in Pod : status[p] # NoTarget}
isProxyAvailable(p) == pod[p].phase = "ready"
Selected(label) == {p \in Pod : pod[p].phase # "absent" /\ pod[p].label = label}

-----------------------------------------------------------------------------
(* BreakerPredicate: which changes of an object reach the work queue.  The *)
(* selector is not part of the hash.                                       *)
BreakerPredicate(old, new) ==
    \/ Exists(old) # Exists(new)
    \/ new.deleting
    \/ old.finalizer # new.finalizer
    \/ old.disabled # new.disabled
    \/ Exists(old) /\ Exists(new) /\ old.spec.hash # new.spec.hash

(* A write of an object to the API server.  The copy a worker holds is out *)
(* of date unless the worker wrote it itself.                              *)
Write(b, o) ==
    /\ obj' = [obj EXCEPT ![b] = o]
    /\ news' = [news EXCEPT ![b] = IF @ = "event" \/ BreakerPredicate(obj[b], o) THEN "event" ELSE "quiet"]
    /\ UNCHANGED seen

(* The informer catches up.                                                *)
Watch(b) ==
    /\ news[b] # "none"
    /\ seen' = [seen EXCEPT ![b] = obj[b]]
    /\ news' = [news EXCEPT ![b] = "none"]
    /\ queue' = IF news[b] = "event" THEN queue \cup {b} ELSE queue
    /\ UNCHANGED <<obj, pod, proxy, podCache, timer, rec, env>>

objects == <<obj, seen, news>>

(* podCache: the objects a pod is known to have.  Delete without an object *)
(* forgets the pod.                                                        *)
Has(p, b) == b \in podCache[p]
Add(p, b) == podCache' = [podCache EXCEPT ![p] = @ \cup {b}]
Delete(p, bs) == podCache' = [podCache EXCEPT ![p] = IF bs = {} THEN {} ELSE @ \ bs]

(* A call to a proxy.  It reaches a pod that is ready, and may reach one   *)
(* that just stopped being so; the environment may make it fail, or lose   *)
(* the reply.                                                              *)
SendConfig(b, p, hash, ok) ==
    \/ /\ ok
       /\ pod[p].phase \in {"ready", "notReady"}
       /\ proxy' = [proxy EXCEPT ![p][b] = hash]
       /\ UNCHANGED env
    \/ /\ ~ok
       /\ ~isProxyAvailable(p)
       /\ UNCHANGED <<proxy, env>>
    \/ /\ ~ok
       /\ "callFails" \in Env /\ env > 0 /\ isProxyAvailable(p)
       /\ env' = env - 1
       /\ UNCHANGED proxy
    \/ /\ ~ok
       /\ "replyLost" \in Env /\ env > 0 /\ isProxyAvailable(p)
       /\ env' = env - 1
       /\ proxy' = [proxy EXCEPT ![p][b] = hash]

(* Mutant: the deferred RequeueAfter is missing.                           *)
FinishWithoutRequeue(b, err, requeue) ==
    /\ rec' = [rec EXCEPT ![b] = IdleRec]
    /\ queue' = IF err THEN queue \cup {b} ELSE queue
    /\ UNCHANGED timer

(* The end of a reconcile: an error is retried, success comes back after   *)
(* defaultRequeueTime, and nothing comes back once the object is cleared.  *)
Finish(b, err, requeue) ==
    /\ rec' = [rec EXCEPT ![b] = IdleRec]
    /\ queue' = IF err THEN queue \cup {b} ELSE queue
    /\ timer' = IF ~err /\ requeue THEN timer \cup {b} ELSE timer

(* Reconcile reads the object.  The rest of the call works on this copy.   *)
Get(b) ==
    /\ b \in queue
    /\ rec[b].pc = "idle"
    /\ queue' = queue \ {b}
    /\ LET o == seen[b]
           clearing == o.disabled \/ o.deleting
           pc == IF ~Exists(o) \/ (clearing /\ ~o.finalizer) THEN "idle"
                 ELSE IF clearing THEN "clear"
                 ELSE IF ~o.finalizer THEN "addFinalizer" ELSE "list"
       IN  rec' = [rec EXCEPT ![b] =
                     IF pc = "idle" THEN IdleRec
                     ELSE [IdleRec EXCEPT !.pc = pc, !.spec = o.spec, !.status = o.status,
                                          !.fresh = news[b] = "none",
                                          !.todo = IF pc = "clear" THEN Targets(o.status) ELSE {}]]
    /\ UNCHANGED <<objects, pod, proxy, podCache, timer, env>>

(* An update is refused if the object was written since it was read.       *)
AddFinalizer(b) ==
    /\ rec[b].pc = "addFinalizer"
    /\ \/ /\ rec[b].fresh
          /\ Write(b, [obj[b] EXCEPT !.finalizer = TRUE])
          /\ rec' = [rec EXCEPT ![b].pc = "list"]
          /\ UNCHANGED queue
       \/ /\ ~rec[b].fresh
          /\ rec' = [rec EXCEPT ![b] = IdleRec]
          /\ queue' = queue \cup {b}
          /\ UNCHANGED objects
    /\ UNCHANGED <<pod, proxy, podCache, timer, env>>

(* The pods the selector matches, and which of them are available, as they *)
(* are now.                                                                *)
List(b) ==
    /\ rec[b].pc = "list"
    /\ LET selected == Selected(rec[b].spec.label)
       IN  rec' = [rec EXCEPT ![b].pc = "sync", ![b].todo = selected,
                              ![b].avail = {p \in selected : isProxyAvailable(p)}]
    /\ UNCHANGED <<objects, pod, proxy, podCache, queue, timer, env>>

(* currentPodStatus: the hash in the status read first.                    *)
KnownHash(b, p) == IF rec[b].status[p] = NoTarget THEN NoHash ELSE rec[b].status[p]

(* One pod of the list.  For one that was not available all entries of     *)
(* podCache are dropped, those of other objects too.                       *)
SyncPod(b, p) ==
    /\ rec[b].pc = "sync"
    /\ p \in rec[b].todo
    /\ \/ /\ p \notin rec[b].avail
          /\ Delete(p, {})
          /\ rec' = [rec EXCEPT ![b].todo = @ \ {p}, ![b].target[p] = KnownHash(b, p)]
          /\ UNCHANGED <<proxy, env>>
       \/ /\ p \in rec[b].avail
          /\ SendConfig(b, p, rec[b].spec.hash, TRUE)
          /\ Add(p, b)
          /\ rec' = [rec EXCEPT ![b].todo = @ \ {p}, ![b].target[p] = rec[b].spec.hash]
       \/ /\ p \in rec[b].avail
          /\ SendConfig(b, p, rec[b].spec.hash, FALSE)
          /\ rec' = [rec EXCEPT ![b].todo = @ \ {p}, ![b].target[p] = KnownHash(b, p), ![b].err = TRUE]
          /\ UNCHANGED podCache
    /\ UNCHANGED <<objects, pod, queue, timer>>

(* All pods of the list are handled: on to the targets of the status read  *)
(* first that were not in it.                                              *)
Synced(b) ==
    /\ rec[b].pc = "sync"
    /\ rec[b].todo = {}
    /\ rec' = [rec EXCEPT ![b].pc = "unselect", ![b].todo = Targets(rec[b].status) \ Targets(rec[b].target)]
    /\ UNCHANGED <<objects, pod, proxy, podCache, queue, timer, env>>

(* The "delete unselected pods config" loop.  A pod that is gone or not available   *)
(* is dropped from the status; one whose call fails is kept.               *)
UnselectPod(b, p) ==
    /\ rec[b].pc = "unselect"
    /\ p \in rec[b].todo
    /\ \/ /\ pod[p].phase = "absent"
          /\ rec' = [rec EXCEPT ![b].todo = @ \ {p}]
          /\ UNCHANGED <<proxy, podCache, env>>
       \/ /\ pod[p].phase # "absent" /\ ~isProxyAvailable(p)
          /\ Delete(p, {})
          /\ rec' = [rec EXCEPT ![b].todo = @ \ {p}]
          /\ UNCHANGED <<proxy, env>>
       \/ /\ isProxyAvailable(p)
          /\ SendConfig(b, p, NoHash, TRUE)
          /\ Delete(p, {b})
          /\ rec' = [rec EXCEPT ![b].todo = @ \ {p}]
       \/ /\ isProxyAvailable(p)
          /\ SendConfig(b, p, NoHash, FALSE)
          /\ rec' = [rec EXCEPT ![b].todo = @ \ {p}, ![b].target[p] = rec[b].status[p], ![b].err = TRUE]
          /\ UNCHANGED podCache
    /\ UNCHANGED <<objects, pod, queue, timer>>

(* The status is written if it differs from the one read first, in the     *)
(* hashes or in what the model leaves out (messages, snapshots).           *)
UpdateStatus(b) ==
    /\ rec[b].pc = "unselect"
    /\ rec[b].todo = {}
    /\ \/ /\ rec[b].target = rec[b].status
          /\ Finish(b, rec[b].err, TRUE)
          /\ UNCHANGED objects
       \/ /\ rec[b].fresh
          /\ Write(b, [obj[b] EXCEPT !.status = rec[b].target])
          /\ Finish(b, rec[b].err, TRUE)
       \/ /\ ~rec[b].fresh
          /\ Finish(b, TRUE, TRUE)
          /\ UNCHANGED objects
    /\ UNCHANGED <<pod, proxy, podCache, env>>

-----------------------------------------------------------------------------
(* Mutant: a pod that is not available counts as an error.                 *)
ClearPodWaits(b, p) ==
    /\ rec[b].pc = "clear"
    /\ p \in rec[b].todo
    /\ \/ /\ ~isProxyAvailable(p)
          /\ rec' = [rec EXCEPT ![b].todo = @ \ {p}, ![b].err = TRUE]
          /\ UNCHANGED <<proxy, podCache, env>>
       \/ /\ isProxyAvailable(p)
          /\ SendConfig(b, p, NoHash, TRUE)
          /\ Delete(p, {b})
          /\ rec' = [rec EXCEPT ![b].todo = @ \ {p}]
    /\ UNCHANGED <<objects, pod, queue, timer>>

(* clear: one target of an object that is disabled or deleted.  A target   *)
(* that podCache does not know is passed over.                             *)
ClearPod(b, p) ==
    /\ rec[b].pc = "clear"
    /\ p \in rec[b].todo
    /\ \/ /\ ~Has(p, b) \/ (pod[p].phase # "absent" /\ ~isProxyAvailable(p))
          /\ rec' = [rec EXCEPT ![b].todo = @ \ {p}]
          /\ UNCHANGED <<proxy, podCache, env>>
       \/ /\ Has(p, b) /\ pod[p].phase = "absent"
          /\ Delete(p, {b})
          /\ rec' = [rec EXCEPT ![b].todo = @ \ {p}]
          /\ UNCHANGED <<proxy, env>>
       \/ /\ Has(p, b) /\ isProxyAvailable(p)
          /\ SendConfig(b, p, NoHash, TRUE)
          /\ Delete(p, {b})
          /\ rec' = [rec EXCEPT ![b].todo = @ \ {p}]
       \/ /\ Has(p, b) /\ isProxyAvailable(p)
          /\ SendConfig(b, p, NoHash, FALSE)
          /\ rec' = [rec EXCEPT ![b].todo = @ \ {p}, ![b].err = TRUE]
          /\ UNCHANGED podCache
    /\ UNCHANGED <<objects, pod, queue, timer>>

(* The status is emptied once every target is handled without an error.    *)
ClearStatus(b) ==
    /\ rec[b].pc = "clear"
    /\ rec[b].todo = {}
    /\ \/ /\ ~rec[b].err /\ Targets(rec[b].status) = {}
          /\ rec' = [rec EXCEPT ![b].pc = "removeFinalizer"]
          /\ UNCHANGED <<objects, queue, timer>>
       \/ /\ ~rec[b].err /\ Targets(rec[b].status) # {} /\ rec[b].fresh
          /\ Write(b, [obj[b] EXCEPT !.status = NoTargets])
          /\ rec' = [rec EXCEPT ![b].pc = "removeFinalizer"]
          /\ UNCHANGED <<queue, timer>>
       \/ /\ rec[b].err \/ (Targets(rec[b].status) # {} /\ ~rec[b].fresh)
          /\ Finish(b, TRUE, FALSE)
          /\ UNCHANGED objects
    /\ UNCHANGED <<pod, proxy, podCache, env>>

(* Without its finalizer a deleted object is gone.                         *)
WithoutFinalizer(o) == IF o.deleting THEN NoObj ELSE [o EXCEPT !.finalizer = FALSE]

(* Mutant: the finalizer is removed whatever was written meanwhile.        *)
RemoveFinalizerForced(b) ==
    /\ rec[b].pc = "removeFinalizer"
    /\ Write(b, WithoutFinalizer(obj[b]))
    /\ Finish(b, FALSE, FALSE)
    /\ UNCHANGED <<pod, proxy, podCache, env>>

RemoveFinalizer(b) ==
    /\ rec[b].pc = "removeFinalizer"
    /\ \/ /\ rec[b].fresh
          /\ Write(b, WithoutFinalizer(obj[b]))
          /\ Finish(b, FALSE, FALSE)
       \/ /\ ~rec[b].fresh
          /\ Finish(b, TRUE, FALSE)
          /\ UNCHANGED objects
    /\ UNCHANGED <<pod, proxy, podCache, env>>

(* The requeue after defaultRequeueTime comes due.                         *)
Requeue(b) ==
    /\ b \in timer
    /\ timer' = timer \ {b}
    /\ queue' = queue \cup {b}
    /\ UNCHANGED <<objects, pod, proxy, podCache, rec, env>>

-----------------------------------------------------------------------------
(* The environment.  Users write objects:                                  *)
UserWrites(kind, b, o) ==
    /\ kind \in Env /\ env > 0
    /\ env' = env - 1
    /\ Write(b, o)
    /\ rec' = [rec EXCEPT ![b].fresh = rec[b].pc = "idle"]
    /\ UNCHANGED <<pod, proxy, podCache, queue, timer>>

CreateOrEdit(b, s) ==
    /\ s # obj[b].spec
    /\ ~obj[b].deleting
    /\ UserWrites("edit", b, [obj[b] EXCEPT !.spec = s])

ToggleDisabled(b) ==
    /\ Exists(obj[b]) /\ ~obj[b].deleting
    /\ UserWrites("disable", b, [obj[b] EXCEPT !.disabled = ~@])

DeleteObject(b) ==
    /\ Exists(obj[b]) /\ ~obj[b].deleting
    /\ UserWrites("delete", b, IF obj[b].finalizer THEN [obj[b] EXCEPT !.deleting = TRUE] ELSE NoObj)

(* Pods change, and podEventHandler puts the objects concerned in the      *)
(* queue.  A pod that stops being available is no news to it.              *)
effectiveBreakers(label) == {b \in Breaker : Exists(seen[b]) /\ seen[b].spec.label = label}

matchChangedBreakers(old, new) ==
    {b \in Breaker : Exists(seen[b]) /\ (seen[b].spec.label = old) # (seen[b].spec.label = new)}

Spend(kind) == kind \in Env /\ env > 0 /\ env' = env - 1

Relabel(p, l) ==
    /\ Spend("relabel")
    /\ pod[p].phase # "absent" /\ pod[p].label # l
    /\ pod' = [pod EXCEPT ![p].label = l]
    /\ queue' = IF isProxyAvailable(p) THEN queue \cup matchChangedBreakers(pod[p].label, l) ELSE queue
    /\ UNCHANGED <<objects, proxy, podCache, timer, rec>>

(* The probe of the proxy fails for a while; the process goes on.          *)
Flap(p) ==
    /\ Spend("flap")
    /\ pod[p].phase = "ready"
    /\ pod' = [pod EXCEPT ![p].phase = "notReady"]
    /\ UNCHANGED <<objects, proxy, podCache, queue, timer, rec>>

(* The proxy container restarts, without its configuration.                *)
RestartProxy(p) ==
    /\ Spend("restartProxy")
    /\ pod[p].phase \in {"ready", "notReady"}
    /\ pod' = [pod EXCEPT ![p].phase = "notReady"]
    /\ proxy' = [proxy EXCEPT ![p] = [b \in Breaker |-> NoHash]]
    /\ UNCHANGED <<objects, podCache, queue, timer, rec>>

BecomeReady(p) ==
    /\ pod[p].phase = "notReady"
    /\ pod' = [pod EXCEPT ![p].phase = "ready"]
    /\ queue' = queue \cup effectiveBreakers(pod[p].label)
    /\ UNCHANGED <<objects, proxy, podCache, timer, rec, env>>

RemovePod(p) ==
    /\ Spend("removePod")
    /\ pod[p].phase # "absent"
    /\ pod' = [pod EXCEPT ![p].phase = "absent"]
    /\ proxy' = [proxy EXCEPT ![p] = [b \in Breaker |-> NoHash]]
    /\ Delete(p, {})
    /\ UNCHANGED <<objects, queue, timer, rec>>

(* A pod of the same name, as a StatefulSet makes it.                      *)
RecreatePod(p) ==
    /\ pod[p].phase = "absent"
    /\ pod' = [pod EXCEPT ![p].phase = "notReady"]
    /\ UNCHANGED <<objects, proxy, podCache, queue, timer, rec, env>>

(* The manager restarts: its informers list everything anew.               *)
RestartManager ==
    /\ Spend("restartManager")
    /\ podCache' = [p \in Pod |-> {}]
    /\ seen' = obj
    /\ news' = [b \in Breaker |-> "none"]
    /\ queue' = {b \in Breaker : Exists(obj[b])}
    /\ timer' = {}
    /\ rec' = [b \in Breaker |-> IdleRec]
    /\ UNCHANGED <<obj, pod, proxy>>

-----------------------------------------------------------------------------
Init ==
    /\ obj = [b \in Breaker |-> NoObj]
    /\ seen = obj
    /\ news = [b \in Breaker |-> "none"]
    /\ pod \in [Pod -> [phase : {"ready"}, label : Label]]
    /\ proxy = [p \in Pod |-> [b \in Breaker |-> NoHash]]
    /\ podCache = [p \in Pod |-> {}]
    /\ queue = {}
    /\ timer = {}
    /\ rec = [b \in Breaker |-> IdleRec]
    /\ env = MaxEnv

Reconcile(b) ==
    \/ Get(b)
    \/ AddFinalizer(b)
    \/ List(b)
    \/ \E p \in Pod : SyncPod(b, p)
    \/ Synced(b)
    \/ \E p \in Pod : UnselectPod(b, p)
    \/ UpdateStatus(b)
    \/ \E p \in Pod : ClearPod(b, p)
    \/ ClearStatus(b)
    \/ RemoveFinalizer(b)

Environment ==
    \/ \E b \in Breaker, s \in BreakerSpec : CreateOrEdit(b, s)
    \/ \E b \in Breaker : ToggleDisabled(b) \/ DeleteObject(b)
    \/ \E p \in Pod, l \in Label : Relabel(p, l)
    \/ \E p \in Pod : Flap(p) \/ RestartProxy(p) \/ BecomeReady(p) \/ RemovePod(p) \/ RecreatePod(p)
    \/ RestartManager

Next == Environment \/ \E b \in Breaker : Reconcile(b) \/ Watch(b) \/ Requeue(b)

Spec == Init /\ [][Next]_vars

(* The workers go on, the informer catches up and timers come due.  The    *)
(* environment owes nothing; what it does and the calls it fails are       *)
(* bounded by MaxEnv.                                                      *)
FairSpec ==
    /\ Spec
    /\ \A b \in Breaker : WF_vars(Reconcile(b)) /\ WF_vars(Watch(b)) /\ WF_vars(Requeue(b))

-----------------------------------------------------------------------------
Status == [Pod -> Hash \cup {NoHash, NoTarget}]
Obj == [spec : BreakerSpec \cup {NoSpec}, disabled : BOOLEAN, deleting : BOOLEAN,
        finalizer : BOOLEAN, status : Status]

Rec == [pc : {"idle", "addFinalizer", "list", "sync", "unselect", "clear", "removeFinalizer"},
        spec : BreakerSpec \cup {NoSpec}, status : Status, fresh : BOOLEAN, todo : SUBSET Pod,
        avail : SUBSET Pod, target : Status, err : BOOLEAN]

(* The type of the state; a worker that is idle holds nothing, and only a  *)
(* worker that has a list of pods or targets has pods left to handle.      *)
TypeOK ==
    /\ obj \in [Breaker -> Obj] /\ seen \in [Breaker -> Obj]
    /\ news \in [Breaker -> {"none", "quiet", "event"}]
    /\ pod \in [Pod -> [phase : {"absent", "notReady", "ready"}, label : Label]]
    /\ proxy \in [Pod -> [Breaker -> Hash \cup {NoHash}]]
    /\ podCache \in [Pod -> SUBSET Breaker]
    /\ queue \subseteq Breaker /\ timer \subseteq Breaker
    /\ env \in 0 .. MaxEnv
    /\ rec \in [Breaker -> Rec]
    /\ \A b \in Breaker :
          /\ rec[b].pc = "idle" => rec[b] = IdleRec
          /\ rec[b].todo # {} => rec[b].pc \in {"sync", "unselect", "clear"}

(* While a worker pushes the configuration of an object to proxies, the    *)
(* object exists and carries ProtectFinalizer, however stale the copy the  *)
(* worker started from and whatever users did since: it cannot vanish      *)
(* before a later reconcile has seen the deletion.                         *)
FinalizerProtects ==
    \A b \in Breaker :
        rec[b].pc \in {"list", "sync", "unselect"} => Exists(obj[b]) /\ obj[b].finalizer

(* Once the environment rests, every ready pod an active object selects    *)
(* has the current configuration, and the status says so, for good.        *)
Converges ==
    \A b \in Breaker, p \in Pod :
        <>[]( /\ Exists(obj[b]) /\ ~obj[b].disabled /\ ~obj[b].deleting
              /\ pod[p].phase = "ready" /\ pod[p].label = obj[b].spec.label
              => proxy[p][b] = obj[b].spec.hash /\ obj[b].status[p] = obj[b].spec.hash)

(* A deleted object does go: conflicts, failed calls and pods that are not *)
(* available hold its finalizer up only for a while.                       *)
DeletionCompletes == \A b \in Breaker : obj[b].deleting ~> ~obj[b].deleting
=============================================================================
