---------------------------- MODULE AutoSharding ----------------------------
(***************************************************************************)
(* AutoSharding (pkg/manager/controllers/shardingconfigserver): the        *)
(* controller turns a root ShardingConfig into children, a canary shard    *)
(* and the normal shards, that share out the objects by the namespace and  *)
(* the shard hash in their labels, and the Pods of a StatefulSet by their  *)
(* ordinals.                                                               *)
(***************************************************************************)
EXTENDS ShardingWebhook, FiniteSets

CONSTANTS
    RootSpecs,    \* what users write as spec.root
    Namespaces,   \* the namespaces of the objects
    MaxEdits,     \* how many edits of the root and failed calls

    All           \* the shard hashes are 0 .. All - 1; 32 in the code

VARIABLES
    root,         \* the root object
    rootSeen,     \* the informer's copy,
    latest,       \* ... and whether it is the latest version
    kids,         \* the root spec each child was made for, Nil if there is no such child
    kidsSeen,     \* the children the informer lists
    pass,         \* what the worker has still to do
    todoRoot,     \* whether the root is in the work queue
    blind,        \* an outdated list of children was acted on and no later pass has made up for it
    edits         \* how many are left

shardingVars == <<root, rootSeen, latest, kids, kidsSeen, pass, todoRoot, blind, edits>>

-----------------------------------------------------------------------------
(* getChild.  Child 0 is the canary, child i the i-th normal shard.        *)
HasCanary(s) ==
    /\ s.canary # Nil /\ s.canary.replicas # Nil
    /\ s.canary.inNamespaces # {} \/ s.canary.inShardHash # {}

(* Without a canary section the code follows a nil pointer.                *)
Panics(s) == s.auto # Nil /\ s.canary = Nil

Children(s) ==
    IF s.auto = Nil THEN {} ELSE (IF HasCanary(s) THEN {0} ELSE {}) \cup 1 .. s.auto.shardingSize

CanaryReplicas(s) == IF HasCanary(s) THEN s.canary.replicas ELSE 0

(* Mutant: the ordinal after the last one of a shard is still in it.       *)
MutGenNameInRange(s, n) ==
    IF n = 0 THEN 0 .. CanaryReplicas(s)
    ELSE CanaryReplicas(s) + s.auto.everyShardReplicas * (n - 1) ..
         CanaryReplicas(s) + s.auto.everyShardReplicas * n

(* genNameInRange: the ordinals of the Pods a child selects.               *)
genNameInRange(s, n) ==
    IF n = 0 THEN 0 .. CanaryReplicas(s) - 1
    ELSE CanaryReplicas(s) + s.auto.everyShardReplicas * (n - 1) ..
         CanaryReplicas(s) + s.auto.everyShardReplicas * n - 1

(* Mutant: the size of a batch is rounded down.                            *)
MutGetRange(n, size) ==
    LET batch == All \div size IN {h \in 0 .. All - 1 : batch * (n - 1) <= h /\ h <= batch * n - 1}

getRange(n, size) ==
    LET batch == (All + size - 1) \div size IN {h \in 0 .. All - 1 : batch * (n - 1) <= h /\ h <= batch * n - 1}

(* The inner continue leaves the data as they are.                         *)
clearSame(data, target) == data

genCanaryLimits(canary, ns, hash) ==
    /\ canary.inNamespaces # {} => ns \in canary.inNamespaces
    /\ canary.inShardHash # {} => hash \in canary.inShardHash

genShardingGlobalLimits(s, batch, ns, hash) ==
    /\ CanaryReplicas(s) > 0 => ns \notin s.canary.inNamespaces /\ hash \notin s.canary.inShardHash
    /\ hash \in clearSame(batch, s.canary.inShardHash)

Owns(s, n, ns, hash) ==
    IF n = 0 THEN genCanaryLimits(s.canary, ns, hash)
    ELSE genShardingGlobalLimits(s, getRange(n, s.auto.shardingSize), ns, hash)

(* A child as the webhook sees it: an In requirement needs a value, and a  *)
(* root without resources makes children without limits.                   *)
ChildObject(s, n) ==
    [root |-> Nil, ignoreValidate |-> FALSE,
     selector |-> IF genNameInRange(s, n) = {} THEN "bad" ELSE "ok",
     limits |-> IF s.resources = <<>> THEN Nil ELSE s.resources,
     controller |-> Nil, webhook |-> Nil]

RootObject(s) ==
    [root |-> s, ignoreValidate |-> FALSE, selector |-> "empty", limits |-> Nil, controller |-> Nil, webhook |-> Nil]

-----------------------------------------------------------------------------
NoRoot == [spec |-> Nil, deleting |-> FALSE, finalizer |-> FALSE, child |-> {}]
Resting == [pc |-> "idle", root |-> NoRoot, delete |-> {}, create |-> {}, conflict |-> FALSE, outdated |-> FALSE]
Names == UNION {Children(s) : s \in RootSpecs}

ShardingInit ==
    /\ root = NoRoot /\ rootSeen = NoRoot /\ latest = TRUE
    /\ kids = [n \in Names |-> Nil] /\ kidsSeen = kids
    /\ pass = Resting /\ todoRoot = FALSE /\ blind = FALSE
    /\ edits = MaxEdits

Spend == edits > 0 /\ edits' = edits - 1
WriteRoot(r) == root' = r /\ latest' = FALSE
UserWrites(r) == WriteRoot(r) /\ pass' = IF pass.pc = "idle" THEN pass ELSE [pass EXCEPT !.conflict = TRUE]

(* Users.                                                                  *)
EditRoot(s) ==
    /\ Spend /\ ~ root.deleting /\ s # root.spec
    /\ Admits(RootObject(s), IF root.spec = Nil THEN Nil ELSE RootObject(root.spec))
    /\ UserWrites([root EXCEPT !.spec = s])
    /\ UNCHANGED <<rootSeen, kids, kidsSeen, todoRoot, blind>>

DeleteRoot ==
    /\ Spend /\ root.spec # Nil /\ ~ root.deleting
    /\ UserWrites(IF root.finalizer THEN [root EXCEPT !.deleting = TRUE] ELSE NoRoot)
    /\ UNCHANGED <<rootSeen, kids, kidsSeen, todoRoot, blind>>

(* The informers.  Every version of the root enqueues it; the children     *)
(* enqueue only themselves.                                                *)
WatchRoot ==
    /\ ~ latest /\ latest' = TRUE
    /\ rootSeen' = root /\ todoRoot' = TRUE
    /\ UNCHANGED <<root, kids, kidsSeen, pass, blind, edits>>

WatchChildren ==
    /\ kidsSeen # kids /\ kidsSeen' = kids
    /\ UNCHANGED <<root, rootSeen, latest, kids, pass, todoRoot, blind, edits>>

-----------------------------------------------------------------------------
(* AutoSharding, one action for each call to the API server.               *)
Off(r) == r.deleting \/ r.spec.disable

OutdatedChildren(s) == {n \in Names : kidsSeen[n] \notin {Nil, s}}

(* Reconcile and the start of AutoSharding.                                *)
BeginPass ==
    /\ todoRoot /\ pass.pc = "idle"
    /\ todoRoot' = FALSE
    /\ LET r == rootSeen
           outdated == kidsSeen # kids
           at(pc, delete, create) == [pc |-> pc, root |-> r, delete |-> delete, create |-> create,
                                      conflict |-> ~ latest, outdated |-> outdated]
       IN  /\ pass' = IF r.spec = Nil THEN Resting
                      ELSE IF Off(r) THEN at("clear", {n \in Names : kidsSeen[n] # Nil}, {})
                      ELSE at(IF r.finalizer THEN "delete" ELSE "finalizer", OutdatedChildren(r.spec),
                              {n \in Children(r.spec) : kidsSeen[n] # r.spec})
           /\ blind' = (blind \/ (r.spec # Nil /\ outdated))
    /\ UNCHANGED <<root, rootSeen, latest, kids, kidsSeen, edits>>

(* A call returned an error: the root is queued again.                     *)
Retry == pass' = Resting /\ todoRoot' = TRUE

CallFails ==
    /\ pass.pc # "idle" /\ Spend /\ Retry
    /\ UNCHANGED <<root, rootSeen, latest, kids, kidsSeen, blind>>

addFinalizers ==
    /\ pass.pc = "finalizer"
    /\ IF pass.conflict THEN Retry /\ UNCHANGED <<root, latest>>
       ELSE /\ WriteRoot([root EXCEPT !.finalizer = TRUE])
            /\ pass' = [pass EXCEPT !.pc = "delete", !.root.finalizer = TRUE] /\ UNCHANGED todoRoot
    /\ UNCHANGED <<rootSeen, kids, kidsSeen, blind, edits>>

(* Deletions are by name: a child that is gone is an error.                *)
DeleteChild(n) ==
    /\ pass.pc \in {"delete", "clear"} /\ n \in pass.delete
    /\ kids' = [kids EXCEPT ![n] = Nil]
    /\ IF kids[n] = Nil THEN Retry ELSE pass' = [pass EXCEPT !.delete = @ \ {n}] /\ UNCHANGED todoRoot
    /\ UNCHANGED <<root, rootSeen, latest, kidsSeen, blind, edits>>

(* getChild; without the canary section the process dies and restarts.     *)
PlanChildren ==
    /\ pass.pc = "delete" /\ pass.delete = {}
    /\ blind' = (blind /\ pass.outdated)
    /\ IF Panics(pass.root.spec)
       THEN /\ pass' = Resting /\ todoRoot' = (root.spec # Nil)
            /\ rootSeen' = root /\ latest' = TRUE /\ kidsSeen' = kids
       ELSE /\ pass' = [pass EXCEPT !.pc = "create"]
            /\ UNCHANGED <<rootSeen, latest, kidsSeen, todoRoot>>
    /\ UNCHANGED <<root, kids, edits>>

CreateChild(n) ==
    /\ pass.pc = "create" /\ n \in pass.create /\ \A m \in pass.create : n <= m
    /\ IF kids[n] # Nil \/ ~ Admits(ChildObject(pass.root.spec, n), Nil)
       THEN Retry /\ UNCHANGED kids
       ELSE /\ kids' = [kids EXCEPT ![n] = pass.root.spec]
            /\ pass' = [pass EXCEPT !.create = @ \ {n}] /\ UNCHANGED todoRoot
    /\ UNCHANGED <<root, rootSeen, latest, kidsSeen, blind, edits>>

syncStatus ==
    /\ pass.pc = "create" /\ pass.create = {}
    /\ LET child == Children(pass.root.spec)
       IN  \/ pass.root.child = child /\ pass' = Resting /\ UNCHANGED <<root, latest, todoRoot>>
           \/ pass.root.child # child /\ pass.conflict /\ Retry /\ UNCHANGED <<root, latest>>
           \/ /\ pass.root.child # child /\ ~ pass.conflict
              /\ WriteRoot([root EXCEPT !.child = child]) /\ pass' = Resting /\ UNCHANGED todoRoot
    /\ UNCHANGED <<rootSeen, kids, kidsSeen, blind, edits>>

(* clearStatus: that the root is gone is not an error.                     *)
clearStatus ==
    /\ pass.pc = "clear" /\ pass.delete = {} /\ pass.root.child # {}
    /\ IF pass.conflict /\ root.spec # Nil THEN Retry /\ UNCHANGED <<root, latest>>
       ELSE /\ IF pass.conflict THEN UNCHANGED <<root, latest>> ELSE WriteRoot([root EXCEPT !.child = {}])
            /\ pass' = [pass EXCEPT !.root.child = {}] /\ UNCHANGED todoRoot
    /\ UNCHANGED <<rootSeen, kids, kidsSeen, blind, edits>>

Cleared == pass.delete = {} /\ pass.root.child = {}

clearFinalizers ==
    /\ pass.pc = "clear" /\ Cleared
    /\ blind' = (blind /\ pass.outdated)
    /\ \/ ~ pass.root.finalizer /\ pass' = Resting /\ UNCHANGED <<root, latest, todoRoot>>
       \/ pass.root.finalizer /\ pass.conflict /\ Retry /\ UNCHANGED <<root, latest>>
       \/ /\ pass.root.finalizer /\ ~ pass.conflict
          /\ WriteRoot(IF root.deleting THEN NoRoot ELSE [root EXCEPT !.finalizer = FALSE])
          /\ pass' = Resting /\ UNCHANGED todoRoot
    /\ UNCHANGED <<rootSeen, kids, kidsSeen, edits>>

Worker ==
    \/ BeginPass \/ addFinalizers \/ PlanChildren \/ syncStatus \/ clearStatus \/ clearFinalizers
    \/ \E n \in Names : DeleteChild(n) \/ CreateChild(n)

ShardingNext ==
    \/ Worker \/ CallFails \/ WatchRoot \/ WatchChildren \/ DeleteRoot
    \/ \E s \in RootSpecs : EditRoot(s)

(* The worker keeps working and the watches keep delivering.               *)
ShardingFairness == WF_shardingVars(Worker) /\ WF_shardingVars(WatchRoot) /\ WF_shardingVars(WatchChildren)

ShardingSpec == ShardingInit /\ [][ShardingNext]_shardingVars /\ ShardingFairness

-----------------------------------------------------------------------------
(* The properties.                                                         *)
Owners(ns, hash) == {n \in Names : kids[n] # Nil /\ Owns(kids[n], n, ns, hash)}

(* Children of two generations of the root are never mixed: no object and  *)
(* no Pod belongs to two children, once a pass with an up-to-date list of  *)
(* children has followed every one without (AutoSharding deletes what has  *)
(* another hash before it creates).                                        *)
ShardsDisjoint ==
    ~ blind =>
        /\ \A ns \in Namespaces, hash \in 0 .. All - 1 : Cardinality(Owners(ns, hash)) <= 1
        /\ \A m, n \in Names : m # n /\ kids[m] # Nil /\ kids[n] # Nil =>
               genNameInRange(kids[m], m) \cap genNameInRange(kids[n], n) = {}

(* Roots whose children the code can create and that split every object:   *)
(* one with both namespaces and hashes excludes by either and includes by  *)
(* both.                                                                   *)
Good(s) ==
    /\ s.canary # Nil /\ s.auto # Nil /\ ~ s.disable
    /\ s.canary.replicas > 0 /\ (s.canary.inNamespaces = {} \/ s.canary.inShardHash = {})
    /\ s.resources # <<>> /\ ~ HasConflict(s.resources)

(* When the edits end, a good root ends up with exactly the children of    *)
(* its last version, every object owned by one of them, unless the last    *)
(* pass worked from an outdated list.                                      *)
Shared ==
    /\ \A n \in Names : kids[n] = IF n \in Children(root.spec) THEN root.spec ELSE Nil
    /\ \A ns \in Namespaces, hash \in 0 .. All - 1 : Owners(ns, hash) # {}
    /\ root.child = Children(root.spec)

ShardsConverge == <>[](root.spec # Nil /\ ~ root.deleting /\ ~ blind /\ Good(root.spec) => Shared)
=============================================================================
