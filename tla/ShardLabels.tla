---------------------------- MODULE ShardLabels -----------------------------
(***************************************************************************)
(* The shard labels: control, the name of the namespace and its hash.  The *)
(* webhook of namespaces (pkg/webhook/ns) writes them on namespaces, the   *)
(* webhook of resources (pkg/webhook/resources) copies them to the objects *)
(* that are written, and a runnable of the leading manager                 *)
(* (pkg/manager/controllers/patchrunnable) adds them, once, to whatever    *)
(* was there before: first to the namespaces, then to their objects.       *)
(*                                                                         *)
(* The webhooks and the runnable read namespaces from the manager's cache. *)
(* The semaphores that limit how many goroutines run are left out, and 429 *)
(* answers, which are retried.                                             *)
(***************************************************************************)
EXTENDS Naturals, Sequences, FiniteSets, Functions

CONSTANTS
    Unset,          \* a label or an object that is not there
    LabelValue,     \* the values labels may have
    Namespace, Objects, Worker,
    Place,          \* Place[o] = <<namespace, kind>> of the object o
    Ignored,        \* ignoredSystemNamespace
    InitialLabels,  \* InitialLabels[n]: the labels n may have at first
    ResourceConfig, \* ResourceConfig[gv]: the kinds the ConfigMap names, in order;
                    \* Unset if there is no ConfigMap or no such key in it
    Unparsed,       \* the group versions of it that cannot be parsed
    Served,         \* Served[gv]: the kinds of it the API server has
    CacheSize,      \* patchItemCacheSize
    MaxWrites,      \* how many writes of users there are
    MaxFailures     \* how many calls fail

VARIABLES
    ns,        \* ns[n]: the labels of the namespace n, Unset if it does not exist
    cache,     \* cache[n]: the manager's cached copy
    obj,       \* obj[o]: the labels of the object o, Unset if it does not exist
    behind,    \* the objects written while the cached namespace was out of date
    phase,     \* where the runnable is
    held,      \* held[n]: the namespace in the runnable's list, Unset if not listed
    invalid,   \* the kinds the API server was found not to have
    labelling, \* labelling[n]: the goroutine that labels the namespace n
    listing,   \* listing[p]: the goroutine that lists the place p
    channel, closed,
    worker,    \* worker[w]: the item the patch worker w has taken
    writes, failures

nsVars == <<ns, cache, held, labelling>>
chanVars == <<listing, channel, closed, worker, invalid>>
labelVars == <<nsVars, chanVars, obj, behind, phase, writes, failures>>

-----------------------------------------------------------------------------
(* Labels: what each of the three says, or Unset.  "own" is what it must   *)
(* be for the namespace at hand.                                           *)
None3 == [control |-> Unset, namespace |-> Unset, hash |-> Unset]
All3 == [control |-> "true", namespace |-> "own", hash |-> "own"]

Labels == [control : LabelValue \cup {Unset}, namespace : LabelValue \cup {Unset}, hash : LabelValue \cup {Unset}]

ASSUME LabelAssumption ==
    /\ {"true", "own"} \subseteq LabelValue
    /\ Unset \notin LabelValue \cup Labels \cup Objects
    /\ \A n \in Namespace : InitialLabels[n] \subseteq Labels \cup {Unset}

IsControlledByMesh(l) == l.control = "true"

(* shouldUpdateNs: what the webhook makes of a namespace that is written.  *)
shouldUpdateNs(l) ==
    [control |-> IF l.control = Unset THEN "true" ELSE l.control,
     namespace |-> "own", hash |-> "own"]

(* updateLabel: what the runnable makes of one.  Labels of which only the  *)
(* control label is missing are not its own, and it leaves them.           *)
updateLabel(l) ==
    CASE l = None3 -> All3
      [] l # None3 /\ l.control = Unset -> l
      [] l.control # Unset /\ l.hash # "own" -> [l EXCEPT !.namespace = "own", !.hash = "own"]
      [] OTHER -> [l EXCEPT !.namespace = "own"]

(* getSyncLabels, getShardingLabel: the labels objects take over.          *)
getShardingLabel(l) == IF IsControlledByMesh(l) THEN l ELSE None3

Merge(l, patch) == [k \in DOMAIN l |-> IF patch[k] # Unset THEN patch[k] ELSE l[k]]

shouldPatchLabel(l, target) == Merge(l, target) # l

(* The webhook of resources, for an object of n written with the labels l. *)
(* A namespace the cache does not have is read from the API server.        *)
Synced(n, l) == Merge(l, getShardingLabel(IF cache[n] = Unset THEN ns[n] ELSE cache[n]))

-----------------------------------------------------------------------------
GroupVersions == IF ResourceConfig = Unset THEN {} ELSE DOMAIN ResourceConfig \ Unparsed

(* The objects there are, are of kinds that the API server has.            *)
ASSUME ObjectAssumption ==
    /\ IsFiniteSet(Objects)
    /\ \A o \in Objects : Place[o][1] \in Namespace /\ Place[o][2] # "*"
    /\ \A gv \in GroupVersions : ResourceConfig[gv] \in Seq(STRING)
    /\ \A o \in Objects, gv \in GroupVersions :
          Place[o][2] \in Range(ResourceConfig[gv]) => Place[o][2] \in Served[gv]

Places == {Place[o] : o \in Objects}
IdleListing == [at |-> "none", items |-> <<>>]
NoLabelling == [at |-> "none", read |-> Unset]

NoneLabelled == [n \in Namespace |-> NoLabelling]

LabelInit ==
    /\ ns \in {f \in [Namespace -> UNION {InitialLabels[n] : n \in Namespace}] :
                 \A n \in Namespace : f[n] \in InitialLabels[n]}
    /\ cache = ns
    /\ obj \in [Objects -> {Unset, None3}]
    /\ \A o \in Objects : obj[o] # Unset => ns[Place[o][1]] # Unset
    /\ behind = {}
    /\ phase = "start"
    /\ held = [n \in Namespace |-> Unset]
    /\ labelling = NoneLabelled
    /\ listing = [p \in Places |-> IdleListing]
    /\ channel = <<>>
    /\ closed = FALSE
    /\ worker = [w \in Worker |-> Unset]
    /\ invalid = {}
    /\ writes = 0
    /\ failures = 0

Outdated(n) == cache[n] \notin {Unset, ns[n]}

Witness(o, late) == behind' = IF late THEN behind \cup {o} ELSE behind \ {o}

-----------------------------------------------------------------------------
(* Users, and the cache.                                                   *)
Write == writes < MaxWrites /\ writes' = writes + 1

WriteNamespace(n) ==
    /\ Write
    /\ ns' = [ns EXCEPT ![n] = shouldUpdateNs(IF @ = Unset THEN None3 ELSE @)]
    /\ UNCHANGED <<cache, held, labelling, chanVars, obj, behind, phase, failures>>

(* An object is created, or updated without its labels.                    *)
WriteObject(o) ==
    /\ Write
    /\ ns[Place[o][1]] # Unset
    /\ obj' = [obj EXCEPT ![o] = Synced(Place[o][1], None3)]
    /\ Witness(o, Outdated(Place[o][1]))
    /\ UNCHANGED <<nsVars, chanVars, phase, failures>>

Watch(n) ==
    /\ cache[n] # ns[n]
    /\ cache' = [cache EXCEPT ![n] = ns[n]]
    /\ UNCHANGED <<ns, held, labelling, chanVars, obj, behind, phase, writes, failures>>

-----------------------------------------------------------------------------
(* The runnable.  Start lists the namespaces, labels each in a goroutine   *)
(* of its own and waits for all of them.                                   *)
ListNamespaces ==
    /\ phase = "start"
    /\ phase' = "label"
    /\ held' = ns
    /\ labelling' = [n \in Namespace |-> [NoLabelling EXCEPT
                        !.at = IF ns[n] = Unset \/ n \in Ignored THEN "done" ELSE "get"]]
    /\ UNCHANGED <<ns, cache, chanVars, obj, behind, writes, failures>>

(* The goroutine reads the namespace from the cache into the list's entry. *)
Proceed(n, at) == labelling' = [labelling EXCEPT ![n] = [at |-> at, read |-> cache[n]]]

(* Mutant: the entry of the list stays as it was listed.                   *)
MutGetNamespace(n) ==
    /\ labelling[n].at = "get"
    /\ held' = held
    /\ Proceed(n, IF cache[n] = Unset \/ updateLabel(cache[n]) = cache[n] THEN "done" ELSE "update")
    /\ UNCHANGED <<ns, cache, chanVars, obj, behind, phase, writes, failures>>

GetNamespace(n) ==
    /\ labelling[n].at = "get"
    /\ IF cache[n] = Unset THEN held' = held /\ Proceed(n, "done")
       ELSE /\ held' = [held EXCEPT ![n] = updateLabel(cache[n])]
            /\ Proceed(n, IF updateLabel(cache[n]) = cache[n] THEN "done" ELSE "update")
    /\ UNCHANGED <<ns, cache, chanVars, obj, behind, phase, writes, failures>>

(* The update passes the webhook of namespaces.  It conflicts if the copy  *)
(* that was read is not the newest, and is tried again.                    *)
UpdateNamespace(n) ==
    /\ labelling[n].at = "update"
    /\ IF labelling[n].read = ns[n]
       THEN /\ ns' = [ns EXCEPT ![n] = shouldUpdateNs(held[n])]
            /\ Proceed(n, "done")
       ELSE ns' = ns /\ Proceed(n, "get")
    /\ UNCHANGED <<cache, held, chanVars, obj, behind, phase, writes, failures>>

(* It fails, or conflicts too often.  The entry of the list keeps what was *)
(* to be written.                                                          *)
UpdateFails(n) ==
    /\ labelling[n].at = "update"
    /\ failures < MaxFailures
    /\ failures' = failures + 1
    /\ Proceed(n, "done")
    /\ UNCHANGED <<ns, cache, held, chanVars, obj, behind, phase, writes>>

(* LoadGroupVersionKind: the kinds named before a "*", and for the "*" the *)
(* kinds the API server has, unless it does not tell for gv in lost.  A    *)
(* group version that cannot be parsed is passed over.                     *)
KindsOf(gv, lost) ==
    LET kinds == ResourceConfig[gv]
        named == {i \in DOMAIN kinds : \A j \in 1 .. i : kinds[j] # "*"}
    IN  {kinds[i] : i \in named}
            \cup IF named = DOMAIN kinds \/ gv \in lost THEN {} ELSE Served[gv]

LoadGroupVersionKind(lost) == UNION {KindsOf(gv, lost) : gv \in GroupVersions}

Labelled == phase = "label" /\ \A n \in Namespace : labelling[n].at = "done"

(* All namespaces are done; a goroutine for each kind in each namespace of *)
(* the list follows.                                                       *)
LoadKinds(lost) ==
    /\ Labelled
    /\ phase' = "patch"
    /\ listing' = [p \in Places |->
          [at |-> IF held[p[1]] # Unset /\ p[2] \in LoadGroupVersionKind(lost) THEN "list" ELSE "done",
           items |-> <<>>]]
    /\ UNCHANGED <<nsVars, channel, closed, worker, invalid, obj, behind, writes>>

DiscoveryFails ==
    /\ failures < MaxFailures
    /\ failures' = failures + 1
    /\ \E gv \in GroupVersions : LoadKinds({gv})

(* The namespaces cannot be listed, or the ConfigMap cannot be read: Start *)
(* returns the error, which ends the manager.  The next leader starts over *)
(* with a new cache.                                                       *)
StartFails ==
    /\ phase = "start" \/ Labelled
    /\ failures < MaxFailures
    /\ failures' = failures + 1
    /\ phase' = "start"
    /\ held' = [n \in Namespace |-> Unset]
    /\ labelling' = NoneLabelled
    /\ cache' = ns
    /\ UNCHANGED <<ns, chanVars, obj, behind, writes>>

(* getResourceInNamespace, for one kind: the objects whose labels differ   *)
(* are sent to the workers.                                                *)
Lacking(p) ==
    {o \in Objects : /\ Place[o] = p
                     /\ obj[o] # Unset
                     /\ shouldPatchLabel(obj[o], getShardingLabel(held[p[1]]))}

Orders(S) == {s \in [1 .. Cardinality(S) -> S] : \A i, j \in DOMAIN s : s[i] = s[j] => i = j}

isInvalid(p) == p[2] \in invalid

Lists(p) ==
    /\ listing[p].at = "list"
    /\ IF isInvalid(p) THEN listing' = [listing EXCEPT ![p].at = "done"]
       ELSE \E items \in Orders(Lacking(p)) :
               listing' = [listing EXCEPT ![p] = [at |-> "send", items |-> items]]
    /\ UNCHANGED <<nsVars, channel, closed, worker, invalid, obj, behind, phase, writes, failures>>

setInvalid(p) == invalid' = invalid \cup {p[2]}

(* Mutant: the goroutine returns without wg.Done.                          *)
MutListFails(p) ==
    /\ listing[p].at = "list"
    /\ failures < MaxFailures
    /\ failures' = failures + 1
    /\ listing' = [listing EXCEPT ![p].at = "returned"]
    /\ setInvalid(p)
    /\ UNCHANGED <<nsVars, channel, closed, worker, obj, behind, phase, writes>>

(* The list fails: because the API server does not have the kind, which is *)
(* noted for the goroutines of other namespaces, or otherwise.             *)
ListFails(p) ==
    /\ listing[p].at = "list"
    /\ ~ isInvalid(p)
    /\ failures < MaxFailures
    /\ failures' = failures + 1
    /\ listing' = [listing EXCEPT ![p].at = "done"]
    /\ setInvalid(p) \/ invalid' = invalid
    /\ UNCHANGED <<nsVars, channel, closed, worker, obj, behind, phase, writes>>

Send(p) ==
    /\ listing[p].at = "send"
    /\ IF listing[p].items = <<>>
       THEN /\ listing' = [listing EXCEPT ![p].at = "done"]
            /\ channel' = channel
       ELSE /\ Len(channel) < CacheSize
            /\ channel' = Append(channel, Head(listing[p].items))
            /\ listing' = [listing EXCEPT ![p].items = Tail(@)]
    /\ UNCHANGED <<nsVars, closed, worker, invalid, obj, behind, phase, writes, failures>>

(* getAllResources waits for the goroutines, and then until the channel is *)
(* empty, before it closes it.                                             *)
Close ==
    /\ phase = "patch"
    /\ ~closed
    /\ \A p \in Places : listing[p].at = "done"
    /\ channel = <<>>
    /\ closed' = TRUE
    /\ UNCHANGED <<nsVars, listing, channel, worker, invalid, obj, behind, phase, writes, failures>>

Receive(w) ==
    /\ worker[w] = Unset
    /\ channel # <<>>
    /\ worker' = [worker EXCEPT ![w] = Head(channel)]
    /\ channel' = Tail(channel)
    /\ UNCHANGED <<nsVars, listing, closed, invalid, obj, behind, phase, writes, failures>>

(* The patch was made when the object was listed; it is an update, and so  *)
(* passes the webhook of resources.                                        *)
Patch(w) ==
    LET o == worker[w]
        n == Place[o][1]
    IN  /\ worker[w] # Unset
        /\ obj' = [obj EXCEPT ![o] = Synced(n, Merge(@, getShardingLabel(held[n])))]
        /\ Witness(o, Outdated(n) /\ IsControlledByMesh(cache[n]))
        /\ worker' = [worker EXCEPT ![w] = Unset]
        /\ UNCHANGED <<nsVars, listing, channel, closed, invalid, phase, writes, failures>>

PatchFails(w) ==
    /\ worker[w] # Unset
    /\ failures < MaxFailures
    /\ failures' = failures + 1
    /\ worker' = [worker EXCEPT ![w] = Unset]
    /\ UNCHANGED <<nsVars, listing, channel, closed, invalid, obj, behind, phase, writes>>

Finish ==
    /\ phase = "patch"
    /\ closed
    /\ channel = <<>>
    /\ \A w \in Worker : worker[w] = Unset
    /\ phase' = "done"
    /\ UNCHANGED <<nsVars, chanVars, obj, behind, writes, failures>>

Goroutine ==
    \/ ListNamespaces
    \/ \E n \in Namespace : GetNamespace(n) \/ UpdateNamespace(n)
    \/ LoadKinds({}) /\ failures' = failures
    \/ \E p \in Places : Lists(p) \/ Send(p)
    \/ Close
    \/ \E w \in Worker : Receive(w) \/ Patch(w)
    \/ Finish

LabelNext ==
    \/ Goroutine
    \/ \E n \in Namespace : WriteNamespace(n) \/ Watch(n) \/ UpdateFails(n)
    \/ \E o \in Objects : WriteObject(o)
    \/ DiscoveryFails
    \/ StartFails
    \/ \E p \in Places : ListFails(p)
    \/ \E w \in Worker : PatchFails(w)

LabelFairness ==
    /\ WF_labelVars(Goroutine)
    /\ \A n \in Namespace : WF_labelVars(Watch(n))

LabelSpec == LabelInit /\ [][LabelNext]_labelVars /\ LabelFairness

-----------------------------------------------------------------------------
(* The kinds the ConfigMap stands for.                                     *)
Configured ==
    UNION {{k \in Range(ResourceConfig[gv]) \cup Served[gv] :
              k \in Range(ResourceConfig[gv]) \/ "*" \in Range(ResourceConfig[gv])} :
           gv \in GroupVersions}

(* When the runnable has finished and no call has failed, every object of  *)
(* a configured kind in a namespace it made out to be controlled has all   *)
(* three labels of its namespace: those it found, those that were written  *)
(* meanwhile, and those written since.  Only an object that was written    *)
(* while the webhook still saw the namespace as it was before may lack     *)
(* them: the webhook gives it the old labels, even in the runnable's own   *)
(* patch.                                                                  *)
NoneMissed ==
    phase = "done" /\ failures = 0 =>
        \A o \in Objects \ behind :
            LET n == Place[o][1]
            IN  obj[o] # Unset /\ held[n] # Unset /\ IsControlledByMesh(held[n])
                    /\ n \notin Ignored /\ Place[o][2] \in Configured => obj[o] = All3

(* The runnable ends, whatever fails, although the goroutines that list    *)
(* block on a full channel and the one that closes it waits for them.      *)
PatchEnds == <>(phase = "done")
=============================================================================
