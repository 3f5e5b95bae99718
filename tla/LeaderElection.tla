--------------------------- MODULE LeaderElection ---------------------------
(***************************************************************************)
(* Leader election through the proxy (pkg/proxy/leaderelection).  The      *)
(* managers of all shards run with one lock name; the proxy next to each   *)
(* renames the lock of its requests, so that every shard elects a leader   *)
(* of its own.  The elector of client-go and the API server are external.  *)
(***************************************************************************)
EXTENDS Integers, Sequences

CONSTANTS
    Elector,      \* the managers that take part, one in a Pod
    ShardOf,      \* the ShardName of each one's proxy; "" before it has a spec
    ResourceLock, \* the kind of object each one's lock is
    MaxCrash      \* how many crashes and releases happen

VARIABLES
    lease,        \* the holder of each lock object, Absent if there is none
    round,        \* what each elector is about to request
    leading,      \* the electors that take themselves for the leader
    reported,     \* UpdateLeaderElection: the holder each proxy reported last
    crashes       \* how many are left

electionVars == <<lease, round, leading, reported, crashes>>

Absent == "absent"
Nobody == "nobody"
Unreadable == "unreadable"
Shards == {ShardOf[e] : e \in Elector}

(* An identity is not one of the words for none, and client-go has locks   *)
(* of three kinds only.                                                    *)
LockKinds == {"configmaps", "endpoints", "leases"}
ASSUME ElectorAssumption ==
    /\ Elector \cap {Absent, Nobody, Unreadable} = {}
    /\ \A e \in Elector : ResourceLock[e] \in LockKinds

(* <<n>> is n appended to the lock name, once for each time it is renamed. *)
LockName == <<>>
LockNames == {LockName} \cup {<<s>> : s \in Shards} \cup {<<s, s>> : s \in Shards}

-----------------------------------------------------------------------------
(* What the handler does with a request: pass it on as it is, refuse it,   *)
(* or take it over, with the name the API server gets and the identity     *)
(* that is reported if the response is 200.                                *)
Pass(r) == [how |-> "pass", name |-> r.name, report |-> Absent]
Refuse(r) == [how |-> "error", name |-> r.name, report |-> Absent]
Take(name, report) == [how |-> "handled", name |-> name, report |-> report]

setSubsetIntoName(name, subset) == IF subset = "" THEN name ELSE Append(name, subset)

Concerned(r) ==
    /\ ~ r.sub /\ r.own
    /\ r.verb = "create" \/ r.lock
    /\ r.kind \in LockKinds

(* The body of a request, if it can be decoded.  The holder of a lease is  *)
(* in its spec; other objects have a record in an annotation, and one that *)
(* cannot be read names nobody.                                            *)
getSerializer(r) == r.mediaType \in {"json", "yaml", "protobuf"}
DecodeFrom(r) == getSerializer(r) /\ r.body.decodes

leaseAdapter(r) == [name |-> r.body.name, holder |-> r.body.holder]
objectAdapter(r) == [name |-> r.body.name, holder |-> IF r.body.holder = Unreadable THEN Nobody ELSE r.body.holder]

Adapter(r) == IF r.kind = "leases" THEN leaseAdapter(r) ELSE objectAdapter(r)
GetHoldIdentity(r) == Adapter(r).holder

(* Mutant: a get asks for the lock under its own name.                     *)
MutGetUnrenamed(r, shard) ==
    IF r.verb = "create" THEN Take(setSubsetIntoName(LockName, shard), GetHoldIdentity(r))
    ELSE Take(r.name, IF r.verb = "get" THEN Absent ELSE GetHoldIdentity(r))

(* Mutant: every shard competes for the lock under its own name.           *)
MutSharedName(r, shard) == Take(r.name, IF r.verb = "get" THEN Absent ELSE GetHoldIdentity(r))

Handle(r, shard) ==
    IF ~ Concerned(r) \/ r.verb \notin {"get", "create", "update"} THEN Pass(r)
    ELSE IF r.verb = "get" THEN Take(setSubsetIntoName(r.name, shard), Absent)
    ELSE IF ~ DecodeFrom(r) THEN Refuse(r)
    ELSE IF r.verb = "create" /\ Adapter(r).name # LockName THEN Pass(r)
    ELSE IF GetHoldIdentity(r) = Absent THEN Refuse(r)
    ELSE Take(IF r.verb = "create" THEN setSubsetIntoName(LockName, shard) ELSE r.name, GetHoldIdentity(r))

(* The requests of client-go's elector: its lock, in its namespace.  It    *)
(* asks for and creates the lock under the configured name, and updates    *)
(* the object it got, under the name that object has.                      *)
LockRequest(e, verb, name, holder) ==
    [kind |-> ResourceLock[e], sub |-> FALSE, own |-> TRUE, lock |-> TRUE, verb |-> verb, name |-> name,
     mediaType |-> "json", body |-> [decodes |-> TRUE, name |-> name, holder |-> holder]]

Answer(e, r) == Handle(r, ShardOf[e])

-----------------------------------------------------------------------------
Idle == [pc |-> "get", name |-> LockName]

ElectionInit ==
    /\ lease = [n \in LockNames |-> Absent]
    /\ round = [e \in Elector |-> Idle]
    /\ leading = {}
    /\ reported = [e \in Elector |-> Absent]
    /\ crashes = MaxCrash

(* Every request answered with another version of the object than the one  *)
(* read is refused; so a write sends all others that read it back to get.  *)
Written(e, name, holder) ==
    /\ lease' = [lease EXCEPT ![name] = holder]
    /\ round' = [f \in Elector |-> IF f = e \/ round[f] = [pc |-> "update", name |-> name] THEN Idle ELSE round[f]]

Lost(e) == round' = [round EXCEPT ![e] = Idle] /\ leading' = leading \ {e}

(* The holder is believed to be alive while it leads.                      *)
Get(e) ==
    LET n == Answer(e, LockRequest(e, "get", LockName, Absent)).name IN
    /\ round[e].pc = "get"
    /\ \/ /\ lease[n] = Absent
          /\ round' = [round EXCEPT ![e] = [pc |-> "create", name |-> LockName]]
       \/ /\ lease[n] # Absent /\ (lease[n] = e \/ lease[n] \notin leading)
          /\ round' = [round EXCEPT ![e] = [pc |-> "update", name |-> n]]
    /\ UNCHANGED <<lease, leading, reported, crashes>>

(* A successful create is answered with 201, which is not reported.        *)
Create(e) ==
    LET n == Answer(e, LockRequest(e, "create", LockName, e)).name IN
    /\ round[e].pc = "create"
    /\ \/ lease[n] = Absent /\ Written(e, n, e) /\ leading' = leading \cup {e}
       \/ lease[n] # Absent /\ Lost(e) /\ UNCHANGED lease
    /\ UNCHANGED <<reported, crashes>>

Update(e) ==
    LET a == Answer(e, LockRequest(e, "update", round[e].name, e)) IN
    /\ round[e].pc = "update"
    /\ \/ /\ lease[a.name] # Absent /\ Written(e, a.name, e) /\ leading' = leading \cup {e}
          /\ reported' = [reported EXCEPT ![e] = a.report]
       \/ lease[a.name] = Absent /\ Lost(e) /\ UNCHANGED <<lease, reported>>
    /\ UNCHANGED crashes

(* A manager that stops gives the lock up, or does not get around to it;   *)
(* its proxy runs on and keeps what it reported.                           *)
Release(e) ==
    LET a == Answer(e, LockRequest(e, "update", setSubsetIntoName(LockName, ShardOf[e]), Nobody)) IN
    /\ crashes > 0 /\ crashes' = crashes - 1
    /\ e \in leading /\ leading' = leading \ {e}
    /\ Written(e, a.name, Nobody)
    /\ reported' = [reported EXCEPT ![e] = a.report]

Crash(e) ==
    /\ crashes > 0 /\ crashes' = crashes - 1
    /\ Lost(e)
    /\ UNCHANGED <<lease, reported>>

Campaign(e) == Get(e) \/ Create(e) \/ Update(e)
ElectionNext == \E e \in Elector : Campaign(e) \/ Release(e) \/ Crash(e)

(* An elector retries for as long as its process lives.                    *)
ElectionFairness == \A e \in Elector : WF_electionVars(Campaign(e))
ElectionSpec == ElectionInit /\ [][ElectionNext]_electionVars /\ ElectionFairness

-----------------------------------------------------------------------------
(* A shard's lock is only ever held by a manager of that shard, and no two *)
(* managers of a shard lead at once: the renaming separates the shards and *)
(* keeps each together.                                                    *)
OwnLeader ==
    /\ \A s \in Shards : lease[setSubsetIntoName(LockName, s)]
                            \in {Absent, Nobody} \cup {e \in Elector : ShardOf[e] = s}
    /\ \A e \in leading : lease[setSubsetIntoName(LockName, ShardOf[e])] = e
    /\ lease[LockName] = Absent \/ "" \in Shards

(* Every shard has a leader again and again, whichever of its managers     *)
(* crash and whoever leads the others: no shard waits for another's lock.  *)
EveryShardLed == \A s \in Shards : []<>(\E e \in leading : ShardOf[e] = s)
=============================================================================
