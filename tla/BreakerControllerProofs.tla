---------------------- MODULE BreakerControllerProofs ----------------------
(***************************************************************************)
(* FinalizerProtects for every set of objects, pods and specs, and any     *)
(* number of steps of the environment.                                     *)
(*                                                                         *)
(* The property says nothing of the informer's copy, from which a worker   *)
(* decides that the finalizer is there.  The inductive invariant adds what *)
(* makes a stale copy harmless: a copy that is neither disabled nor        *)
(* deleted and has the finalizer is ahead of any removal (SeenActive), and *)
(* a worker whose removal would be accepted holds an object that is still  *)
(* disabled or deleted, in the API server and in the cache (ClearingHolds).*)
(***************************************************************************)
EXTENDS BreakerController, TLAPS

Clearing(o) == o.disabled \/ o.deleting

(* The inductive invariant, for an object o, the informer's copy s, what   *)
(* it has not seen n and the worker r.                                     *)
Protected(o, s, n, r) ==
    \* a cache that is not behind is equal
    /\ n = "none" => s = o
    \* SeenActive: a copy that asks for a sync is of an object with a finalizer
    /\ Exists(s) /\ ~Clearing(s) /\ s.finalizer => Exists(o) /\ o.finalizer
    \* ClearingHolds: a clear on a copy that is not out of date
    /\ r.pc \in {"clear", "removeFinalizer"} /\ r.fresh => Clearing(o) /\ Clearing(s)
    \* a finalizer is added only to an object that exists
    /\ r.pc = "addFinalizer" /\ r.fresh => Exists(o)
    \* FinalizerProtects
    /\ r.pc \in {"list", "sync", "unselect"} => Exists(o) /\ o.finalizer

FinalizerInv == \A b \in Breaker : Protected(obj[b], seen[b], news[b], rec[b])

(* The worker and its copy: which pcs hold a copy of an existing object.   *)
Holding == \A b \in Breaker : rec[b].pc # "idle" => rec[b].spec \in BreakerSpec

Inv == TypeOK /\ Holding

(* A step of the environment spends one unit of its budget or none.        *)
LEMMA BudgetSpent ==
    ASSUME NEW e \in 0 .. MaxEnv, NEW f, f = e \/ (e > 0 /\ f = e - 1)
    PROVE  f \in 0 .. MaxEnv
BY EnvAssumption

USE SpecAssumption, NullAssumption, EnvAssumption

(* Every constant record of the model has its type.                        *)
LEMMA Constants == NoTargets \in Status /\ NoObj \in Obj /\ IdleRec \in Rec
<1>1. NoTargets \in Status
  BY Zenon DEF NoTargets, Status
<1>2. NoObj \in Obj
  BY Zenon, <1>1 DEF NoObj, Obj
<1>3. IdleRec \in Rec
  BY Zenon, <1>1 DEF IdleRec, Rec
<1> QED
  BY Zenon, <1>1, <1>2, <1>3

(* The initial states have their types.                                    *)
LEMMA InvInit == Init => Inv
<1> SUFFICES ASSUME Init PROVE Inv
  BY Zenon
<1> USE DEF Init
<1>1. obj \in [Breaker -> Obj] /\ seen \in [Breaker -> Obj] /\ rec \in [Breaker -> Rec]
  BY Zenon, Constants
<1>2. \A b \in Breaker : rec[b] = IdleRec
  BY Zenon
<1>3. \A b \in Breaker : rec[b].pc = "idle" /\ rec[b].todo = {}
  BY Zenon, <1>2 DEF IdleRec
<1>4. pod \in [Pod -> [phase : {"absent", "notReady", "ready"}, label : Label]]
  BY Zenon
<1> QED
  BY <1>1, <1>2, <1>3, <1>4 DEF Inv, TypeOK, Holding

(* A write of a well-typed object keeps the objects well typed.            *)
LEMMA WriteTyped ==
    ASSUME TypeOK, NEW b \in Breaker, NEW o \in Obj, Write(b, o)
    PROVE  /\ obj' \in [Breaker -> Obj] /\ seen' \in [Breaker -> Obj]
           /\ news' \in [Breaker -> {"none", "quiet", "event"}]
BY Zenon DEF TypeOK, Write

(* A call to a proxy keeps proxies and budget well typed.                  *)
LEMMA SendConfigTyped ==
    ASSUME TypeOK, NEW b \in Breaker, NEW p \in Pod, NEW h \in Hash \cup {NoHash},
           NEW ok \in BOOLEAN, SendConfig(b, p, h, ok)
    PROVE  proxy' \in [Pod -> [Breaker -> Hash \cup {NoHash}]] /\ env' \in 0 .. MaxEnv
<1>1. proxy' \in [Pod -> [Breaker -> Hash \cup {NoHash}]]
  <2>1. \/ proxy' = proxy
        \/ proxy' = [proxy EXCEPT ![p][b] = h]
    BY SMT DEF SendConfig
  <2> DEFINE Held == [Breaker -> Hash \cup {NoHash}]
  <2>2. proxy \in [Pod -> Held]
    BY Zenon DEF TypeOK
  <2>3. [proxy[p] EXCEPT ![b] = h] \in Held
    BY Zenon, <2>2
  <2>4. [proxy EXCEPT ![p][b] = h] = [proxy EXCEPT ![p] = [proxy[p] EXCEPT ![b] = h]]
    BY Zenon
  <2> HIDE DEF Held
  <2>5. [proxy EXCEPT ![p] = [proxy[p] EXCEPT ![b] = h]] \in [Pod -> Held]
    BY Zenon, <2>2, <2>3
  <2>6. proxy' \in [Pod -> Held]
    BY Zenon, <2>1, <2>2, <2>4, <2>5
  <2> QED
    BY Zenon, <2>6 DEF Held
<1>2. env' \in 0 .. MaxEnv
  <2>1. env' = env \/ (env > 0 /\ env' = env - 1)
    BY Zenon DEF SendConfig
  <2>2. env \in 0 .. MaxEnv
    BY Zenon DEF TypeOK
  <2> QED
    BY <2>1, <2>2, BudgetSpent, Zenon
<1> QED
  BY Zenon, <1>1, <1>2

RecFacts(r) ==
    /\ r.pc = "idle" => r = IdleRec
    /\ r.todo # {} => r.pc \in {"sync", "unselect", "clear"}
    /\ r.pc # "idle" => r.spec \in BreakerSpec

(* What Inv says of the workers, for one worker that moves.                *)
LEMMA RecMoves ==
    ASSUME Inv, NEW b \in Breaker, NEW r \in Rec, RecFacts(r), rec' = [rec EXCEPT ![b] = r]
    PROVE  rec' \in [Breaker -> Rec] /\ \A c \in Breaker : RecFacts(rec'[c])
BY Zenon DEF Inv, TypeOK, Holding, RecFacts

(* The end of a call leaves the worker idle.                               *)
LEMMA FinishTyped ==
    ASSUME Inv, NEW b \in Breaker, NEW err \in BOOLEAN, NEW requeue \in BOOLEAN, Finish(b, err, requeue)
    PROVE  /\ rec' \in [Breaker -> Rec] /\ \A c \in Breaker : RecFacts(rec'[c])
           /\ queue' \subseteq Breaker /\ timer' \subseteq Breaker
<1>1. RecFacts(IdleRec)
  BY Zenon DEF RecFacts, IdleRec
<1>2. queue' \subseteq Breaker /\ timer' \subseteq Breaker
  BY Zenon DEF Finish, Inv, TypeOK
<1> QED
  BY Zenon, <1>1, <1>2, RecMoves, Constants DEF Finish

RecsOK == rec \in [Breaker -> Rec] /\ \A b \in Breaker : RecFacts(rec[b])

(* Inv is the types of the parts and RecFacts of every worker.             *)
LEMMA InvParts ==
    Inv <=> /\ obj \in [Breaker -> Obj] /\ seen \in [Breaker -> Obj]
            /\ news \in [Breaker -> {"none", "quiet", "event"}]
            /\ pod \in [Pod -> [phase : {"absent", "notReady", "ready"}, label : Label]]
            /\ proxy \in [Pod -> [Breaker -> Hash \cup {NoHash}]]
            /\ podCache \in [Pod -> SUBSET Breaker]
            /\ queue \subseteq Breaker /\ timer \subseteq Breaker
            /\ env \in 0 .. MaxEnv
            /\ RecsOK
BY Zenon DEF Inv, TypeOK, Holding, RecsOK, RecFacts

(* The same after a step.                                                  *)
LEMMA InvPartsNext ==
    ASSUME obj' \in [Breaker -> Obj], seen' \in [Breaker -> Obj],
           news' \in [Breaker -> {"none", "quiet", "event"}],
           pod' \in [Pod -> [phase : {"absent", "notReady", "ready"}, label : Label]],
           proxy' \in [Pod -> [Breaker -> Hash \cup {NoHash}]],
           podCache' \in [Pod -> SUBSET Breaker],
           queue' \subseteq Breaker, timer' \subseteq Breaker,
           env' \in 0 .. MaxEnv,
           RecsOK'
    PROVE  Inv'
BY Zenon DEF Inv, TypeOK, Holding, RecsOK, RecFacts

(* A worker that starts with a copy of an object is well typed.            *)
LEMMA CopyTyped ==
    ASSUME NEW pc \in {"addFinalizer", "list", "clear"}, NEW s \in BreakerSpec, NEW t \in Status,
           NEW f \in BOOLEAN, NEW d \in SUBSET Pod, d # {} => pc = "clear"
    PROVE  LET r == [IdleRec EXCEPT !.pc = pc, !.spec = s, !.status = t, !.fresh = f, !.todo = d]
           IN  r \in Rec /\ RecFacts(r)
<1> DEFINE r == [IdleRec EXCEPT !.pc = pc, !.spec = s, !.status = t, !.fresh = f, !.todo = d]
<1>1. NoTargets \in Status
  BY Zenon, Constants
<1>2. r \in Rec
  BY Zenon, <1>1 DEF Rec, IdleRec
<1>3. r.pc = pc /\ r.spec = s /\ r.todo = d
  BY Zenon DEF IdleRec
<1> HIDE DEF r
<1>4. RecFacts(r)
  BY Zenon, <1>3 DEF RecFacts
<1> QED
  BY Zenon, <1>2, <1>4 DEF r

(* Get takes a well-typed copy.                                            *)
LEMMA GetTyped == ASSUME Inv, NEW b \in Breaker, Get(b) PROVE Inv'
<1> DEFINE o == seen[b]
           fresh == (news[b] = "none")
           left(pc) == IF pc = "clear" THEN Targets(o.status) ELSE {}
           copy(pc) == [IdleRec EXCEPT !.pc = pc, !.spec = o.spec, !.status = o.status,
                                       !.fresh = fresh, !.todo = left(pc)]
<1>1. o \in Obj
  BY Zenon DEF Inv, TypeOK
<1>2. ASSUME NEW pc \in {"addFinalizer", "list", "clear"}, Exists(o)
      PROVE  copy(pc) \in Rec /\ RecFacts(copy(pc))
  <2>1. o.spec \in BreakerSpec /\ o.status \in Status
    BY Zenon, <1>1, <1>2 DEF Exists, Obj
  <2>2. left(pc) \in SUBSET Pod /\ (left(pc) # {} => pc = "clear")
    BY Zenon DEF Targets
  <2>3. fresh \in BOOLEAN
    BY Zenon
  <2> HIDE DEF fresh, left, o
  <2> QED
    BY Zenon, <2>1, <2>2, <2>3, CopyTyped
<1>3. IdleRec \in Rec /\ RecFacts(IdleRec)
  BY Zenon, Constants DEF RecFacts, IdleRec
<1>4. \E r \in Rec : RecFacts(r) /\ rec' = [rec EXCEPT ![b] = r]
  <2>1. CASE ~Exists(o) \/ ((o.disabled \/ o.deleting) /\ ~o.finalizer)
    BY Zenon, <1>3, <2>1 DEF Get
  <2>2. CASE Exists(o) /\ (o.disabled \/ o.deleting) /\ o.finalizer
    <3>1. rec' = [rec EXCEPT ![b] = copy("clear")]
      BY Zenon, <2>2 DEF Get
    <3> QED
      BY Zenon, <3>1, <1>2, <2>2
  <2>3. CASE Exists(o) /\ ~(o.disabled \/ o.deleting) /\ o.finalizer
    <3>1. rec' = [rec EXCEPT ![b] = copy("list")]
      BY Zenon, <2>3 DEF Get
    <3> QED
      BY Zenon, <3>1, <1>2, <2>3
  <2>4. CASE Exists(o) /\ ~(o.disabled \/ o.deleting) /\ ~o.finalizer
    <3>1. rec' = [rec EXCEPT ![b] = copy("addFinalizer")]
      BY Zenon, <2>4 DEF Get
    <3> QED
      BY Zenon, <3>1, <1>2, <2>4
  <2> QED
    BY Zenon, <2>1, <2>2, <2>3, <2>4
<1>5. RecsOK'
  BY Zenon, <1>4, RecMoves DEF RecsOK
<1>6. queue' \subseteq Breaker
  BY Zenon DEF Get, Inv, TypeOK
<1> QED
  BY Zenon, <1>5, <1>6, InvParts, InvPartsNext DEF Get, objects

(* AddFinalizer and List.                                                  *)
LEMMA StartTyped == ASSUME Inv, NEW b \in Breaker, AddFinalizer(b) \/ List(b) PROVE Inv'
<1> DEFINE s == Selected(rec[b].spec.label)
           listed == [rec[b] EXCEPT !.pc = "sync", !.todo = s, !.avail = {p \in s : isProxyAvailable(p)}]
           added == [rec[b] EXCEPT !.pc = "list"]
<1>1. rec[b] \in Rec /\ RecFacts(rec[b]) /\ obj[b] \in Obj /\ rec \in [Breaker -> Rec]
  BY Zenon, InvParts DEF RecsOK
<1>2. CASE AddFinalizer(b) /\ rec[b].fresh
  <2>1. [obj[b] EXCEPT !.finalizer = TRUE] \in Obj
    BY Zenon, <1>1 DEF Obj
  <2>2. Write(b, [obj[b] EXCEPT !.finalizer = TRUE])
    BY Zenon, <1>2 DEF AddFinalizer
  <2>3. obj' \in [Breaker -> Obj] /\ seen' \in [Breaker -> Obj] /\ news' \in [Breaker -> {"none", "quiet", "event"}]
    BY Zenon, <2>1, <2>2, WriteTyped DEF Inv
  <2>4. rec[b].todo = {} /\ rec[b].spec \in BreakerSpec
    BY Zenon, <1>1, <1>2 DEF AddFinalizer, RecFacts
  <2>5. added \in Rec /\ RecFacts(added)
    BY Zenon, <1>1, <2>4 DEF Rec, RecFacts
  <2>6. rec' = [rec EXCEPT ![b] = added]
    BY Zenon, <1>1, <1>2 DEF AddFinalizer
  <2>7. RecsOK'
    BY Zenon, <2>5, <2>6, RecMoves DEF RecsOK
  <2> QED
    BY Zenon, <1>2, <2>3, <2>7, InvParts, InvPartsNext DEF AddFinalizer
<1>3. CASE AddFinalizer(b) /\ ~rec[b].fresh
  <2>1. rec' = [rec EXCEPT ![b] = IdleRec]
    BY Zenon, <1>3 DEF AddFinalizer
  <2>2. RecFacts(IdleRec)
    BY Zenon DEF RecFacts, IdleRec
  <2>3. RecsOK'
    BY Zenon, <2>1, <2>2, RecMoves, Constants DEF RecsOK
  <2> QED
    BY Zenon, <1>3, <2>3, InvParts, InvPartsNext DEF AddFinalizer, objects
<1>4. CASE List(b)
  <2>1. s \in SUBSET Pod
    BY Zenon DEF Selected
  <2>2. rec[b].spec \in BreakerSpec
    BY Zenon, <1>1, <1>4 DEF List, RecFacts
  <2>3. listed \in Rec /\ RecFacts(listed)
    BY Zenon, <1>1, <2>1, <2>2 DEF Rec, RecFacts
  <2>4. rec' = [rec EXCEPT ![b] = listed]
    BY Zenon, <1>1, <1>4 DEF List
  <2>5. RecsOK'
    BY Zenon, <2>3, <2>4, RecMoves DEF RecsOK
  <2> QED
    BY Zenon, <1>4, <2>5, InvParts, InvPartsNext DEF List, objects
<1> QED
  BY Zenon, <1>2, <1>3, <1>4

(* What a worker does with one pod leaves it at its pc, with a pod less to *)
(* handle.                                                                 *)
LEMMA PodTyped ==
    ASSUME Inv, NEW b \in Breaker, NEW p \in Pod, NEW t \in Hash \cup {NoHash, NoTarget},
           NEW e \in BOOLEAN, rec[b].pc \in {"sync", "unselect", "clear"},
           rec' = [rec EXCEPT ![b] = [rec[b] EXCEPT !.todo = @ \ {p}, !.target = [@ EXCEPT ![p] = t], !.err = e]]
    PROVE  RecsOK'
<1> DEFINE r == [rec[b] EXCEPT !.todo = @ \ {p}, !.target = [@ EXCEPT ![p] = t], !.err = e]
<1>1. rec[b] \in Rec /\ RecFacts(rec[b])
  BY Zenon, InvParts DEF RecsOK
<1>2. [rec[b].target EXCEPT ![p] = t] \in Status
  BY Zenon, <1>1 DEF Rec, Status
<1>3. r \in Rec
  BY Zenon, <1>1, <1>2 DEF Rec
<1>4. r.pc = rec[b].pc /\ r.spec = rec[b].spec
  BY Zenon, <1>1 DEF Rec
<1>5. RecFacts(r)
  BY Zenon, <1>1, <1>4 DEF RecFacts
<1> QED
  BY Zenon, <1>3, <1>5, RecMoves DEF RecsOK

(* The cache of the pods keeps its type.                                   *)
LEMMA CacheTyped ==
    ASSUME podCache \in [Pod -> SUBSET Breaker], NEW p \in Pod, NEW b \in Breaker,
           podCache' = podCache \/ Add(p, b) \/ Delete(p, {}) \/ Delete(p, {b})
    PROVE  podCache' \in [Pod -> SUBSET Breaker]
<1>1. podCache[p] \cup {b} \in SUBSET Breaker /\ podCache[p] \ {b} \in SUBSET Breaker /\ {} \in SUBSET Breaker
  BY Zenon
<1>2. \E held \in SUBSET Breaker : podCache' = podCache \/ podCache' = [podCache EXCEPT ![p] = held]
  BY Zenon, <1>1 DEF Add, Delete
<1> QED
  BY Zenon, <1>2

(* A pod of the list.                                                      *)
LEMMA SyncPodTyped == ASSUME Inv, NEW b \in Breaker, NEW p \in Pod, SyncPod(b, p) PROVE Inv'
<1> DEFINE handled(t, e) == [rec[b] EXCEPT !.todo = @ \ {p}, !.target = [@ EXCEPT ![p] = t], !.err = e]
<1>1. rec[b] \in Rec /\ RecFacts(rec[b]) /\ rec \in [Breaker -> Rec]
  BY Zenon, InvParts DEF RecsOK
<1>2. /\ rec[b].target \in Status /\ rec[b].status \in Status /\ rec[b].err \in BOOLEAN
      /\ rec[b].spec \in BreakerSpec
  BY Zenon, <1>1 DEF Rec, RecFacts, SyncPod
<1>3. /\ rec[b].target[p] \in Hash \cup {NoHash, NoTarget}
      /\ rec[b].status[p] \in Hash \cup {NoHash, NoTarget}
      /\ KnownHash(b, p) \in Hash \cup {NoHash, NoTarget}
      /\ rec[b].spec.hash \in Hash
  BY Zenon, <1>2 DEF Status, KnownHash
<1>4. [rec[b].target EXCEPT ![p] = rec[b].target[p]] = rec[b].target
  BY Zenon, <1>2 DEF Status
<1>5. \E t \in Hash \cup {NoHash, NoTarget}, e \in BOOLEAN : rec' = [rec EXCEPT ![b] = handled(t, e)]
  <2>1. [rec EXCEPT ![b].todo = @ \ {p}, ![b].err = TRUE] = [rec EXCEPT ![b] = handled(rec[b].target[p], TRUE)]
    BY Zenon, <1>1, <1>4 DEF Rec
  <2>2. [rec EXCEPT ![b].todo = @ \ {p}] = [rec EXCEPT ![b] = handled(rec[b].target[p], rec[b].err)]
    BY Zenon, <1>1, <1>4 DEF Rec
  <2>3. \A t : [rec EXCEPT ![b].todo = @ \ {p}, ![b].target[p] = t] = [rec EXCEPT ![b] = handled(t, rec[b].err)]
    BY ZenonT(60), <1>1 DEF Rec
  <2>4. \A t : [rec EXCEPT ![b].todo = @ \ {p}, ![b].target[p] = t, ![b].err = TRUE] = [rec EXCEPT ![b] = handled(t, TRUE)]
    BY Zenon, <1>1 DEF Rec
  <2>5. \/ rec' = [rec EXCEPT ![b].todo = @ \ {p}, ![b].target[p] = KnownHash(b, p)]
        \/ rec' = [rec EXCEPT ![b].todo = @ \ {p}, ![b].target[p] = rec[b].spec.hash]
        \/ rec' = [rec EXCEPT ![b].todo = @ \ {p}, ![b].target[p] = KnownHash(b, p), ![b].err = TRUE]
    BY Zenon DEF SyncPod
  <2> HIDE DEF handled
  <2>6. \/ rec' = [rec EXCEPT ![b] = handled(KnownHash(b, p), rec[b].err)]
        \/ rec' = [rec EXCEPT ![b] = handled(rec[b].spec.hash, rec[b].err)]
        \/ rec' = [rec EXCEPT ![b] = handled(KnownHash(b, p), TRUE)]
    BY <2>3, <2>4, <2>5, Zenon
  <2> QED
    BY <1>2, <1>3, <2>6, Zenon
<1>6. rec[b].pc \in {"sync", "unselect", "clear"}
  BY Zenon DEF SyncPod
<1>7. RecsOK'
  BY Zenon, <1>5, <1>6, PodTyped
<1>8. proxy' \in [Pod -> [Breaker -> Hash \cup {NoHash}]] /\ env' \in 0 .. MaxEnv
  <2>1. \/ UNCHANGED <<proxy, env>>
        \/ \E ok \in BOOLEAN, h \in Hash \cup {NoHash} : SendConfig(b, p, h, ok)
    BY <1>3, Zenon DEF SyncPod
  <2> QED
    BY <2>1, SendConfigTyped, InvParts DEF Inv
<1>9. podCache' \in [Pod -> SUBSET Breaker]
  <2>1. podCache \in [Pod -> SUBSET Breaker]
    BY Zenon, InvParts
  <2>2. podCache' = podCache \/ Delete(p, {}) \/ Add(p, b)
    BY Zenon DEF SyncPod
  <2> QED
    BY Zenon, <2>1, <2>2, CacheTyped
<1> QED
  BY Zenon, <1>7, <1>8, <1>9, InvParts, InvPartsNext DEF SyncPod, objects

(* A pod no longer selected.                                               *)
LEMMA UnselectPodTyped == ASSUME Inv, NEW b \in Breaker, NEW p \in Pod, UnselectPod(b, p) PROVE Inv'
<1> DEFINE handled(t, e) == [rec[b] EXCEPT !.todo = @ \ {p}, !.target = [@ EXCEPT ![p] = t], !.err = e]
<1>1. rec[b] \in Rec /\ RecFacts(rec[b]) /\ rec \in [Breaker -> Rec]
  BY Zenon, InvParts DEF RecsOK
<1>2. /\ rec[b].target \in Status /\ rec[b].status \in Status /\ rec[b].err \in BOOLEAN
      /\ rec[b].spec \in BreakerSpec
  BY Zenon, <1>1 DEF Rec, RecFacts, UnselectPod
<1>3. /\ rec[b].target[p] \in Hash \cup {NoHash, NoTarget}
      /\ rec[b].status[p] \in Hash \cup {NoHash, NoTarget}
      /\ KnownHash(b, p) \in Hash \cup {NoHash, NoTarget}
      /\ rec[b].spec.hash \in Hash
  BY Zenon, <1>2 DEF Status, KnownHash
<1>4. [rec[b].target EXCEPT ![p] = rec[b].target[p]] = rec[b].target
  BY Zenon, <1>2 DEF Status
<1>5. \E t \in Hash \cup {NoHash, NoTarget}, e \in BOOLEAN : rec' = [rec EXCEPT ![b] = handled(t, e)]
  <2>1. [rec EXCEPT ![b].todo = @ \ {p}, ![b].err = TRUE] = [rec EXCEPT ![b] = handled(rec[b].target[p], TRUE)]
    BY Zenon, <1>1, <1>4 DEF Rec
  <2>2. [rec EXCEPT ![b].todo = @ \ {p}] = [rec EXCEPT ![b] = handled(rec[b].target[p], rec[b].err)]
    BY Zenon, <1>1, <1>4 DEF Rec
  <2>3. \A t : [rec EXCEPT ![b].todo = @ \ {p}, ![b].target[p] = t] = [rec EXCEPT ![b] = handled(t, rec[b].err)]
    BY ZenonT(60), <1>1 DEF Rec
  <2>4. \A t : [rec EXCEPT ![b].todo = @ \ {p}, ![b].target[p] = t, ![b].err = TRUE] = [rec EXCEPT ![b] = handled(t, TRUE)]
    BY Zenon, <1>1 DEF Rec
  <2>5. \/ rec' = [rec EXCEPT ![b].todo = @ \ {p}]
        \/ rec' = [rec EXCEPT ![b].todo = @ \ {p}, ![b].target[p] = rec[b].status[p], ![b].err = TRUE]
    BY Zenon DEF UnselectPod
  <2> HIDE DEF handled
  <2>6. \/ rec' = [rec EXCEPT ![b] = handled(rec[b].target[p], rec[b].err)]
        \/ rec' = [rec EXCEPT ![b] = handled(rec[b].status[p], TRUE)]
    BY <2>2, <2>4, <2>5, Zenon
  <2> QED
    BY <1>2, <1>3, <2>6, Zenon
<1>6. rec[b].pc \in {"sync", "unselect", "clear"}
  BY Zenon DEF UnselectPod
<1>7. RecsOK'
  BY Zenon, <1>5, <1>6, PodTyped
<1>8. proxy' \in [Pod -> [Breaker -> Hash \cup {NoHash}]] /\ env' \in 0 .. MaxEnv
  <2>1. \/ UNCHANGED <<proxy, env>>
        \/ \E ok \in BOOLEAN, h \in Hash \cup {NoHash} : SendConfig(b, p, h, ok)
    BY <1>3, Zenon DEF UnselectPod
  <2> QED
    BY <2>1, SendConfigTyped, InvParts DEF Inv
<1>9. podCache' \in [Pod -> SUBSET Breaker]
  <2>1. podCache \in [Pod -> SUBSET Breaker]
    BY Zenon, InvParts
  <2>2. podCache' = podCache \/ Delete(p, {}) \/ Delete(p, {b})
    BY Zenon DEF UnselectPod
  <2> QED
    BY Zenon, <2>1, <2>2, CacheTyped
<1> QED
  BY Zenon, <1>7, <1>8, <1>9, InvParts, InvPartsNext DEF UnselectPod, objects

(* A target of an object that is cleared.                                  *)
LEMMA ClearPodTyped == ASSUME Inv, NEW b \in Breaker, NEW p \in Pod, ClearPod(b, p) PROVE Inv'
<1> DEFINE handled(t, e) == [rec[b] EXCEPT !.todo = @ \ {p}, !.target = [@ EXCEPT ![p] = t], !.err = e]
<1>1. rec[b] \in Rec /\ RecFacts(rec[b]) /\ rec \in [Breaker -> Rec]
  BY Zenon, InvParts DEF RecsOK
<1>2. /\ rec[b].target \in Status /\ rec[b].status \in Status /\ rec[b].err \in BOOLEAN
      /\ rec[b].spec \in BreakerSpec
  BY Zenon, <1>1 DEF Rec, RecFacts, ClearPod
<1>3. /\ rec[b].target[p] \in Hash \cup {NoHash, NoTarget}
      /\ rec[b].status[p] \in Hash \cup {NoHash, NoTarget}
      /\ KnownHash(b, p) \in Hash \cup {NoHash, NoTarget}
      /\ rec[b].spec.hash \in Hash
  BY Zenon, <1>2 DEF Status, KnownHash
<1>4. [rec[b].target EXCEPT ![p] = rec[b].target[p]] = rec[b].target
  BY Zenon, <1>2 DEF Status
<1>5. \E t \in Hash \cup {NoHash, NoTarget}, e \in BOOLEAN : rec' = [rec EXCEPT ![b] = handled(t, e)]
  <2>1. [rec EXCEPT ![b].todo = @ \ {p}, ![b].err = TRUE] = [rec EXCEPT ![b] = handled(rec[b].target[p], TRUE)]
    BY Zenon, <1>1, <1>4 DEF Rec
  <2>2. [rec EXCEPT ![b].todo = @ \ {p}] = [rec EXCEPT ![b] = handled(rec[b].target[p], rec[b].err)]
    BY Zenon, <1>1, <1>4 DEF Rec
  <2>3. \A t : [rec EXCEPT ![b].todo = @ \ {p}, ![b].target[p] = t] = [rec EXCEPT ![b] = handled(t, rec[b].err)]
    BY ZenonT(60), <1>1 DEF Rec
  <2>4. \A t : [rec EXCEPT ![b].todo = @ \ {p}, ![b].target[p] = t, ![b].err = TRUE] = [rec EXCEPT ![b] = handled(t, TRUE)]
    BY Zenon, <1>1 DEF Rec
  <2> HIDE DEF handled
  <2> QED
    BY ZenonT(30), <1>2, <1>3, <2>1, <2>2, <2>3, <2>4 DEF ClearPod
<1>6. rec[b].pc \in {"sync", "unselect", "clear"}
  BY Zenon DEF ClearPod
<1>7. RecsOK'
  BY Zenon, <1>5, <1>6, PodTyped
<1>8. proxy' \in [Pod -> [Breaker -> Hash \cup {NoHash}]] /\ env' \in 0 .. MaxEnv
  <2>1. \/ UNCHANGED <<proxy, env>>
        \/ \E ok \in BOOLEAN, h \in Hash \cup {NoHash} : SendConfig(b, p, h, ok)
    BY <1>3, Zenon DEF ClearPod
  <2> QED
    BY <2>1, SendConfigTyped, InvParts DEF Inv
<1>9. podCache' \in [Pod -> SUBSET Breaker]
  <2>1. podCache \in [Pod -> SUBSET Breaker]
    BY Zenon, InvParts
  <2>2. podCache' = podCache \/ Delete(p, {b})
    BY Zenon DEF ClearPod
  <2> QED
    BY Zenon, <2>1, <2>2, CacheTyped
<1> QED
  BY Zenon, <1>7, <1>8, <1>9, InvParts, InvPartsNext DEF ClearPod, objects

(* Synced, and the end of a sync.                                          *)
LEMMA EndTyped == ASSUME Inv, NEW b \in Breaker, Synced(b) \/ UpdateStatus(b) PROVE Inv'
<1>1. rec[b] \in Rec /\ RecFacts(rec[b]) /\ obj[b] \in Obj /\ rec \in [Breaker -> Rec]
  BY Zenon, InvParts DEF RecsOK
<1>2. rec[b].target \in Status /\ rec[b].err \in BOOLEAN
  BY Zenon, <1>1 DEF Rec
<1>3. CASE Synced(b)
  <2> DEFINE left == Targets(rec[b].status) \ Targets(rec[b].target)
             r == [rec[b] EXCEPT !.pc = "unselect", !.todo = left]
  <2>1. left \in SUBSET Pod /\ rec[b].spec \in BreakerSpec
    BY Zenon, <1>1, <1>3 DEF Targets, Synced, RecFacts
  <2>2. r \in Rec /\ RecFacts(r)
    BY Zenon, <1>1, <2>1 DEF Rec, RecFacts
  <2>3. rec' = [rec EXCEPT ![b] = r]
    BY Zenon, <1>1, <1>3 DEF Synced
  <2>4. RecsOK'
    BY Zenon, <2>2, <2>3, RecMoves DEF RecsOK
  <2> QED
    BY Zenon, <1>3, <2>4, InvParts, InvPartsNext DEF Synced, objects
<1>4. CASE UpdateStatus(b)
  <2>1. [obj[b] EXCEPT !.status = rec[b].target] \in Obj
    BY Zenon, <1>1, <1>2 DEF Obj
  <2>2. \/ UNCHANGED objects
        \/ Write(b, [obj[b] EXCEPT !.status = rec[b].target])
    BY <1>4, Zenon DEF UpdateStatus
  <2>3. obj' \in [Breaker -> Obj] /\ seen' \in [Breaker -> Obj] /\ news' \in [Breaker -> {"none", "quiet", "event"}]
    <3>1. CASE UNCHANGED objects
      BY Zenon, <3>1, InvParts DEF objects
    <3>2. CASE Write(b, [obj[b] EXCEPT !.status = rec[b].target])
      BY Zenon, <3>2, <2>1, WriteTyped DEF Inv
    <3> QED
      BY Zenon, <2>2, <3>1, <3>2
  <2>4. \E err \in BOOLEAN : Finish(b, err, TRUE)
    BY <1>2, <1>4, Zenon DEF UpdateStatus
  <2>5. RecsOK' /\ queue' \subseteq Breaker /\ timer' \subseteq Breaker
    BY Zenon, <2>4, FinishTyped DEF RecsOK
  <2> QED
    BY Zenon, <1>4, <2>3, <2>5, InvParts, InvPartsNext DEF UpdateStatus
<1> QED
  BY Zenon, <1>3, <1>4

(* The end of a clear.                                                     *)
LEMMA ClearTyped == ASSUME Inv, NEW b \in Breaker, ClearStatus(b) \/ RemoveFinalizer(b) PROVE Inv'
<1> DEFINE wiped == [obj[b] EXCEPT !.status = NoTargets]
           on == [rec[b] EXCEPT !.pc = "removeFinalizer"]
<1>1. rec[b] \in Rec /\ RecFacts(rec[b]) /\ obj[b] \in Obj /\ rec \in [Breaker -> Rec]
  BY Zenon, InvParts DEF RecsOK
<1>2. wiped \in Obj /\ WithoutFinalizer(obj[b]) \in Obj
  BY Zenon, <1>1, Constants DEF Obj, WithoutFinalizer
<1>3. \/ UNCHANGED objects
      \/ \E o \in Obj : Write(b, o)
  BY <1>2, Zenon DEF ClearStatus, RemoveFinalizer
<1>4. obj' \in [Breaker -> Obj] /\ seen' \in [Breaker -> Obj] /\ news' \in [Breaker -> {"none", "quiet", "event"}]
  <2>1. CASE UNCHANGED objects
    BY Zenon, <2>1, InvParts DEF objects
  <2>2. CASE \E o \in Obj : Write(b, o)
    BY Zenon, <2>2, WriteTyped DEF Inv
  <2> QED
    BY Zenon, <1>3, <2>1, <2>2
<1>5. RecsOK' /\ queue' \subseteq Breaker /\ timer' \subseteq Breaker
  <2>1. CASE \E err \in BOOLEAN : Finish(b, err, FALSE)
    BY Zenon, <2>1, FinishTyped DEF RecsOK
  <2>2. CASE ClearStatus(b) /\ rec' = [rec EXCEPT ![b].pc = "removeFinalizer"] /\ UNCHANGED <<queue, timer>>
    <3>1. rec[b].todo = {} /\ rec[b].spec \in BreakerSpec
      BY Zenon, <1>1, <2>2 DEF ClearStatus, RecFacts
    <3>2. on \in Rec /\ RecFacts(on)
      BY Zenon, <1>1, <3>1 DEF Rec, RecFacts
    <3>3. rec' = [rec EXCEPT ![b] = on]
      BY Zenon, <1>1, <2>2
    <3>4. RecsOK'
      BY Zenon, <3>2, <3>3, RecMoves DEF RecsOK
    <3> QED
      BY Zenon, <2>2, <3>4, InvParts
  <2> QED
    BY <2>1, <2>2, Zenon DEF ClearStatus, RemoveFinalizer
<1> QED
  BY Zenon, <1>4, <1>5, InvParts, InvPartsNext DEF ClearStatus, RemoveFinalizer

(* The informer and the requeue.                                           *)
LEMMA QueueTyped == ASSUME Inv, NEW b \in Breaker, Watch(b) \/ Requeue(b) PROVE Inv'
<1>1. obj[b] \in Obj /\ seen \in [Breaker -> Obj] /\ news \in [Breaker -> {"none", "quiet", "event"}]
  BY Zenon, InvParts
<1>2. CASE Watch(b)
  <2>1. seen' \in [Breaker -> Obj] /\ news' \in [Breaker -> {"none", "quiet", "event"}]
    BY Zenon, <1>1, <1>2 DEF Watch
  <2>2. RecsOK' /\ queue' \subseteq Breaker
    BY Zenon, <1>2, InvParts DEF Watch, RecsOK
  <2> QED
    BY Zenon, <1>2, <2>1, <2>2, InvParts, InvPartsNext DEF Watch
<1>3. CASE Requeue(b)
  <2>1. RecsOK' /\ queue' \subseteq Breaker /\ timer' \subseteq Breaker
    BY Zenon, <1>3, InvParts DEF Requeue, RecsOK
  <2> QED
    BY Zenon, <1>3, <2>1, InvParts, InvPartsNext DEF Requeue, objects
<1> QED
  BY Zenon, <1>2, <1>3

(* A write of a user makes the copy of a busy worker stale.                *)
LEMMA UserTyped ==
    ASSUME Inv, NEW b \in Breaker, NEW o \in Obj, NEW kind, UserWrites(kind, b, o)
    PROVE  Inv'
<1> DEFINE r == [rec[b] EXCEPT !.fresh = rec[b].pc = "idle"]
<1>1. rec[b] \in Rec /\ RecFacts(rec[b]) /\ rec \in [Breaker -> Rec]
  BY Zenon, InvParts DEF RecsOK
<1>2. r \in Rec /\ RecFacts(r)
  <2>1. CASE rec[b].pc = "idle"
    <3>1. rec[b] = IdleRec
      BY Zenon, <1>1, <2>1 DEF RecFacts
    <3>2. (rec[b].pc = "idle") = TRUE
      BY Zenon, <2>1
    <3>3. r = [IdleRec EXCEPT !.fresh = TRUE]
      BY <3>1, <3>2, Zenon
    <3>4. IdleRec.fresh = TRUE
      BY Zenon DEF IdleRec
    <3>5. [IdleRec EXCEPT !.fresh = TRUE] = IdleRec
      BY Zenon, <3>4, Constants DEF Rec
    <3> QED
      BY Zenon, <1>1, <3>1, <3>3, <3>5
  <2>2. CASE rec[b].pc # "idle"
    BY Zenon, <1>1, <2>2 DEF Rec, RecFacts
  <2> QED
    BY Zenon, <2>1, <2>2
<1>3. rec' = [rec EXCEPT ![b] = r]
  BY Zenon, <1>1 DEF UserWrites
<1>4. RecsOK'
  BY Zenon, <1>2, <1>3, RecMoves DEF RecsOK
<1>5. obj' \in [Breaker -> Obj] /\ seen' \in [Breaker -> Obj] /\ news' \in [Breaker -> {"none", "quiet", "event"}]
  BY Zenon, WriteTyped DEF UserWrites, Inv
<1>6. env' \in 0 .. MaxEnv
  BY InvParts DEF UserWrites
<1> QED
  BY Zenon, <1>4, <1>5, <1>6, InvParts, InvPartsNext DEF UserWrites

(* What users do to an object writes a well-typed one.                     *)
LEMMA UsersWrite ==
    ASSUME Inv, NEW b \in Breaker,
           \/ \E s \in BreakerSpec : CreateOrEdit(b, s)
           \/ ToggleDisabled(b)
           \/ DeleteObject(b)
    PROVE  \E o \in Obj, kind \in EnvKind :
              /\ UserWrites(kind, b, o)
              /\ obj[b].finalizer => o.finalizer
              /\ obj[b].finalizer /\ Exists(obj[b]) => Exists(o)
<1>1. obj[b] \in Obj
  BY Zenon, InvParts
<1>2. ASSUME NEW s \in BreakerSpec, CreateOrEdit(b, s)
      PROVE  \E o \in Obj, kind \in EnvKind :
                /\ UserWrites(kind, b, o)
                /\ obj[b].finalizer => o.finalizer
                /\ obj[b].finalizer /\ Exists(obj[b]) => Exists(o)
  <2> DEFINE o == [obj[b] EXCEPT !.spec = s]
  <2>1. o \in Obj /\ o.finalizer = obj[b].finalizer /\ Exists(o)
    BY Zenon, <1>1 DEF Obj, Exists
  <2>2. UserWrites("edit", b, o) /\ "edit" \in EnvKind
    BY Zenon, <1>2 DEF CreateOrEdit, EnvKind
  <2> HIDE DEF o
  <2> QED
    BY Zenon, <2>1, <2>2
<1>3. ASSUME ToggleDisabled(b)
      PROVE  \E o \in Obj, kind \in EnvKind :
                /\ UserWrites(kind, b, o)
                /\ obj[b].finalizer => o.finalizer
                /\ obj[b].finalizer /\ Exists(obj[b]) => Exists(o)
  <2> DEFINE o == [obj[b] EXCEPT !.disabled = ~@]
  <2>1. o \in Obj /\ o.finalizer = obj[b].finalizer /\ o.spec = obj[b].spec
    BY Zenon, <1>1 DEF Obj
  <2>2. UserWrites("disable", b, o) /\ "disable" \in EnvKind
    BY Zenon, <1>3 DEF ToggleDisabled, EnvKind
  <2> HIDE DEF o
  <2> QED
    BY Zenon, <2>1, <2>2 DEF Exists
<1>4. ASSUME DeleteObject(b)
      PROVE  \E o \in Obj, kind \in EnvKind :
                /\ UserWrites(kind, b, o)
                /\ obj[b].finalizer => o.finalizer
                /\ obj[b].finalizer /\ Exists(obj[b]) => Exists(o)
  <2> DEFINE o == IF obj[b].finalizer THEN [obj[b] EXCEPT !.deleting = TRUE] ELSE NoObj
  <2>1. o \in Obj /\ (obj[b].finalizer => o.finalizer /\ o.spec = obj[b].spec)
    BY Zenon, <1>1, Constants DEF Obj
  <2>2. UserWrites("delete", b, o) /\ "delete" \in EnvKind
    BY Zenon, <1>4 DEF DeleteObject, EnvKind
  <2> HIDE DEF o
  <2> QED
    BY Zenon, <2>1, <2>2 DEF Exists
<1> QED
  BY Zenon, <1>2, <1>3, <1>4

(* Pods come, go and change.                                               *)
LEMMA PodsTyped ==
    ASSUME Inv, NEW p \in Pod,
           \/ \E l \in Label : Relabel(p, l)
           \/ Flap(p) \/ RestartProxy(p) \/ BecomeReady(p) \/ RemovePod(p) \/ RecreatePod(p)
    PROVE  Inv' /\ UNCHANGED <<objects, rec>>
<1> DEFINE PodRec == [phase : {"absent", "notReady", "ready"}, label : Label]
<1>1. pod \in [Pod -> PodRec] /\ pod[p] \in PodRec
  BY Zenon, InvParts
<1>2. /\ \A l \in Label : [pod EXCEPT ![p].label = l] \in [Pod -> PodRec]
      /\ \A ph \in {"absent", "notReady", "ready"} : [pod EXCEPT ![p].phase = ph] \in [Pod -> PodRec]
  BY Zenon, <1>1
<1>3. pod' \in [Pod -> PodRec]
  <2> HIDE DEF PodRec
  <2> QED
    BY Zenon, <1>2 DEF Relabel, Flap, RestartProxy, BecomeReady, RemovePod, RecreatePod
<1>4. env' \in 0 .. MaxEnv
  <2>1. env' = env \/ (env > 0 /\ env' = env - 1)
    BY Zenon DEF Relabel, Flap, RestartProxy, BecomeReady, RemovePod, RecreatePod, Spend
  <2>2. env \in 0 .. MaxEnv
    BY InvParts, Zenon
  <2> QED
    BY <2>1, <2>2, BudgetSpent, Zenon
<1>5. queue' \subseteq Breaker
  BY Zenon, InvParts DEF Relabel, Flap, RestartProxy, BecomeReady, RemovePod, RecreatePod,
                  effectiveBreakers, matchChangedBreakers
<1>6. proxy' \in [Pod -> [Breaker -> Hash \cup {NoHash}]]
  <2> DEFINE Held == [Breaker -> Hash \cup {NoHash}]
             empty == [b \in Breaker |-> NoHash]
  <2>1. proxy \in [Pod -> Held] /\ empty \in Held
    BY Zenon, InvParts
  <2>2. proxy' = proxy \/ proxy' = [proxy EXCEPT ![p] = empty]
    BY Zenon DEF Relabel, Flap, RestartProxy, BecomeReady, RemovePod, RecreatePod
  <2> HIDE DEF Held, empty
  <2>3. proxy' \in [Pod -> Held]
    BY Zenon, <2>1, <2>2
  <2> QED
    BY Zenon, <2>3 DEF Held
<1>7. podCache' \in [Pod -> SUBSET Breaker]
  <2>1. podCache' = podCache \/ Delete(p, {})
    BY Zenon DEF Relabel, Flap, RestartProxy, BecomeReady, RemovePod, RecreatePod
  <2> QED
    BY Zenon, <2>1, InvParts DEF Delete
<1>8. UNCHANGED <<objects, rec, timer>>
  BY Zenon DEF Relabel, Flap, RestartProxy, BecomeReady, RemovePod, RecreatePod
<1>9. RecsOK'
  BY Zenon, <1>8, InvParts DEF RecsOK
<1> QED
  BY Zenon, <1>3, <1>4, <1>5, <1>6, <1>7, <1>8, <1>9, InvParts, InvPartsNext DEF objects

(* A new manager starts with nothing.                                      *)
LEMMA RestartTyped == ASSUME Inv, RestartManager PROVE Inv'
<1>1. RecFacts(IdleRec)
  BY Zenon DEF RecFacts, IdleRec
<1>2. RecsOK'
  BY Zenon, <1>1, Constants DEF RestartManager, RecsOK
<1>3. env' \in 0 .. MaxEnv
  <2>1. env > 0 /\ env' = env - 1
    BY Zenon DEF RestartManager, Spend
  <2>2. env \in 0 .. MaxEnv
    BY InvParts, Zenon
  <2> QED
    BY <2>1, <2>2, BudgetSpent, Zenon
<1>4. /\ obj' \in [Breaker -> Obj] /\ seen' \in [Breaker -> Obj]
      /\ news' \in [Breaker -> {"none", "quiet", "event"}]
      /\ queue' \subseteq Breaker /\ timer' \subseteq Breaker
      /\ podCache' \in [Pod -> SUBSET Breaker]
  BY Zenon, InvParts DEF RestartManager
<1> QED
  BY Zenon, <1>2, <1>3, <1>4, InvParts, InvPartsNext DEF RestartManager

(* Every step keeps Inv.                                                   *)
LEMMA InvNext == Inv /\ [Next]_vars => Inv'
<1> SUFFICES ASSUME Inv, [Next]_vars PROVE Inv'
  BY Zenon
<1>1. CASE UNCHANGED vars
  <2>1. RecsOK'
    BY Zenon, <1>1, InvParts DEF vars, RecsOK
  <2> QED
    BY Zenon, <1>1, <2>1, InvParts, InvPartsNext DEF vars
<1>2. ASSUME NEW b \in Breaker, Reconcile(b) PROVE Inv'
  BY Zenon, <1>2, GetTyped, StartTyped, SyncPodTyped, UnselectPodTyped, ClearPodTyped, EndTyped, ClearTyped
     DEF Reconcile
<1>3. ASSUME NEW b \in Breaker, Watch(b) \/ Requeue(b) PROVE Inv'
  BY Zenon, <1>3, QueueTyped
<1>4. CASE Environment
  <2>1. ASSUME NEW b \in Breaker, \/ \E s \in BreakerSpec : CreateOrEdit(b, s)
                                  \/ ToggleDisabled(b) \/ DeleteObject(b)
        PROVE  Inv'
    BY Zenon, <2>1, UsersWrite, UserTyped
  <2> QED
    BY Zenon, <1>4, <2>1, PodsTyped, RestartTyped DEF Environment
<1> QED
  BY Zenon, <1>1, <1>2, <1>3, <1>4 DEF Next

(* A step that touches only one object and its worker need only keep       *)
(* Protected of that one.                                                  *)
LEMMA OneMoves ==
    ASSUME Inv, FinalizerInv, NEW b \in Breaker,
           \A c \in Breaker \ {b} : obj'[c] = obj[c] /\ seen'[c] = seen[c] /\ news'[c] = news[c] /\ rec'[c] = rec[c],
           Protected(obj'[b], seen'[b], news'[b], rec'[b])
    PROVE  FinalizerInv'
<1>1. ASSUME NEW c \in Breaker PROVE Protected(obj'[c], seen'[c], news'[c], rec'[c])
  <2>1. CASE c = b
    BY Zenon, <2>1
  <2>2. CASE c # b
    <3>1. Protected(obj[c], seen[c], news[c], rec[c])
      BY Zenon DEF FinalizerInv
    <3> QED
      BY Zenon, <2>2, <3>1
  <2> QED
    BY Zenon, <2>1, <2>2
<1> QED
  BY Zenon, <1>1 DEF FinalizerInv

(* A worker that only advances on its copy, or ends.                       *)
LEMMA WorkerProtected ==
    ASSUME Inv, FinalizerInv, NEW b \in Breaker, NEW p \in Pod,
           SyncPod(b, p) \/ UnselectPod(b, p) \/ ClearPod(b, p)
    PROVE  FinalizerInv'
<1>1. rec \in [Breaker -> Rec] /\ rec[b] \in Rec
  BY Zenon, InvParts DEF RecsOK
<1>2. UNCHANGED <<obj, seen, news>>
  BY Zenon DEF SyncPod, UnselectPod, ClearPod, objects
<1>3. rec'[b].pc = rec[b].pc /\ rec'[b].fresh = rec[b].fresh /\ \A c \in Breaker \ {b} : rec'[c] = rec[c]
  <2>1. CASE SyncPod(b, p)
    <3>1. \/ rec' = [rec EXCEPT ![b].todo = @ \ {p}, ![b].target[p] = KnownHash(b, p)]
          \/ rec' = [rec EXCEPT ![b].todo = @ \ {p}, ![b].target[p] = rec[b].spec.hash]
          \/ rec' = [rec EXCEPT ![b].todo = @ \ {p}, ![b].target[p] = KnownHash(b, p), ![b].err = TRUE]
      BY <2>1, Zenon DEF SyncPod
    <3> QED
      BY <1>1, <3>1 DEF Rec
  <2>2. CASE UnselectPod(b, p)
    <3>1. \/ rec' = [rec EXCEPT ![b].todo = @ \ {p}]
          \/ rec' = [rec EXCEPT ![b].todo = @ \ {p}, ![b].target[p] = rec[b].status[p], ![b].err = TRUE]
      BY <2>2, Zenon DEF UnselectPod
    <3> QED
      BY <1>1, <3>1 DEF Rec
  <2>3. CASE ClearPod(b, p)
    <3>1. \/ rec' = [rec EXCEPT ![b].todo = @ \ {p}]
          \/ rec' = [rec EXCEPT ![b].todo = @ \ {p}, ![b].err = TRUE]
      BY <2>3, Zenon DEF ClearPod
    <3> QED
      BY <1>1, <3>1 DEF Rec
  <2> QED
    BY Zenon, <2>1, <2>2, <2>3
<1>4. Protected(obj[b], seen[b], news[b], rec[b])
  BY Zenon DEF FinalizerInv
<1>5. Protected(obj'[b], seen'[b], news'[b], rec'[b])
  BY Zenon, <1>2, <1>3, <1>4 DEF Protected
<1> QED
  BY Zenon, <1>2, <1>3, <1>5, OneMoves

(* The other steps of a worker.                                            *)
LEMMA ReconcileProtected ==
    ASSUME Inv, FinalizerInv, NEW b \in Breaker, Reconcile(b)
    PROVE  FinalizerInv'
<1>1. /\ rec \in [Breaker -> Rec] /\ rec[b] \in Rec /\ obj[b] \in Obj /\ seen[b] \in Obj
      /\ obj \in [Breaker -> Obj] /\ news \in [Breaker -> {"none", "quiet", "event"}]
  BY Zenon, InvParts DEF RecsOK
<1>2. Protected(obj[b], seen[b], news[b], rec[b])
  BY Zenon DEF FinalizerInv
<1>3. IdleRec.pc = "idle"
  BY Zenon DEF IdleRec
<1>4. CASE Get(b)
  <2>1. UNCHANGED <<obj, seen, news>> /\ \A c \in Breaker \ {b} : rec'[c] = rec[c]
    BY Zenon, <1>1, <1>4 DEF Get, objects
  <2>2. \/ rec'[b].pc = "idle"
        \/ rec'[b].pc = "clear" /\ Clearing(seen[b]) /\ rec'[b].fresh = (news[b] = "none")
        \/ rec'[b].pc = "addFinalizer" /\ Exists(seen[b]) /\ rec'[b].fresh = (news[b] = "none")
        \/ rec'[b].pc = "list" /\ Exists(seen[b]) /\ ~Clearing(seen[b]) /\ seen[b].finalizer
    BY Zenon, <1>1, <1>4 DEF Get, IdleRec, Clearing
  <2>3. Protected(obj'[b], seen'[b], news'[b], rec'[b])
    BY Zenon, <1>2, <2>1, <2>2 DEF Protected
  <2> QED
    BY Zenon, <2>1, <2>3, OneMoves
<1>5. CASE AddFinalizer(b)
  <2>1. CASE rec[b].fresh
    <3> DEFINE o == [obj[b] EXCEPT !.finalizer = TRUE]
    <3>1. o.finalizer = TRUE /\ o.spec = obj[b].spec
      BY Zenon, <1>1 DEF Obj
    <3>2. /\ obj'[b] = o /\ seen' = seen /\ news'[b] # "none" /\ rec'[b].pc = "list"
          /\ \A c \in Breaker \ {b} : obj'[c] = obj[c] /\ news'[c] = news[c] /\ rec'[c] = rec[c]
      BY <1>1, <1>5, <2>1 DEF AddFinalizer, Write, Rec
    <3>3. Exists(obj[b])
      BY Zenon, <1>2, <1>5, <2>1 DEF Protected, AddFinalizer
    <3>4. Protected(obj'[b], seen'[b], news'[b], rec'[b])
      BY Zenon, <3>1, <3>2, <3>3 DEF Protected, Exists
    <3> QED
      BY Zenon, <3>2, <3>4, OneMoves
  <2>2. CASE ~rec[b].fresh
    <3>1. UNCHANGED <<obj, seen, news>> /\ rec'[b].pc = "idle" /\ \A c \in Breaker \ {b} : rec'[c] = rec[c]
      BY Zenon, <1>1, <1>3, <1>5, <2>2 DEF AddFinalizer, objects
    <3>2. Protected(obj'[b], seen'[b], news'[b], rec'[b])
      BY Zenon, <1>2, <3>1 DEF Protected
    <3> QED
      BY Zenon, <3>1, <3>2, OneMoves
  <2> QED
    BY Zenon, <2>1, <2>2
<1>6. CASE List(b) \/ Synced(b)
  <2>1. /\ UNCHANGED <<obj, seen, news>> /\ \A c \in Breaker \ {b} : rec'[c] = rec[c]
        /\ rec[b].pc \in {"list", "sync"} /\ rec'[b].pc \in {"sync", "unselect"}
    BY <1>1, <1>6 DEF List, Synced, objects, Rec
  <2>2. Protected(obj'[b], seen'[b], news'[b], rec'[b])
    BY Zenon, <1>2, <2>1 DEF Protected
  <2> QED
    BY Zenon, <2>1, <2>2, OneMoves
<1>7. CASE UpdateStatus(b)
  <2> DEFINE o == [obj[b] EXCEPT !.status = rec[b].target]
  <2>1. o.spec = obj[b].spec /\ o.finalizer = obj[b].finalizer
    BY Zenon, <1>1 DEF Obj
  <2>2. rec'[b].pc = "idle" /\ \A c \in Breaker \ {b} : rec'[c] = rec[c]
    BY Zenon, <1>1, <1>3, <1>7 DEF UpdateStatus, Finish
  <2>3. CASE UNCHANGED objects
    <3>1. Protected(obj'[b], seen'[b], news'[b], rec'[b])
      BY Zenon, <1>2, <2>2, <2>3 DEF Protected, objects
    <3> QED
      BY Zenon, <2>2, <2>3, <3>1, OneMoves DEF objects
  <2>4. CASE Write(b, o)
    <3>1. /\ obj'[b] = o /\ seen' = seen /\ news'[b] # "none"
          /\ \A c \in Breaker \ {b} : obj'[c] = obj[c] /\ news'[c] = news[c]
      BY Zenon, <1>1, <2>4 DEF Write
    <3>2. Protected(obj'[b], seen'[b], news'[b], rec'[b])
      BY Zenon, <1>2, <2>1, <2>2, <3>1 DEF Protected, Exists
    <3> QED
      BY Zenon, <2>2, <3>1, <3>2, OneMoves
  <2> QED
    BY <1>7, <2>3, <2>4, Zenon DEF UpdateStatus
<1>8. CASE ClearStatus(b)
  <2> DEFINE o == [obj[b] EXCEPT !.status = NoTargets]
  <2>1. /\ o.spec = obj[b].spec /\ o.finalizer = obj[b].finalizer
        /\ o.disabled = obj[b].disabled /\ o.deleting = obj[b].deleting
    BY Zenon, <1>1 DEF Obj
  <2>2. /\ \A c \in Breaker \ {b} : rec'[c] = rec[c]
        /\ rec[b].pc = "clear"
        /\ rec'[b].pc = "idle" \/ (rec'[b].pc = "removeFinalizer" /\ rec'[b].fresh = rec[b].fresh)
    BY <1>1, <1>3, <1>8 DEF ClearStatus, Finish, Rec
  <2>3. CASE UNCHANGED objects
    <3>1. Protected(obj'[b], seen'[b], news'[b], rec'[b])
      BY Zenon, <1>2, <2>2, <2>3 DEF Protected, objects
    <3> QED
      BY Zenon, <2>2, <2>3, <3>1, OneMoves DEF objects
  <2>4. CASE Write(b, o)
    <3>1. /\ obj'[b] = o /\ seen' = seen /\ news'[b] # "none"
          /\ \A c \in Breaker \ {b} : obj'[c] = obj[c] /\ news'[c] = news[c]
      BY Zenon, <1>1, <2>4 DEF Write
    <3>2. Protected(obj'[b], seen'[b], news'[b], rec'[b])
      BY Zenon, <1>2, <2>1, <2>2, <3>1 DEF Protected, Exists, Clearing
    <3> QED
      BY Zenon, <2>2, <3>1, <3>2, OneMoves
  <2> QED
    BY <1>8, <2>3, <2>4, Zenon DEF ClearStatus
<1>9. CASE RemoveFinalizer(b)
  <2>1. rec'[b].pc = "idle" /\ \A c \in Breaker \ {b} : rec'[c] = rec[c]
    BY Zenon, <1>1, <1>3, <1>9 DEF RemoveFinalizer, Finish
  <2>2. CASE rec[b].fresh
    <3>1. /\ seen' = seen /\ news'[b] # "none"
          /\ \A c \in Breaker \ {b} : obj'[c] = obj[c] /\ news'[c] = news[c]
      BY Zenon, <1>1, <1>9, <2>2 DEF RemoveFinalizer, Write
    <3>2. Clearing(seen[b])
      BY Zenon, <1>2, <1>9, <2>2 DEF Protected, RemoveFinalizer
    <3>3. Protected(obj'[b], seen'[b], news'[b], rec'[b])
      BY Zenon, <2>1, <3>1, <3>2 DEF Protected
    <3> QED
      BY Zenon, <2>1, <3>1, <3>3, OneMoves
  <2>3. CASE ~rec[b].fresh
    <3>1. UNCHANGED <<obj, seen, news>>
      BY Zenon, <1>9, <2>3 DEF RemoveFinalizer, objects
    <3>2. Protected(obj'[b], seen'[b], news'[b], rec'[b])
      BY Zenon, <1>2, <2>1, <3>1 DEF Protected
    <3> QED
      BY Zenon, <2>1, <3>1, <3>2, OneMoves
  <2> QED
    BY Zenon, <2>2, <2>3
<1> QED
  BY Zenon, <1>4, <1>5, <1>6, <1>7, <1>8, <1>9, WorkerProtected DEF Reconcile

(* The informer, the requeue and the environment.                          *)
LEMMA OthersProtected ==
    ASSUME Inv, FinalizerInv, Environment \/ \E b \in Breaker : Watch(b) \/ Requeue(b)
    PROVE  FinalizerInv'
<1>1. /\ obj \in [Breaker -> Obj] /\ seen \in [Breaker -> Obj]
      /\ news \in [Breaker -> {"none", "quiet", "event"}] /\ rec \in [Breaker -> Rec]
  BY Zenon, InvParts DEF RecsOK
<1>2. ASSUME UNCHANGED <<objects, rec>> PROVE FinalizerInv'
  BY Zenon, <1>2 DEF objects, FinalizerInv, Protected
<1>3. ASSUME NEW b \in Breaker, Watch(b) PROVE FinalizerInv'
  <2>1. /\ obj' = obj /\ rec' = rec /\ seen'[b] = obj[b]
        /\ \A c \in Breaker \ {b} : seen'[c] = seen[c] /\ news'[c] = news[c]
    BY Zenon, <1>1, <1>3 DEF Watch
  <2>2. Protected(obj[b], seen[b], news[b], rec[b])
    BY Zenon DEF FinalizerInv
  <2>3. Protected(obj'[b], seen'[b], news'[b], rec'[b])
    BY Zenon, <2>1, <2>2 DEF Protected
  <2> QED
    BY Zenon, <2>1, <2>3, OneMoves
<1>4. ASSUME NEW b \in Breaker, Requeue(b) PROVE FinalizerInv'
  BY Zenon, <1>2, <1>4 DEF Requeue
<1>5. ASSUME NEW b \in Breaker, \/ \E s \in BreakerSpec : CreateOrEdit(b, s)
                                \/ ToggleDisabled(b) \/ DeleteObject(b)
      PROVE  FinalizerInv'
  <2>1. PICK o \in Obj, kind \in EnvKind :
           /\ UserWrites(kind, b, o)
           /\ obj[b].finalizer => o.finalizer
           /\ obj[b].finalizer /\ Exists(obj[b]) => Exists(o)
    BY Zenon, <1>5, UsersWrite
  <2>2. /\ obj'[b] = o /\ seen' = seen /\ news'[b] # "none"
        /\ \A c \in Breaker \ {b} : obj'[c] = obj[c] /\ news'[c] = news[c]
    BY Zenon, <1>1, <2>1 DEF UserWrites, Write
  <2>3. /\ rec'[b].pc = rec[b].pc /\ (rec[b].pc # "idle" => ~rec'[b].fresh)
        /\ \A c \in Breaker \ {b} : rec'[c] = rec[c]
    BY Zenon, <1>1, <2>1 DEF UserWrites, Rec
  <2>4. Protected(obj[b], seen[b], news[b], rec[b])
    BY Zenon DEF FinalizerInv
  <2>5. Protected(obj'[b], seen'[b], news'[b], rec'[b])
    BY Zenon, <2>1, <2>2, <2>3, <2>4 DEF Protected
  <2> QED
    BY Zenon, <2>2, <2>3, <2>5, OneMoves
<1>6. CASE RestartManager
  <2>1. IdleRec.pc = "idle"
    BY Zenon DEF IdleRec
  <2>2. ASSUME NEW b \in Breaker PROVE seen'[b] = obj'[b] /\ rec'[b].pc = "idle"
    BY Zenon, <1>6, <2>1 DEF RestartManager
  <2> QED
    BY Zenon, <2>2 DEF FinalizerInv, Protected
<1>7. ASSUME NEW p \in Pod, \/ \E l \in Label : Relabel(p, l)
                            \/ Flap(p) \/ RestartProxy(p) \/ BecomeReady(p) \/ RemovePod(p) \/ RecreatePod(p)
      PROVE  FinalizerInv'
  BY Zenon, <1>2, <1>7, PodsTyped
<1> QED
  BY Zenon, <1>3, <1>4, <1>5, <1>6, <1>7 DEF Environment

(* FinalizerInv is inductive.                                              *)
LEMMA FinalizerInvNext == Inv /\ FinalizerInv /\ [Next]_vars => FinalizerInv'
<1> SUFFICES ASSUME Inv, FinalizerInv, [Next]_vars PROVE FinalizerInv'
  BY Zenon
<1>1. CASE UNCHANGED vars
  BY Zenon, <1>1 DEF vars, FinalizerInv, Protected
<1>2. CASE Next
  BY Zenon, <1>2, ReconcileProtected, OthersProtected DEF Next
<1> QED
  BY Zenon, <1>1, <1>2

(* Whatever users, pods, failures and restarts do, the controller pushes   *)
(* the configuration of an object only while the object exists and has     *)
(* ProtectFinalizer; the state keeps its type.                             *)
THEOREM FinalizerCorrect == Spec => [](TypeOK /\ FinalizerProtects)
<1>1. Init => FinalizerInv
  <2> SUFFICES ASSUME Init PROVE FinalizerInv
    BY Zenon
  <2>1. \A b \in Breaker : seen[b] = obj[b] /\ rec[b].pc = "idle"
    BY Zenon DEF Init, IdleRec
  <2> QED
    BY Zenon, <2>1 DEF FinalizerInv, Protected
<1>2. Inv => TypeOK
  BY Zenon DEF Inv
<1>3. FinalizerInv => FinalizerProtects
  BY Zenon DEF FinalizerInv, Protected, FinalizerProtects
<1> QED
  BY <1>1, <1>2, <1>3, InvInit, InvNext, FinalizerInvNext, PTL DEF Spec
=============================================================================
