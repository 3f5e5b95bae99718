------------------------ MODULE ShardSeparationProofs ------------------------
(***************************************************************************)
(* What keeps the shards of a manager apart, for any number of them: each  *)
(* object and Pod belongs to one child of a root ShardingConfig            *)
(* (AutoSharding), and each shard has a lock and a leader of its own       *)
(* (LeaderElection).                                                       *)
(*                                                                         *)
(* The children that exist never share an object or a Pod, unless a pass   *)
(* acted on an outdated list of children and no later one has made up for  *)
(* it.  The children of one root spec are disjoint (PodsApart,             *)
(* ObjectsApart), and all are of one spec (OneGeneration).  The latter is  *)
(* not inductive: it holds because a pass that worked from an up-to-date   *)
(* list has deleted, or has still to delete, every child of another spec   *)
(* before it creates the first one (PassInv).                              *)
(*                                                                         *)
(* OwnLeader is not inductive either: an elector between its get and its   *)
(* update must still find its lock held by itself or by nobody who leads   *)
(* (ElectionInv).                                                          *)
(***************************************************************************)
EXTENDS AutoSharding, LeaderElection, FiniteSetTheorems, TLAPS

(* What the API types of a root say: numbers, any of which a user may      *)
(* leave out in the canary section.                                        *)
RootsTyped ==
    /\ All \in Nat
    /\ Nil \notin RootSpecs
    /\ \A s \in RootSpecs :
          /\ s.auto # Nil => s.auto.shardingSize \in Int /\ s.auto.everyShardReplicas \in Int
          /\ s.canary # Nil => s.canary.replicas \in Int \cup {Nil}
    /\ Nil \notin Int

-----------------------------------------------------------------------------
(* The children of one spec.                                               *)

(* A child that exists: of a spec that does not make getChild panic, and   *)
(* admitted by the webhook.                                                *)
Child(s, n) ==
    /\ s \in RootSpecs /\ s.auto # Nil /\ s.canary # Nil
    /\ n \in Children(s)
    /\ genNameInRange(s, n) # {}

(* Multiples of a number keep their order.                                 *)
LEMMA TimesOrder ==
    ASSUME NEW b \in Nat, NEW m \in Int, NEW n \in Int, m <= n
    PROVE  b * m <= b * n
<1>1. PICK d \in Nat : n = m + d
  <2>1. n - m \in Nat /\ n = m + (n - m)
    OBVIOUS
  <2> QED
    BY Zenon, <2>1
<1>2. b * d \in Nat /\ b * m \in Int
  OBVIOUS
<1>3. b * (m + d) = b * m + b * d
  OBVIOUS
<1> QED
  BY <1>1, <1>2, <1>3

(* Consecutive intervals of one length do not meet.                        *)
LEMMA IntervalsApart ==
    ASSUME NEW a \in Int, NEW b \in Int, NEW m \in Int, NEW n \in Int, m # n, NEW x \in Int,
           a + b * (m - 1) <= x, x <= a + b * m - 1, a + b * (n - 1) <= x, x <= a + b * n - 1
    PROVE  FALSE
<1>0. b * m \in Int /\ b * n \in Int /\ b * (m - 1) \in Int /\ b * (n - 1) \in Int
  OBVIOUS
<1>1. b * (m - 1) = b * m - b
  OBVIOUS
<1>2. b \in Nat
  BY <1>0, <1>1
<1>3. CASE m < n
  <2>1. b * m <= b * (n - 1)
    BY <1>2, <1>3, TimesOrder
  <2> QED
    BY <1>0, <2>1
<1>4. CASE n < m
  <2>1. b * n <= b * (m - 1)
    BY <1>2, <1>4, TimesOrder
  <2> QED
    BY <1>0, <2>1
<1> QED
  BY <1>3, <1>4

(* What the types of a child's spec are.                                   *)
LEMMA ChildFacts ==
    ASSUME RootsTyped, NEW s, NEW n, Child(s, n)
    PROVE  /\ s.auto.shardingSize \in Int /\ s.auto.everyShardReplicas \in Int
           /\ CanaryReplicas(s) \in Int
           /\ n = 0 => HasCanary(s) /\ CanaryReplicas(s) > 0
           /\ n # 0 => n \in Nat /\ n >= 1 /\ n <= s.auto.shardingSize
<1>1. /\ s.auto.shardingSize \in Int /\ s.auto.everyShardReplicas \in Int
      /\ s.canary.replicas \in Int \cup {Nil}
  BY Zenon DEF RootsTyped, Child
<1>2. CanaryReplicas(s) \in Int
  BY <1>1 DEF CanaryReplicas, HasCanary
<1>3. ASSUME n = 0 PROVE HasCanary(s) /\ CanaryReplicas(s) > 0
  <2>1. 0 .. CanaryReplicas(s) - 1 # {}
    BY Zenon, <1>3 DEF Child, genNameInRange
  <2>2. CanaryReplicas(s) > 0
    BY <1>2, <2>1
  <2>3. HasCanary(s)
    BY <1>1, <1>3 DEF Child, Children
  <2> QED
    BY Zenon, <2>2, <2>3
<1>4. ASSUME n # 0 PROVE n \in Nat /\ n >= 1 /\ n <= s.auto.shardingSize
  BY <1>1, <1>4 DEF Child, Children
<1> QED
  BY Zenon, <1>1, <1>2, <1>3, <1>4

(* The Pods of a StatefulSet are shared out: no ordinal is in two shards.  *)
LEMMA PodsApart ==
    ASSUME RootsTyped, NEW s, NEW m, NEW n, m # n, Child(s, m), Child(s, n)
    PROVE  genNameInRange(s, m) \cap genNameInRange(s, n) = {}
<1>0. SUFFICES ASSUME NEW x \in genNameInRange(s, m), x \in genNameInRange(s, n) PROVE FALSE
  BY Zenon
<1> DEFINE cr == CanaryReplicas(s)
           e == s.auto.everyShardReplicas
<1>1. cr \in Int /\ e \in Int
  BY Zenon, ChildFacts
<1> HIDE DEF cr, e
<1>2. ASSUME NEW i, Child(s, i), x \in genNameInRange(s, i)
      PROVE  /\ x \in Int
             /\ i = 0 => x <= cr - 1
             /\ i # 0 => i \in Nat /\ i >= 1 /\ cr + e * (i - 1) <= x /\ x <= cr + e * i - 1
  <2>1. CASE i = 0
    BY <1>1, <1>2, <2>1 DEF genNameInRange, cr
  <2>2. CASE i # 0
    <3>1. i \in Nat /\ i >= 1
      BY Zenon, <1>2, <2>2, ChildFacts
    <3>2. e * (i - 1) \in Int /\ e * i \in Int
      BY <1>1, <3>1
    <3>3. x \in cr + e * (i - 1) .. cr + e * i - 1
      BY Zenon, <1>2, <2>2 DEF genNameInRange, cr, e
    <3> QED
      BY <1>1, <2>2, <3>1, <3>2, <3>3
  <2> QED
    BY Zenon, <2>1, <2>2
<1>3. /\ x \in Int
      /\ m = 0 => x <= cr - 1
      /\ m # 0 => m \in Nat /\ m >= 1 /\ cr + e * (m - 1) <= x /\ x <= cr + e * m - 1
  BY Zenon, <1>0, <1>2
<1>4. /\ n = 0 => x <= cr - 1
      /\ n # 0 => n \in Nat /\ n >= 1 /\ cr + e * (n - 1) <= x /\ x <= cr + e * n - 1
  BY Zenon, <1>0, <1>2
<1>5. ASSUME NEW i \in Nat, i >= 1, x <= cr - 1, cr + e * (i - 1) <= x, x <= cr + e * i - 1
      PROVE  FALSE
  <2>1. e * i \in Int /\ e * (i - 1) \in Int /\ e * (i - 1) = e * i - e
    BY <1>1
  <2>2. e \in Nat
    BY <1>1, <1>3, <1>5, <2>1
  <2>3. e * (i - 1) \in Nat
    <3>1. i - 1 \in Nat
      BY <1>5
    <3> QED
      BY <2>2, <3>1
  <2> QED
    BY <1>1, <1>3, <1>5, <2>3
<1>6. CASE m # 0 /\ n # 0
  <2>1. /\ m \in Int /\ n \in Int /\ x \in Int
        /\ cr + e * (m - 1) <= x /\ x <= cr + e * m - 1
        /\ cr + e * (n - 1) <= x /\ x <= cr + e * n - 1
    BY <1>3, <1>4, <1>6
  <2> QED
    BY Zenon, <1>1, <2>1, IntervalsApart
<1>7. CASE m = 0 /\ n # 0
  BY Zenon, <1>3, <1>4, <1>5, <1>7
<1>8. CASE m # 0 /\ n = 0
  BY Zenon, <1>3, <1>4, <1>5, <1>8
<1> QED
  BY Zenon, <1>6, <1>7, <1>8

(* The objects are shared out: none belongs to two shards.                 *)
LEMMA ObjectsApart ==
    ASSUME RootsTyped, NEW s, NEW m, NEW n, m # n, Child(s, m), Child(s, n),
           NEW ns, NEW hash \in 0 .. All - 1, Owns(s, m, ns, hash), Owns(s, n, ns, hash)
    PROVE  FALSE
<1>1. ASSUME NEW i, Child(s, i), i # 0, Child(s, 0), Owns(s, i, ns, hash), Owns(s, 0, ns, hash)
      PROVE  FALSE
  <2>1. HasCanary(s) /\ CanaryReplicas(s) > 0
    BY Zenon, <1>1, ChildFacts
  <2>2. ns \notin s.canary.inNamespaces /\ hash \notin s.canary.inShardHash
    BY Zenon, <1>1, <2>1 DEF Owns, genShardingGlobalLimits
  <2>3. /\ s.canary.inNamespaces # {} => ns \in s.canary.inNamespaces
        /\ s.canary.inShardHash # {} => hash \in s.canary.inShardHash
    BY Zenon, <1>1 DEF Owns, genCanaryLimits
  <2> QED
    BY Zenon, <2>1, <2>2, <2>3 DEF HasCanary
<1>2. ASSUME m # 0, n # 0 PROVE FALSE
  <2> DEFINE size == s.auto.shardingSize
             batch == (All + size - 1) \div size
  <2>1. size \in Int /\ m \in Nat /\ n \in Nat /\ m >= 1 /\ m <= size
    BY Zenon, <1>2, ChildFacts
  <2>2. batch \in Int
    BY <2>1 DEF RootsTyped
  <2>3. hash \in getRange(m, size) /\ hash \in getRange(n, size)
    BY Zenon, <1>2 DEF Owns, genShardingGlobalLimits, clearSame
  <2>4. /\ batch * (m - 1) <= hash /\ hash <= batch * m - 1
        /\ batch * (n - 1) <= hash /\ hash <= batch * n - 1
    BY Zenon, <2>3 DEF getRange
  <2> HIDE DEF batch
  <2>5. batch * (m - 1) \in Int /\ batch * m \in Int /\ batch * (n - 1) \in Int /\ batch * n \in Int
    BY <2>1, <2>2
  <2>6. /\ 0 + batch * (m - 1) <= hash /\ hash <= 0 + batch * m - 1
        /\ 0 + batch * (n - 1) <= hash /\ hash <= 0 + batch * n - 1
    BY <2>4, <2>5
  <2> QED
    BY <2>1, <2>2, <2>6, IntervalsApart
<1> QED
  BY Zenon, <1>1, <1>2

-----------------------------------------------------------------------------
(* The passes of the worker.                                               *)
RootType == [spec : RootSpecs \cup {Nil}, deleting : BOOLEAN, finalizer : BOOLEAN, child : SUBSET Names]
PassType == [pc : {"idle", "finalizer", "delete", "create", "clear"}, root : RootType,
             delete : SUBSET Names, create : SUBSET Names, conflict : BOOLEAN, outdated : BOOLEAN]

ShardingType ==
    /\ root \in RootType /\ rootSeen \in RootType /\ pass \in PassType
    /\ kids \in [Names -> RootSpecs \cup {Nil}] /\ kidsSeen \in [Names -> RootSpecs \cup {Nil}]
    /\ latest \in BOOLEAN /\ blind \in BOOLEAN

KidsInv == \A n \in Names : kids[n] # Nil => Child(kids[n], n)

OneGeneration ==
    ~ blind => \A m, n \in Names : kids[m] # Nil /\ kids[n] # Nil => kids[m] = kids[n]

(* What a pass that is under way has in hand.  One that worked from an     *)
(* up-to-date list has on its list every child it is to delete that still  *)
(* exists; nobody but the worker creates or deletes children.              *)
Splitting == pass.pc \in {"finalizer", "delete", "create"}

PassInv ==
    /\ pass.pc # "idle" => pass.root.spec # Nil
    /\ pass.pc # "idle" /\ pass.outdated => blind
    /\ Splitting => pass.create \subseteq Children(pass.root.spec)
    /\ pass.pc = "create" => pass.delete = {} /\ ~ Panics(pass.root.spec)
    /\ Splitting /\ ~ pass.outdated =>
          \A n \in Names : kids[n] \in {Nil, pass.root.spec} \/ n \in pass.delete
    /\ pass.pc = "clear" /\ ~ pass.outdated => \A n \in Names : kids[n] = Nil \/ n \in pass.delete

ShardingInv == ShardingType /\ KidsInv /\ OneGeneration /\ PassInv

(* The names of a spec's children are names.                               *)
LEMMA ChildrenNames == \A s \in RootSpecs : Children(s) \subseteq Names
  BY Zenon DEF Names

(* At start there is no root and no child.                                 *)
LEMMA ShardingInvInit == ShardingInit => ShardingInv
<1> SUFFICES ASSUME ShardingInit PROVE ShardingInv
  BY Zenon
<1>1. /\ kids = [n \in Names |-> Nil] /\ kidsSeen = kids /\ root = NoRoot /\ rootSeen = NoRoot
      /\ pass = Resting /\ latest = TRUE /\ blind = FALSE
  BY Zenon DEF ShardingInit
<1>2. NoRoot \in RootType
  BY Zenon DEF NoRoot, RootType
<1>3. Resting \in PassType /\ Resting.pc = "idle"
  BY Zenon, <1>2 DEF Resting, PassType
<1>4. ShardingType
  BY Zenon, <1>1, <1>2, <1>3 DEF ShardingType
<1>5. KidsInv /\ OneGeneration /\ PassInv
  BY Zenon, <1>1, <1>3 DEF KidsInv, OneGeneration, PassInv, Splitting
<1> QED
  BY Zenon, <1>4, <1>5 DEF ShardingInv

(* A step that leaves the children alone and ends the pass, or keeps what  *)
(* it has in hand.                                                         *)
LEMMA PassKept ==
    ASSUME ShardingInv, UNCHANGED <<kids, blind>>, ShardingType',
           \/ pass'.pc = "idle"
           \/ /\ pass'.pc = pass.pc \/ (pass.pc = "finalizer" /\ pass'.pc = "delete")
              /\ pass'.root.spec = pass.root.spec /\ pass'.outdated = pass.outdated
              /\ pass'.delete = pass.delete /\ pass'.create = pass.create
    PROVE  ShardingInv'
<1>1. KidsInv' /\ OneGeneration'
  BY Zenon DEF ShardingInv, KidsInv, OneGeneration
<1>2. PassInv'
  BY Zenon DEF ShardingInv, PassInv, Splitting
<1> QED
  BY Zenon, <1>1, <1>2 DEF ShardingInv

(* The steps of users and informers, of a call that fails, and of a pass   *)
(* that writes the root.                                                   *)
LEMMA RootSteps ==
    ASSUME ShardingInv,
           \/ \E s \in RootSpecs : EditRoot(s)
           \/ DeleteRoot \/ WatchRoot \/ WatchChildren \/ CallFails
           \/ addFinalizers \/ syncStatus \/ clearStatus
    PROVE  ShardingInv'
<1> USE DEF ShardingInv, ShardingType
<1>0. NoRoot \in RootType /\ Resting \in PassType /\ Resting.pc = "idle"
  <2>1. NoRoot \in RootType
    BY Zenon DEF NoRoot, RootType
  <2> QED
    BY Zenon, <2>1 DEF Resting, PassType
<1> HIDE DEF ShardingInv
<1>1. UNCHANGED <<kids, blind>>
  BY Zenon DEF EditRoot, DeleteRoot, WatchRoot, WatchChildren, CallFails, addFinalizers, syncStatus, clearStatus
<1>2. kidsSeen' \in [Names -> RootSpecs \cup {Nil}] /\ rootSeen' \in RootType /\ latest' \in BOOLEAN
  BY Zenon DEF ShardingInv, EditRoot, DeleteRoot, WatchRoot, WatchChildren, CallFails, addFinalizers, syncStatus, clearStatus,
         UserWrites, WriteRoot
<1>3. root' \in RootType
  <2>0. root \in RootType
    BY Zenon DEF ShardingInv
  <2>1. CASE \E s \in RootSpecs : EditRoot(s)
    BY Zenon, <2>0, <2>1 DEF EditRoot, UserWrites, WriteRoot, RootType
  <2>2. CASE DeleteRoot
    BY Zenon, <1>0, <2>0, <2>2 DEF DeleteRoot, UserWrites, WriteRoot, RootType
  <2>3. CASE WatchRoot \/ WatchChildren \/ CallFails
    BY Zenon, <2>0, <2>3 DEF WatchRoot, WatchChildren, CallFails
  <2>4. CASE addFinalizers
    BY Zenon, <2>0, <2>4 DEF addFinalizers, WriteRoot, RootType
  <2>5. CASE syncStatus
    <3>1. pass.pc = "create" /\ pass.root.spec \in RootSpecs
      BY Zenon, <2>5 DEF syncStatus, ShardingInv, PassInv, PassType, RootType
    <3>2. Children(pass.root.spec) \subseteq Names
      BY Zenon, <3>1, ChildrenNames
    <3> QED
      BY Zenon, <2>0, <2>5, <3>2 DEF syncStatus, WriteRoot, RootType
  <2>6. CASE clearStatus
    BY Zenon, <2>0, <2>6 DEF clearStatus, WriteRoot, RootType
  <2> QED
    BY Zenon, <2>1, <2>2, <2>3, <2>4, <2>5, <2>6
<1>4. /\ pass' \in PassType
      /\ \/ pass'.pc = "idle"
         \/ /\ pass'.pc = pass.pc \/ (pass.pc = "finalizer" /\ pass'.pc = "delete")
            /\ pass'.root.spec = pass.root.spec /\ pass'.outdated = pass.outdated
            /\ pass'.delete = pass.delete /\ pass'.create = pass.create
  <2>0. pass \in PassType /\ pass.root \in RootType
    BY Zenon DEF ShardingInv, PassType
  <2>1. CASE pass' = Resting
    BY Zenon, <1>0, <2>1
  <2>2. CASE pass' = pass
    BY Zenon, <2>0, <2>2
  <2>3. CASE pass' = [pass EXCEPT !.conflict = TRUE]
    BY Zenon, <2>0, <2>3 DEF PassType
  <2>4. CASE pass.pc = "finalizer" /\ pass' = [pass EXCEPT !.pc = "delete", !.root.finalizer = TRUE]
    <3>1. [pass.root EXCEPT !.finalizer = TRUE] \in RootType /\ [pass.root EXCEPT !.finalizer = TRUE].spec = pass.root.spec
      BY Zenon, <2>0 DEF RootType
    <3>2. pass' = [pass EXCEPT !.pc = "delete", !.root = [pass.root EXCEPT !.finalizer = TRUE]]
      BY Zenon, <2>0, <2>4 DEF PassType
    <3> QED
      BY Zenon, <2>0, <2>4, <3>1, <3>2 DEF PassType
  <2>5. CASE pass' = [pass EXCEPT !.root.child = {}]
    <3>1. [pass.root EXCEPT !.child = {}] \in RootType /\ [pass.root EXCEPT !.child = {}].spec = pass.root.spec
      BY Zenon, <2>0 DEF RootType
    <3>2. pass' = [pass EXCEPT !.root = [pass.root EXCEPT !.child = {}]]
      BY Zenon, <2>0, <2>5 DEF PassType
    <3> QED
      BY Zenon, <2>0, <3>1, <3>2 DEF PassType
  <2>6. \/ pass' = Resting \/ pass' = pass \/ pass' = [pass EXCEPT !.conflict = TRUE]
        \/ pass.pc = "finalizer" /\ pass' = [pass EXCEPT !.pc = "delete", !.root.finalizer = TRUE]
        \/ pass' = [pass EXCEPT !.root.child = {}]
    BY Zenon DEF EditRoot, DeleteRoot, WatchRoot, WatchChildren, CallFails, addFinalizers, syncStatus, clearStatus,
           UserWrites, Retry
  <2> QED
    BY Zenon, <2>1, <2>2, <2>3, <2>4, <2>5, <2>6
<1>5. ShardingType'
  BY Zenon, <1>1, <1>2, <1>3, <1>4 DEF ShardingInv
<1> HIDE DEF ShardingType
<1> QED
  BY Zenon, <1>1, <1>4, <1>5, PassKept

(* A child the webhook admits selects a Pod.                               *)
LEMMA AdmittedSelects ==
    ASSUME NEW s, NEW n, Admits(ChildObject(s, n), Nil)
    PROVE  genNameInRange(s, n) # {}
  BY Zenon DEF Admits, ChildObject, validate

(* A pass begins.                                                          *)
LEMMA BeginStep == ASSUME RootsTyped, ShardingInv, BeginPass PROVE ShardingInv'
<1> DEFINE r == rootSeen
           outdated == kidsSeen # kids
           at(pc, delete, create) == [pc |-> pc, root |-> r, delete |-> delete, create |-> create,
                                      conflict |-> ~ latest, outdated |-> outdated]
<1>1. /\ pass' = IF r.spec = Nil THEN Resting
                 ELSE IF Off(r) THEN at("clear", {n \in Names : kidsSeen[n] # Nil}, {})
                 ELSE at(IF r.finalizer THEN "delete" ELSE "finalizer", OutdatedChildren(r.spec),
                         {n \in Children(r.spec) : kidsSeen[n] # r.spec})
      /\ blind' = (blind \/ (r.spec # Nil /\ outdated))
      /\ UNCHANGED <<root, rootSeen, latest, kids, kidsSeen>>
  BY Zenon DEF BeginPass
<1>2. ShardingType /\ KidsInv /\ OneGeneration
  BY Zenon DEF ShardingInv
<1>3. KidsInv' /\ OneGeneration'
  BY Zenon, <1>1, <1>2 DEF KidsInv, OneGeneration
<1>4. blind' \in BOOLEAN
  BY Zenon, <1>1, <1>2 DEF ShardingType
<1>5. CASE r.spec = Nil
  <2>1. pass' = Resting
    BY Zenon, <1>1, <1>5
  <2>2. Resting \in PassType /\ Resting.pc = "idle"
    BY Zenon DEF Resting, PassType, NoRoot, RootType
  <2>3. ShardingType'
    BY Zenon, <1>1, <1>2, <1>4, <2>1, <2>2 DEF ShardingType
  <2>4. PassInv'
    BY Zenon, <2>1, <2>2 DEF PassInv, Splitting
  <2> QED
    BY Zenon, <1>3, <2>3, <2>4 DEF ShardingInv
<1>6. CASE r.spec # Nil /\ Off(r)
  <2>1. PICK gone \in SUBSET Names : gone = {n \in Names : kidsSeen[n] # Nil}
    BY Zenon
  <2>2. pass' = at("clear", gone, {})
    BY Zenon, <1>1, <1>6, <2>1
  <2>3. /\ pass' \in PassType /\ pass'.pc = "clear" /\ pass'.root.spec = r.spec
        /\ pass'.delete = gone /\ pass'.outdated = outdated
    BY Zenon, <1>2, <2>2 DEF ShardingType, PassType
  <2>4. ShardingType'
    BY Zenon, <1>1, <1>2, <1>4, <2>3 DEF ShardingType
  <2>5. ~ outdated => \A n \in Names : kids'[n] = Nil \/ n \in gone
    BY Zenon, <1>1, <2>1
  <2>6. PassInv'
    BY Zenon, <1>1, <1>6, <2>3, <2>5 DEF PassInv, Splitting
  <2> QED
    BY Zenon, <1>3, <2>4, <2>6 DEF ShardingInv
<1>7. CASE r.spec # Nil /\ ~ Off(r)
  <2>0. r.spec \in RootSpecs
    BY Zenon, <1>2, <1>7 DEF ShardingType, RootType
  <2>1. PICK gone \in SUBSET Names : gone = OutdatedChildren(r.spec)
    BY Zenon DEF OutdatedChildren
  <2>2. PICK new \in SUBSET Children(r.spec) : new = {n \in Children(r.spec) : kidsSeen[n] # r.spec}
    BY Zenon
  <2>3. PICK pc \in {"delete", "finalizer"} : pc = IF r.finalizer THEN "delete" ELSE "finalizer"
    BY Zenon
  <2>4. pass' = at(pc, gone, new)
    BY Zenon, <1>1, <1>7, <2>1, <2>2, <2>3
  <2>5. new \in SUBSET Names
    BY Zenon, <2>0, <2>2, ChildrenNames
  <2>6. /\ pass' \in PassType /\ pass'.pc = pc /\ pass'.root.spec = r.spec
        /\ pass'.delete = gone /\ pass'.create = new /\ pass'.outdated = outdated
    BY Zenon, <1>2, <2>3, <2>4, <2>5 DEF ShardingType, PassType
  <2>7. ShardingType'
    BY Zenon, <1>1, <1>2, <1>4, <2>6 DEF ShardingType
  <2>8. ~ outdated => \A n \in Names : kids'[n] \in {Nil, r.spec} \/ n \in gone
    BY Zenon, <1>1, <2>1 DEF OutdatedChildren
  <2>9. PassInv'
    BY Zenon, <1>1, <1>7, <2>2, <2>3, <2>6, <2>8 DEF PassInv, Splitting
  <2> QED
    BY Zenon, <1>3, <2>7, <2>9 DEF ShardingInv
<1> QED
  BY Zenon, <1>5, <1>6, <1>7

(* A child is deleted.                                                     *)
LEMMA DeleteStep == ASSUME ShardingInv, NEW n \in Names, DeleteChild(n) PROVE ShardingInv'
<1>1. /\ pass.pc \in {"delete", "clear"} /\ n \in pass.delete
      /\ kids' = [kids EXCEPT ![n] = Nil]
      /\ UNCHANGED <<root, rootSeen, latest, kidsSeen, blind>>
  BY Zenon DEF DeleteChild
<1>2. ShardingType /\ KidsInv /\ OneGeneration /\ PassInv
  BY Zenon DEF ShardingInv
<1>3. \A m \in Names : kids'[m] = IF m = n THEN Nil ELSE kids[m]
  BY Zenon, <1>1, <1>2 DEF ShardingType
<1>4. kids' \in [Names -> RootSpecs \cup {Nil}]
  BY Zenon, <1>1, <1>2 DEF ShardingType
<1>5. KidsInv' /\ OneGeneration'
  BY ZenonT(60), <1>1, <1>2, <1>3 DEF KidsInv, OneGeneration
<1>6. CASE pass' = Resting
  <2>2. Resting \in PassType /\ Resting.pc = "idle"
    BY Zenon DEF Resting, PassType, NoRoot, RootType
  <2>3. ShardingType'
    BY Zenon, <1>1, <1>2, <1>4, <1>6, <2>2 DEF ShardingType
  <2>4. PassInv'
    BY Zenon, <1>6, <2>2 DEF PassInv, Splitting
  <2> QED
    BY Zenon, <1>5, <2>3, <2>4 DEF ShardingInv
<1>7. CASE pass' = [pass EXCEPT !.delete = @ \ {n}]
  <2>1. /\ pass' \in PassType /\ pass'.pc = pass.pc /\ pass'.root = pass.root
        /\ pass'.delete = pass.delete \ {n} /\ pass'.create = pass.create /\ pass'.outdated = pass.outdated
    BY Zenon, <1>2, <1>7 DEF ShardingType, PassType
  <2>2. ShardingType'
    BY Zenon, <1>1, <1>2, <1>4, <2>1 DEF ShardingType
  <2>3. PassInv'
    BY Zenon, <1>1, <1>2, <1>3, <2>1 DEF PassInv, Splitting
  <2> QED
    BY Zenon, <1>5, <2>2, <2>3 DEF ShardingInv
<1> QED
  BY Zenon, <1>6, <1>7 DEF DeleteChild, Retry

(* The deletions are over: of those that exist, all children are of the    *)
(* spec the pass works for, if it worked from an up-to-date list.          *)
LEMMA PlanStep == ASSUME ShardingInv, PlanChildren PROVE ShardingInv'
<1>1. /\ pass.pc = "delete" /\ pass.delete = {} /\ blind' = (blind /\ pass.outdated)
      /\ UNCHANGED <<root, kids>>
  BY Zenon DEF PlanChildren
<1>2. ShardingType /\ KidsInv /\ OneGeneration /\ PassInv
  BY Zenon DEF ShardingInv
<1>3. ~ pass.outdated => \A n \in Names : kids[n] \in {Nil, pass.root.spec}
  BY Zenon, <1>1, <1>2 DEF PassInv, Splitting
<1>4. KidsInv' /\ OneGeneration'
  BY Zenon, <1>1, <1>2, <1>3 DEF KidsInv, OneGeneration
<1>5. blind' \in BOOLEAN
  BY Zenon, <1>1, <1>2 DEF ShardingType, PassType
<1>6. CASE Panics(pass.root.spec)
  <2>1. pass' = Resting /\ rootSeen' = root /\ latest' = TRUE /\ kidsSeen' = kids
    BY Zenon, <1>6 DEF PlanChildren
  <2>2. Resting \in PassType /\ Resting.pc = "idle"
    BY Zenon DEF Resting, PassType, NoRoot, RootType
  <2>3. ShardingType'
    BY Zenon, <1>1, <1>2, <1>5, <2>1, <2>2 DEF ShardingType
  <2>4. PassInv'
    BY Zenon, <2>1, <2>2 DEF PassInv, Splitting
  <2> QED
    BY Zenon, <1>4, <2>3, <2>4 DEF ShardingInv
<1>7. CASE ~ Panics(pass.root.spec)
  <2>1. pass' = [pass EXCEPT !.pc = "create"] /\ UNCHANGED <<rootSeen, latest, kidsSeen>>
    BY Zenon, <1>7 DEF PlanChildren
  <2>2. /\ pass' \in PassType /\ pass'.pc = "create" /\ pass'.root = pass.root
        /\ pass'.delete = pass.delete /\ pass'.create = pass.create /\ pass'.outdated = pass.outdated
    BY Zenon, <1>2, <2>1 DEF ShardingType, PassType
  <2>3. ShardingType'
    BY Zenon, <1>1, <1>2, <1>5, <2>1, <2>2 DEF ShardingType
  <2>4. PassInv'
    BY Zenon, <1>1, <1>2, <1>3, <1>7, <2>2 DEF PassInv, Splitting
  <2> QED
    BY Zenon, <1>4, <2>3, <2>4 DEF ShardingInv
<1> QED
  BY Zenon, <1>6, <1>7

(* A child is created: the others are of its spec.                         *)
LEMMA CreateStep == ASSUME ShardingInv, NEW n \in Names, CreateChild(n) PROVE ShardingInv'
<1>1. /\ pass.pc = "create" /\ n \in pass.create
      /\ UNCHANGED <<root, rootSeen, latest, kidsSeen, blind>>
  BY Zenon DEF CreateChild
<1>2. ShardingType /\ KidsInv /\ OneGeneration /\ PassInv
  BY Zenon DEF ShardingInv
<1>3. CASE pass' = Resting /\ UNCHANGED kids
  <2>2. Resting \in PassType /\ Resting.pc = "idle"
    BY Zenon DEF Resting, PassType, NoRoot, RootType
  <2>3. ShardingType'
    BY Zenon, <1>1, <1>2, <1>3, <2>2 DEF ShardingType
  <2> QED
    BY Zenon, <1>1, <1>3, <2>2, <2>3, PassKept
<1>4. CASE /\ Admits(ChildObject(pass.root.spec, n), Nil)
           /\ kids' = [kids EXCEPT ![n] = pass.root.spec] /\ pass' = [pass EXCEPT !.create = @ \ {n}]
  <2>1. /\ pass' \in PassType /\ pass'.pc = pass.pc /\ pass'.root = pass.root
        /\ pass'.delete = pass.delete /\ pass'.create = pass.create \ {n} /\ pass'.outdated = pass.outdated
    BY Zenon, <1>2, <1>4 DEF ShardingType, PassType
  <2>2. pass.root.spec \in RootSpecs /\ pass.root.spec # Nil
    BY Zenon, <1>1, <1>2 DEF ShardingType, PassType, RootType, PassInv
  <2>3. kids' \in [Names -> RootSpecs \cup {Nil}] /\ \A m \in Names : kids'[m] = IF m = n THEN pass.root.spec ELSE kids[m]
    BY Zenon, <1>2, <1>4, <2>2 DEF ShardingType
  <2>4. ShardingType'
    BY Zenon, <1>1, <1>2, <2>1, <2>3 DEF ShardingType
  <2>5. Child(pass.root.spec, n)
    <3>1. n \in Children(pass.root.spec) /\ ~ Panics(pass.root.spec)
      BY Zenon, <1>1, <1>2 DEF PassInv, Splitting
    <3>2. genNameInRange(pass.root.spec, n) # {}
      BY Zenon, <1>4, AdmittedSelects
    <3> QED
      BY Zenon, <2>2, <3>1, <3>2 DEF Child, Children, Panics
  <2>6. KidsInv'
    BY Zenon, <1>2, <2>3, <2>5 DEF KidsInv
  <2>7. ~ pass.outdated => \A m \in Names : kids'[m] \in {Nil, pass.root.spec}
    BY Zenon, <1>1, <1>2, <2>3 DEF PassInv, Splitting
  <2>8. OneGeneration'
    BY Zenon, <1>1, <1>2, <2>7 DEF PassInv, OneGeneration
  <2>9. PassInv'
    BY Zenon, <1>1, <1>2, <2>1, <2>2, <2>7 DEF PassInv, Splitting
  <2> QED
    BY Zenon, <2>4, <2>6, <2>8, <2>9 DEF ShardingInv
<1> QED
  BY Zenon, <1>3, <1>4 DEF CreateChild, Retry

(* The end of a pass that removes every child.                             *)
LEMMA ClearStep == ASSUME ShardingInv, clearFinalizers PROVE ShardingInv'
<1>1. /\ pass.pc = "clear" /\ pass.delete = {} /\ blind' = (blind /\ pass.outdated)
      /\ pass' = Resting /\ UNCHANGED <<rootSeen, kids, kidsSeen>>
  BY Zenon DEF clearFinalizers, Cleared, Retry
<1>2. ShardingType /\ KidsInv /\ OneGeneration /\ PassInv
  BY Zenon DEF ShardingInv
<1>3. ~ pass.outdated => \A n \in Names : kids[n] = Nil
  BY Zenon, <1>1, <1>2 DEF PassInv
<1>4. KidsInv' /\ OneGeneration'
  BY Zenon, <1>1, <1>2, <1>3 DEF KidsInv, OneGeneration
<1>5. root' \in RootType /\ latest' \in BOOLEAN
  <2>1. NoRoot \in RootType /\ [root EXCEPT !.finalizer = FALSE] \in RootType
    BY Zenon, <1>2 DEF ShardingType, NoRoot, RootType
  <2> QED
    BY Zenon, <1>2, <2>1 DEF ShardingType, clearFinalizers, WriteRoot
<1>6. blind' \in BOOLEAN
  BY Zenon, <1>1, <1>2 DEF ShardingType, PassType
<1>7. Resting \in PassType /\ Resting.pc = "idle"
  BY Zenon DEF Resting, PassType, NoRoot, RootType
<1>8. ShardingType'
  BY Zenon, <1>1, <1>2, <1>5, <1>6, <1>7 DEF ShardingType
<1>9. PassInv'
  BY Zenon, <1>1, <1>7 DEF PassInv, Splitting
<1> QED
  BY Zenon, <1>4, <1>8, <1>9 DEF ShardingInv

(* The invariant is inductive.                                             *)
LEMMA ShardingInvNext ==
    ASSUME RootsTyped, ShardingInv, [ShardingNext]_shardingVars
    PROVE  ShardingInv'
<1>1. CASE UNCHANGED shardingVars
  BY Zenon, <1>1 DEF shardingVars, ShardingInv, ShardingType, KidsInv, OneGeneration, PassInv, Splitting
<1>2. CASE Worker
  BY Zenon, <1>2, BeginStep, DeleteStep, PlanStep, CreateStep, ClearStep, RootSteps DEF Worker
<1>3. CASE CallFails \/ WatchRoot \/ WatchChildren \/ DeleteRoot
  BY Zenon, <1>3, RootSteps
<1>4. CASE \E s \in RootSpecs : EditRoot(s)
  BY Zenon, <1>4, RootSteps
<1> QED
  BY Zenon, <1>1, <1>2, <1>3, <1>4 DEF ShardingNext

(* A set with no two members has at most one.                              *)
LEMMA AtMostOne ==
    ASSUME NEW S, \A x, y \in S : x = y
    PROVE  Cardinality(S) <= 1
<1>1. CASE S = {}
  BY <1>1, FS_EmptySet
<1>2. CASE S # {}
  <2>1. PICK x : S = {x}
    BY <1>2
  <2> QED
    BY <2>1, FS_Singleton
<1> QED
  BY Zenon, <1>1, <1>2

(* Children of one generation that are disjoint have no object and no Pod  *)
(* in common.                                                              *)
LEMMA InvDisjoint == ASSUME RootsTyped, ShardingInv PROVE ShardsDisjoint
<1> SUFFICES ASSUME ~ blind
             PROVE  /\ \A ns \in Namespaces, hash \in 0 .. All - 1 : Cardinality(Owners(ns, hash)) <= 1
                    /\ \A m, n \in Names : m # n /\ kids[m] # Nil /\ kids[n] # Nil =>
                           genNameInRange(kids[m], m) \cap genNameInRange(kids[n], n) = {}
  BY Zenon DEF ShardsDisjoint
<1>1. ASSUME NEW m \in Names, NEW n \in Names, kids[m] # Nil, kids[n] # Nil
      PROVE  kids[m] = kids[n] /\ Child(kids[m], m) /\ Child(kids[m], n)
  BY Zenon, <1>1 DEF ShardingInv, OneGeneration, KidsInv
<1>2. ASSUME NEW ns \in Namespaces, NEW hash \in 0 .. All - 1
      PROVE  Cardinality(Owners(ns, hash)) <= 1
  <2>1. ASSUME NEW m \in Owners(ns, hash), NEW n \in Owners(ns, hash), m # n PROVE FALSE
    <3>1. /\ m \in Names /\ n \in Names /\ kids[m] # Nil /\ kids[n] # Nil
          /\ Owns(kids[m], m, ns, hash) /\ Owns(kids[n], n, ns, hash)
      BY Zenon DEF Owners
    <3> QED
      BY Zenon, <1>1, <2>1, <3>1, ObjectsApart
  <2> QED
    BY Zenon, <2>1, AtMostOne
<1>3. ASSUME NEW m \in Names, NEW n \in Names, m # n, kids[m] # Nil, kids[n] # Nil
      PROVE  genNameInRange(kids[m], m) \cap genNameInRange(kids[n], n) = {}
  BY Zenon, <1>1, <1>3, PodsApart
<1> QED
  BY Zenon, <1>2, <1>3

(* AutoSharding never lets two children share an object or a Pod, unless a *)
(* pass acted on an outdated list and none has made up for it yet, for any *)
(* root specs: getChild's ranges and exclusions are disjoint, and the      *)
(* deletions of a pass come before its creations.                          *)
THEOREM DisjointCorrect == ASSUME RootsTyped PROVE ShardingSpec => []ShardsDisjoint
<1>1. ShardingInit => ShardingInv
  BY Zenon, ShardingInvInit
<1>2. ShardingInv /\ [ShardingNext]_shardingVars => ShardingInv'
  BY Zenon, ShardingInvNext
<1>3. ShardingInv => ShardsDisjoint
  BY Zenon, InvDisjoint
<1> QED
  BY <1>1, <1>2, <1>3, PTL DEF ShardingSpec

-----------------------------------------------------------------------------
(* The leaders of the shards.                                              *)

(* The name under which the managers of a shard compete.                   *)
Lock(s) == setSubsetIntoName(LockName, s)

(* The locks of two shards are two objects, and each is one of LockNames.  *)
LEMMA LocksApart ==
    ASSUME NEW s, NEW t, Lock(s) = Lock(t)
    PROVE  s = t
<1>1. <<>> \in Seq({s, t})
  OBVIOUS
<1>2. Append(<<>>, s) = <<s>> /\ Append(<<>>, t) = <<t>>
  BY <1>1
<1>3. <<s>> # <<>> /\ <<t>> # <<>> /\ (<<s>> = <<t>> => s = t)
  OBVIOUS
<1> QED
  BY Zenon, <1>2, <1>3 DEF Lock, setSubsetIntoName, LockName

LEMMA LockIsName ==
    ASSUME NEW s \in Shards
    PROVE  Lock(s) \in LockNames /\ (Lock(s) = LockName => s = "")
<1>1. <<>> \in Seq({s})
  OBVIOUS
<1>2. Append(<<>>, s) = <<s>> /\ <<s>> # <<>>
  BY <1>1
<1> QED
  BY Zenon, <1>2 DEF Lock, setSubsetIntoName, LockName, LockNames

(* The name the API server gets: of the shard for a get and a create, and  *)
(* that of the request, which is of an object once got, for an update.     *)
LEMMA AnswerGet ==
    ASSUME NEW e \in Elector
    PROVE  Answer(e, LockRequest(e, "get", LockName, Absent)).name = Lock(ShardOf[e])
<1>1. ResourceLock[e] \in LockKinds
  BY Zenon, ElectorAssumption
<1> QED
  BY <1>1 DEF Answer, LockRequest, Handle, Concerned, Take, Lock

LEMMA AnswerCreate ==
    ASSUME NEW e \in Elector
    PROVE  Answer(e, LockRequest(e, "create", LockName, e)).name = Lock(ShardOf[e])
<1>1. ResourceLock[e] \in LockKinds /\ e # Absent /\ e # Unreadable
  BY Zenon, ElectorAssumption
<1> DEFINE r == LockRequest(e, "create", LockName, e)
<1>2. r.verb = "create" /\ Concerned(r) /\ DecodeFrom(r) /\ r.body.name = LockName /\ r.body.holder = e
  BY <1>1 DEF LockRequest, Concerned, DecodeFrom, getSerializer
<1> HIDE DEF r
<1>3. Adapter(r).name = LockName /\ GetHoldIdentity(r) = e
  BY <1>1, <1>2 DEF Adapter, GetHoldIdentity, leaseAdapter, objectAdapter
<1>4. Handle(r, ShardOf[e]) = Take(Lock(ShardOf[e]), e)
  BY <1>1, <1>2, <1>3 DEF Handle, Lock
<1> QED
  BY <1>4 DEF r, Answer, Take

LEMMA AnswerUpdate ==
    ASSUME NEW e, NEW n, NEW holder
    PROVE  Answer(e, LockRequest(e, "update", n, holder)).name = n
<1> DEFINE r == LockRequest(e, "update", n, holder)
<1>1. r.verb = "update" /\ r.name = n
  BY DEF LockRequest
<1> HIDE DEF r
<1>2. /\ Pass(r).name = n /\ Refuse(r).name = n
      /\ \A h : Take(n, h).name = n
  BY <1>1 DEF Pass, Refuse, Take
<1>3. \/ Handle(r, ShardOf[e]) = Pass(r)
      \/ Handle(r, ShardOf[e]) = Refuse(r)
      \/ Handle(r, ShardOf[e]) = Take(n, GetHoldIdentity(r))
  BY <1>1 DEF Handle
<1> QED
  BY Zenon, <1>2, <1>3 DEF r, Answer

(* An elector that is about to update its lock got it while it held it, or *)
(* while its holder was not leading, and that has not changed: a write     *)
(* would have sent it back, and nobody comes to lead without one.          *)
ElectionType ==
    /\ lease \in [LockNames -> Elector \cup {Absent, Nobody}]
    /\ round \in [Elector -> [pc : {"get", "create", "update"}, name : LockNames]]
    /\ leading \in SUBSET Elector

ElectionInv ==
    /\ ElectionType
    /\ \A e \in Elector : round[e].pc = "update" =>
          /\ round[e].name = Lock(ShardOf[e])
          /\ lease[Lock(ShardOf[e])] = e \/ lease[Lock(ShardOf[e])] \notin leading
    /\ OwnLeader

LEMMA ElectionInitInv == ElectionInit => ElectionInv
<1> SUFFICES ASSUME ElectionInit PROVE ElectionInv
  OBVIOUS
<1>1. LockName \in LockNames
  BY Zenon DEF LockNames
<1>2. ElectionType
  BY <1>1 DEF ElectionInit, ElectionType, Idle
<1>3. \A s \in Shards : lease[setSubsetIntoName(LockName, s)] = Absent
  BY Zenon, LockIsName DEF ElectionInit, Lock
<1>4. \A e \in Elector : round[e].pc = "get"
  BY DEF ElectionInit, Idle
<1>5. lease[LockName] = Absent /\ leading = {}
  BY Zenon, <1>1 DEF ElectionInit
<1> QED
  BY Zenon, <1>2, <1>3, <1>4, <1>5 DEF ElectionInv, OwnLeader

(* A write of the own lock by e, who leads from then on or no longer.      *)
LEMMA WrittenInv ==
    ASSUME ElectionInv, NEW e \in Elector, NEW h \in {e, Nobody},
           Written(e, Lock(ShardOf[e]), h),
           leading' = IF h = e THEN leading \cup {e} ELSE leading \ {e},
           \A f \in leading : Lock(ShardOf[f]) = Lock(ShardOf[e]) => f = e
    PROVE  ElectionInv'
<1> DEFINE n == Lock(ShardOf[e])
<1>0. e # Absent /\ e # Nobody
  BY Zenon, ElectorAssumption
<1>1. \A f \in Elector : ShardOf[f] \in Shards /\ Lock(ShardOf[f]) \in LockNames
  BY Zenon, LockIsName DEF Shards
<1>2. LockName \in LockNames
  BY Zenon DEF LockNames
<1>3. /\ lease \in [LockNames -> Elector \cup {Absent, Nobody}]
      /\ round \in [Elector -> [pc : {"get", "create", "update"}, name : LockNames]]
      /\ leading \in SUBSET Elector
  BY Zenon DEF ElectionInv, ElectionType
<1>4. /\ lease' = [lease EXCEPT ![n] = h]
      /\ round' = [f \in Elector |-> IF f = e \/ round[f] = [pc |-> "update", name |-> n] THEN Idle ELSE round[f]]
  BY Zenon DEF Written
<1>5. Idle \in [pc : {"get", "create", "update"}, name : LockNames] /\ Idle.pc = "get"
  BY <1>2 DEF Idle
<1> HIDE DEF n
<1>6. ElectionType'
  <2>1. lease' \in [LockNames -> Elector \cup {Absent, Nobody}]
    BY <1>1, <1>3, <1>4 DEF n
  <2>2. round' \in [Elector -> [pc : {"get", "create", "update"}, name : LockNames]]
    BY Zenon, <1>3, <1>4, <1>5
  <2>3. leading' \in SUBSET Elector
    BY Zenon, <1>3
  <2> QED
    BY Zenon, <2>1, <2>2, <2>3 DEF ElectionType
<1>7. /\ lease'[n] = h
      /\ \A m \in LockNames : m # n => lease'[m] = lease[m]
  BY Zenon, <1>1, <1>3, <1>4 DEF n
<1>8. \A s \in Shards : Lock(s) \in LockNames /\ (Lock(s) = n => s = ShardOf[e])
  BY Zenon, LockIsName, LocksApart DEF n
<1>9. \A s \in Shards : lease[Lock(s)] \in {Absent, Nobody} \cup {f \in Elector : ShardOf[f] = s}
  BY Zenon DEF ElectionInv, OwnLeader, Lock
<1>10. \A s \in Shards : lease'[Lock(s)] \in {Absent, Nobody} \cup {f \in Elector : ShardOf[f] = s}
  <2> TAKE s \in Shards
  <2>1. CASE Lock(s) = n
    BY Zenon, <2>1, <1>7, <1>8
  <2>2. CASE Lock(s) # n
    BY Zenon, <2>2, <1>7, <1>8, <1>9
  <2> QED
    BY Zenon, <2>1, <2>2
<1>11. \A f \in leading' : lease'[Lock(ShardOf[f])] = f
  <2> SUFFICES ASSUME NEW f \in leading' PROVE lease'[Lock(ShardOf[f])] = f
    OBVIOUS
  <2>1. CASE f = e
    <3>1. h = e
      BY Zenon, <2>1
    <3> QED
      BY Zenon, <2>1, <3>1, <1>7 DEF n
  <2>2. CASE f # e
    <3>1. f \in leading
      BY Zenon, <2>2
    <3>2. f \in Elector /\ Lock(ShardOf[f]) # n
      BY Zenon, <3>1, <2>2, <1>3 DEF n
    <3>3. lease[Lock(ShardOf[f])] = f
      BY Zenon, <3>1 DEF ElectionInv, OwnLeader, Lock
    <3> QED
      BY Zenon, <3>2, <3>3, <1>1, <1>7
  <2> QED
    BY Zenon, <2>1, <2>2
<1>12. lease'[LockName] = Absent \/ "" \in Shards
  <2>1. CASE n = LockName
    BY Zenon, <2>1, <1>1, LockIsName DEF n
  <2>2. CASE n # LockName
    <3>1. lease'[LockName] = lease[LockName]
      BY Zenon, <2>2, <1>2, <1>7
    <3> QED
      BY Zenon, <3>1 DEF ElectionInv, OwnLeader
  <2> QED
    BY Zenon, <2>1, <2>2
<1>13. ASSUME NEW f \in Elector, round'[f].pc = "update"
       PROVE  /\ round'[f].name = Lock(ShardOf[f])
              /\ lease'[Lock(ShardOf[f])] = f \/ lease'[Lock(ShardOf[f])] \notin leading'
  <2>1. f # e /\ round[f] # [pc |-> "update", name |-> n] /\ round'[f] = round[f]
    <3>1. round'[f] = IF f = e \/ round[f] = [pc |-> "update", name |-> n] THEN Idle ELSE round[f]
      BY Zenon, <1>4
    <3>2. Idle.pc # "update"
      BY <1>5
    <3> QED
      BY Zenon, <1>13, <3>1, <3>2
  <2>2. /\ round[f].name = Lock(ShardOf[f])
        /\ lease[Lock(ShardOf[f])] = f \/ lease[Lock(ShardOf[f])] \notin leading
    BY Zenon, <1>13, <2>1 DEF ElectionInv
  <2>3. Lock(ShardOf[f]) # n
    <3>1. round[f] \in [pc : {"get", "create", "update"}, name : LockNames] /\ round[f].pc = "update"
      BY Zenon, <1>13, <2>1, <1>3
    <3>2. round[f] = [pc |-> "update", name |-> round[f].name]
      BY <3>1
    <3> QED
      BY Zenon, <3>2, <2>1, <2>2
  <2>4. lease'[Lock(ShardOf[f])] = lease[Lock(ShardOf[f])]
    BY Zenon, <2>3, <1>1, <1>7
  <2>5. lease[Lock(ShardOf[f])] # e
    <3>1. ASSUME lease[Lock(ShardOf[f])] = e PROVE FALSE
      <4>1. ShardOf[e] = ShardOf[f]
        BY Zenon, <3>1, <1>0, <1>1, <1>9
      <4> QED
        BY Zenon, <4>1, <2>3 DEF n
    <3> QED
      BY Zenon, <3>1
  <2> QED
    BY Zenon, <2>1, <2>2, <2>4, <2>5
<1> QED
  BY Zenon, <1>6, <1>10, <1>11, <1>12, <1>13 DEF ElectionInv, OwnLeader, Lock

(* A round that goes back or on to create, and fewer leaders.              *)
LEMMA BackInv ==
    ASSUME ElectionInv, UNCHANGED lease, leading' \in SUBSET leading, NEW e \in Elector,
           NEW r \in [pc : {"get", "create", "update"}, name : LockNames],
           round' = [round EXCEPT ![e] = r],
           r.pc = "update" =>
              /\ r.name = Lock(ShardOf[e])
              /\ lease[Lock(ShardOf[e])] = e \/ lease[Lock(ShardOf[e])] \notin leading
    PROVE  ElectionInv'
<1>1. /\ lease \in [LockNames -> Elector \cup {Absent, Nobody}]
      /\ round \in [Elector -> [pc : {"get", "create", "update"}, name : LockNames]]
      /\ leading \in SUBSET Elector
  BY Zenon DEF ElectionInv, ElectionType
<1>2. \A f \in Elector : round'[f] = IF f = e THEN r ELSE round[f]
  BY Zenon, <1>1
<1>3. ElectionType'
  <2>1. round' \in [Elector -> [pc : {"get", "create", "update"}, name : LockNames]]
    BY <1>1
  <2> QED
    BY Zenon, <1>1, <2>1 DEF ElectionType
<1>4. OwnLeader'
  BY Zenon DEF ElectionInv, OwnLeader, Lock
<1>5. ASSUME NEW f \in Elector, round'[f].pc = "update"
      PROVE  /\ round'[f].name = Lock(ShardOf[f])
             /\ lease'[Lock(ShardOf[f])] = f \/ lease'[Lock(ShardOf[f])] \notin leading'
  <2>1. CASE f = e
    BY Zenon, <1>2, <1>5, <2>1
  <2>2. CASE f # e
    <3>1. round'[f] = round[f] /\ round[f].pc = "update"
      BY Zenon, <1>2, <1>5, <2>2
    <3>2. /\ round[f].name = Lock(ShardOf[f])
          /\ lease[Lock(ShardOf[f])] = f \/ lease[Lock(ShardOf[f])] \notin leading
      BY Zenon, <3>1 DEF ElectionInv
    <3> QED
      BY Zenon, <3>1, <3>2
  <2> QED
    BY Zenon, <2>1, <2>2
<1> QED
  BY Zenon, <1>3, <1>4, <1>5 DEF ElectionInv

LEMMA IdleRound == Idle \in [pc : {"get", "create", "update"}, name : LockNames] /\ Idle.pc = "get"
<1>1. LockName \in LockNames
  BY Zenon DEF LockNames
<1> QED
  BY <1>1 DEF Idle

LEMMA LostInv ==
    ASSUME ElectionInv, NEW e \in Elector, Lost(e), UNCHANGED lease
    PROVE  ElectionInv'
<1>1. round' = [round EXCEPT ![e] = Idle] /\ leading' \in SUBSET leading
  BY Zenon DEF Lost
<1>2. Idle.pc = "update" => FALSE
  BY IdleRound
<1> QED
  BY <1>1, <1>2, IdleRound, BackInv

LEMMA ElectionStep == ElectionInv /\ [ElectionNext]_electionVars => ElectionInv'
<1> SUFFICES ASSUME ElectionInv, [ElectionNext]_electionVars PROVE ElectionInv'
  OBVIOUS
<1>0. ASSUME UNCHANGED electionVars PROVE ElectionInv'
  BY Zenon, <1>0 DEF ElectionInv, ElectionType, OwnLeader, electionVars
<1>1. ASSUME NEW e \in Elector, Get(e) PROVE ElectionInv'
  <2> DEFINE n == Lock(ShardOf[e])
  <2>1. n \in LockNames /\ LockName \in LockNames
    BY Zenon, LockIsName DEF Shards, LockNames
  <2>2. UNCHANGED <<lease, leading>>
    BY Zenon, <1>1 DEF Get
  <2> HIDE DEF n
  <2>3. \/ round' = [round EXCEPT ![e] = [pc |-> "create", name |-> LockName]]
        \/ /\ lease[n] = e \/ lease[n] \notin leading
           /\ round' = [round EXCEPT ![e] = [pc |-> "update", name |-> n]]
    BY Zenon, <1>1, AnswerGet DEF Get, n
  <2>4. CASE round' = [round EXCEPT ![e] = [pc |-> "create", name |-> LockName]]
    <3>1. /\ [pc |-> "create", name |-> LockName] \in [pc : {"get", "create", "update"}, name : LockNames]
          /\ [pc |-> "create", name |-> LockName].pc = "create"
      BY <2>1
    <3> QED
      BY <2>2, <2>4, <3>1, BackInv
  <2>5. CASE /\ lease[n] = e \/ lease[n] \notin leading
             /\ round' = [round EXCEPT ![e] = [pc |-> "update", name |-> n]]
    <3>1. /\ [pc |-> "update", name |-> n] \in [pc : {"get", "create", "update"}, name : LockNames]
          /\ [pc |-> "update", name |-> n].name = n
      BY <2>1
    <3> QED
      BY <2>2, <2>5, <3>1, BackInv DEF n
  <2> QED
    BY Zenon, <2>3, <2>4, <2>5
<1>2. ASSUME NEW e \in Elector, Create(e) PROVE ElectionInv'
  <2> DEFINE n == Lock(ShardOf[e])
  <2>1. \/ lease[n] = Absent /\ Written(e, n, e) /\ leading' = leading \cup {e}
        \/ Lost(e) /\ UNCHANGED lease
    BY Zenon, <1>2, AnswerCreate DEF Create
  <2>2. CASE lease[n] = Absent /\ Written(e, n, e) /\ leading' = leading \cup {e}
    <3>1. ASSUME NEW f \in leading, Lock(ShardOf[f]) = n PROVE FALSE
      <4>1. lease[n] = f /\ f \in Elector
        BY Zenon, <3>1 DEF ElectionInv, ElectionType, OwnLeader, Lock
      <4> QED
        BY Zenon, <4>1, <2>2, ElectorAssumption
    <3> QED
      BY Zenon, <2>2, <3>1, WrittenInv
  <2> QED
    BY Zenon, <2>1, <2>2, LostInv
<1>3. ASSUME NEW e \in Elector, Update(e) PROVE ElectionInv'
  <2> DEFINE n == Lock(ShardOf[e])
  <2>0. round[e].name = n /\ (lease[n] = e \/ lease[n] \notin leading)
    BY Zenon, <1>3 DEF Update, ElectionInv
  <2>1. \/ Written(e, n, e) /\ leading' = leading \cup {e}
        \/ Lost(e) /\ UNCHANGED lease
    <3>1. Answer(e, LockRequest(e, "update", round[e].name, e)).name = n
      BY Zenon, <2>0, AnswerUpdate
    <3> HIDE DEF n
    <3> QED
      BY Zenon, <1>3, <3>1 DEF Update
  <2>2. CASE Written(e, n, e) /\ leading' = leading \cup {e}
    <3>1. ASSUME NEW f \in leading, Lock(ShardOf[f]) = n PROVE f = e
      <4>1. lease[n] = f
        BY Zenon, <3>1 DEF ElectionInv, OwnLeader, Lock
      <4> QED
        BY Zenon, <4>1, <2>0
    <3> QED
      BY Zenon, <2>2, <3>1, WrittenInv
  <2> QED
    BY Zenon, <2>1, <2>2, LostInv
<1>4. ASSUME NEW e \in Elector, Release(e) PROVE ElectionInv'
  <2> DEFINE n == Lock(ShardOf[e])
  <2>1. e \in leading /\ Written(e, n, Nobody) /\ leading' = leading \ {e}
    BY Zenon, <1>4, AnswerUpdate DEF Release, Lock
  <2>2. e # Nobody
    BY Zenon, ElectorAssumption
  <2>3. ASSUME NEW f \in leading, Lock(ShardOf[f]) = n PROVE f = e
    <3>1. lease[n] = f /\ lease[n] = e
      BY Zenon, <2>1, <2>3 DEF ElectionInv, OwnLeader, Lock
    <3> QED
      BY Zenon, <3>1
  <2> QED
    BY Zenon, <2>1, <2>2, <2>3, WrittenInv
<1>5. ASSUME NEW e \in Elector, Crash(e) PROVE ElectionInv'
  BY Zenon, <1>5, LostInv DEF Crash
<1> QED
  BY Zenon, <1>0, <1>1, <1>2, <1>3, <1>4, <1>5 DEF ElectionNext, Campaign

(* Whatever crashes, releases the lock or comes to lead in whatever order, *)
(* a shard's lock is only held by a manager of that shard, no two managers *)
(* of a shard lead at once, and no shard competes for the lock under the   *)
(* name the managers know, unless some proxy has no shard yet.             *)
THEOREM OwnLeaderCorrect == ElectionSpec => []OwnLeader
<1>1. ElectionInv => OwnLeader
  BY Zenon DEF ElectionInv
<1> QED
  BY <1>1, ElectionInitInv, ElectionStep, PTL DEF ElectionSpec
=============================================================================
