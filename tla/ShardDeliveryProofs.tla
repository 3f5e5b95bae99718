------------------------ MODULE ShardDeliveryProofs ------------------------
(***************************************************************************)
(* Proofs about the sharding protocol, for any number of Pods, edits and   *)
(* faults, as long as the manager is not replaced ("restart") and the end  *)
(* of a stream is noticed before the next one is served ("late"): the      *)
(* protocol implements SpecRollout, a proxy never filters with a union of  *)
(* specs, and Reconcile decides only when everything it sent is reported.  *)
(***************************************************************************)
EXTENDS ShardDelivery, TLAPS

Undisturbed == {"restart", "late"} \cap Faults = {}

-----------------------------------------------------------------------------
(* The inductive invariant, for one Pod: its object o, stream s, proxy x,  *)
(* the Pod v and connection c the manager has of it, the hash h it expects,*)
(* where Reconcile is, and the snapshot rp it is about to act on.          *)

(* The proxy serves, or will without being sent anything more.             *)
Alive(x, s) == x.serving \/ x.half \/ s.down # <<>>
SavedOf(x) == IF x.currentFile.hash # None THEN x.currentFile.hash ELSE x.expectedFile.hash

(* Its first spec is on its way.                                           *)
First(x, s) == s.down # <<>> /\ SavedOf(x) = None

(* The spec it serves with, or will.                                       *)
Will(x, h) == IF SavedOf(x) # None THEN SavedOf(x) ELSE h

StatusOk(t) == (t.exp = None => t = NoMeta) /\ (t.cur = None => t = NoMeta)

ProxyOk(o, s, x) ==
    /\ x.up => o.phase \in {"running", "terminating"}
    /\ ~ x.up => ~ x.serving /\ ~ x.half /\ s.state = "closed" /\ x.expected.hash = None /\ x.current.hash = None
    /\ x.up => x.current.hash = x.currentFile.hash /\ x.expected.hash = x.expectedFile.hash
    /\ x.currentFile.hash # None => x.expectedFile.hash # None
    /\ x.up /\ ~ x.half /\ x.expected.hash # None => x.current.hash # None
    /\ x.half => x.expected.hash # None
    /\ x.serving => x.current.hash # None
    /\ s.state # "open" => s.down = <<>>
    /\ s.state = "new" => ~ x.half
    /\ s.state = "closed" => s.up = <<>>

(* The files are joined only where they hold the same spec.                *)
WholeOk(s, x) ==
    /\ x.current.limits = {x.current.hash} \ {None}
    /\ x.currentFile.limits = {x.currentFile.hash} \ {None}
    /\ x.currentFile.hash \in {None, x.expectedFile.hash} => x.expectedFile.limits = {x.expectedFile.hash} \ {None}
    /\ x.half => x.expected.limits = {x.expected.hash}
    /\ x.current.hash # None /\ x.current.hash # x.expected.hash => \A i \in DOMAIN s.down : s.down[i] = x.expected.hash

(* From the status a the manager has to the last message on its way to the *)
(* proxy, every hash is the reported one or the awaited one t, and none    *)
(* comes after t but t.                                                    *)
Chain(a, up, e, down, t) ==
    /\ e \in {a, t}
    /\ \A i \in DOMAIN up : up[i].exp \in {a, t}
    /\ \A i \in DOMAIN down : down[i] \in {a, t}
    /\ \A i \in DOMAIN up : up[i].exp = t => e = t /\ \A j \in DOMAIN up : i < j => up[j].exp = t
    /\ e = t => \A i \in DOMAIN down : down[i] = t
    /\ \A i, j \in DOMAIN down : i < j /\ down[i] = t => down[j] = t

Awaited(c, h) == IF h = None THEN c.status.exp ELSE h
Linked(s, x, c) == c.up /\ ~ c.disconnected /\ (s.state = "open" \/ Alive(x, s))

ConnOk(o, s, x, v, c, h) ==
    /\ s.state = "open" => c.up /\ ~ c.disconnected
    /\ Alive(x, s) => c.up
    /\ c.up => v.phase # "absent"
    /\ v.phase # "absent" => o.phase # "absent"
    /\ v.phase = "gone" => o.phase = "gone"
    /\ StatusOk(c.status) /\ \A i \in DOMAIN s.up : StatusOk(s.up[i]) /\ s.up[i].cur \in {None, x.current.hash}
    /\ s.state = "new" => \A i \in DOMAIN s.up : s.up[i].exp = x.expected.hash
    /\ Linked(s, x, c) =>
          /\ c.status.cur \in {None, x.current.hash}
          /\ IF s.state = "open" THEN Chain(c.status.exp, s.up, x.expected.hash, s.down, Awaited(c, h))
             ELSE x.expected.hash \in {c.status.exp, Awaited(c, h)}

(* What Gate read is still so of every proxy that matters.                 *)
ActOk(s, x, c, h, rp) ==
    /\ StatusOk(rp.status)
    /\ Alive(x, s) => rp.synced /\ \A i \in DOMAIN s.down : s.down[i] = rp.status.exp
    /\ Alive(x, s) \/ (rp.synced /\ rp.fresh /\ Linked(s, x, c)) =>
          x.expected.hash = rp.status.exp /\ x.current.hash = rp.status.cur
    /\ rp.synced /\ rp.fresh /\ Linked(s, x, c) => h = None /\ c.status.exp = rp.status.exp

PodOk(o, s, x, v, c, h, pc, rp) ==
    ProxyOk(o, s, x) /\ WholeOk(s, x) /\ ConnOk(o, s, x, v, c, h) /\ (pc = "act" => ActOk(s, x, c, h, rp))

(* While the first spec of a proxy is on its way, all others that serve    *)
(* have it too.                                                            *)
Agreed ==
    \A p, q \in Pod : First(proxy[p], stream[p]) /\ Alive(proxy[q], stream[q]) => Will(proxy[q], hashExp[q]) = hashExp[p]

DeliveryType ==
    /\ pod \in [Pod -> PodObj] /\ stream \in [Pod -> Stream] /\ proxy \in [Pod -> ProxyType]
    /\ seen \in [Pod -> PodObj] /\ conn \in [Pod -> ConnType] /\ hashExp \in [Pod -> Hash \cup {None}]
    /\ config \in Hash
    /\ rec \in [pc : {"idle", "act"}, spec : Hash \cup {None}, pods : [Pod -> SyncPod]]
    /\ rec.pc = "act" => rec.spec \in Hash

DeliveryInv ==
    /\ DeliveryType /\ dying = {} /\ Agreed
    /\ \A p \in Pod : PodOk(pod[p], stream[p], proxy[p], seen[p], conn[p], hashExp[p], rec.pc, rec.pods[p])

-----------------------------------------------------------------------------
(* Sequences of messages.                                                  *)
LEMMA HeadTail ==
  ASSUME NEW S, NEW q \in Seq(S), q # <<>>
  PROVE  /\ Head(q) = q[1] /\ 1 \in DOMAIN q /\ Head(q) \in S /\ Tail(q) \in Seq(S)
         /\ \A i \in DOMAIN Tail(q) : i + 1 \in DOMAIN q /\ i \in Nat /\ 1 < i + 1 /\ Tail(q)[i] = q[i + 1]
  OBVIOUS

LEMMA Appending ==
  ASSUME NEW S, NEW q \in Seq(S), NEW m \in S
  PROVE  /\ Append(q, m) \in Seq(S) /\ Append(q, m) # <<>>
         /\ \A i \in DOMAIN Append(q, m) : (i \in DOMAIN q /\ Append(q, m)[i] = q[i]) \/ (i = Len(q) + 1 /\ Append(q, m)[i] = m)
         /\ \A i \in DOMAIN q : i \in Nat /\ i < Len(q) + 1 
         /\ Len(q) \in Nat
  OBVIOUS

(* What the steps of the protocol do to the chain.                         *)
LEMMA ChainRecvStatus ==
  ASSUME NEW a, NEW up \in Seq(Status), NEW e, NEW down, NEW t, up # <<>>, Chain(a, up, e, down, t)
  PROVE  Chain(Head(up).exp, Tail(up), e, down, t)
<1> DEFINE b == Head(up).exp
<1>1. /\ b = up[1].exp /\ 1 \in DOMAIN up
      /\ \A i \in DOMAIN Tail(up) : i + 1 \in DOMAIN up /\ i \in Nat /\ 1 < i + 1 /\ Tail(up)[i] = up[i + 1]
  BY Zenon, HeadTail
<1>2. b \in {a, t}
  BY Zenon, <1>1 DEF Chain
<1> HIDE DEF b
<1>3. ASSUME b = t PROVE /\ e = t /\ (\A i \in DOMAIN Tail(up) : Tail(up)[i].exp = t) /\ \A i \in DOMAIN down : down[i] = t
  BY Zenon, <1>1, <1>3 DEF Chain
<1>4. ASSUME NEW i \in DOMAIN Tail(up), Tail(up)[i].exp = t
      PROVE  e = t /\ \A j \in DOMAIN Tail(up) : i < j => Tail(up)[j].exp = t
  <2>1. up[i + 1].exp = t /\ i + 1 \in DOMAIN up
    BY Zenon, <1>1, <1>4
  <2>2. ASSUME NEW j \in DOMAIN Tail(up), i < j PROVE Tail(up)[j].exp = t
    <3>1. i + 1 < j + 1 /\ j + 1 \in DOMAIN up /\ Tail(up)[j] = up[j + 1]
      BY <1>1, <2>2
    <3> QED BY Zenon, <2>1, <3>1 DEF Chain
  <2> QED BY Zenon, <2>1, <2>2 DEF Chain
<1>5. \A i \in DOMAIN Tail(up) : Tail(up)[i].exp \in {a, t}
  BY Zenon, <1>1 DEF Chain
<1>6. Chain(b, Tail(up), e, down, t)
  BY Zenon, <1>2, <1>3, <1>4, <1>5 DEF Chain
<1> QED BY Zenon, <1>6 DEF b

LEMMA ChainRecvSpec ==
  ASSUME NEW a, NEW up \in Seq(Status), NEW e, NEW down \in Seq(Hash), NEW t, down # <<>>, Chain(a, up, e, down, t)
  PROVE  Chain(a, up, Head(down), Tail(down), t)
<1> DEFINE b == Head(down)
<1>1. /\ b = down[1] /\ 1 \in DOMAIN down
      /\ \A i \in DOMAIN Tail(down) : i + 1 \in DOMAIN down /\ i \in Nat /\ 1 < i + 1 /\ Tail(down)[i] = down[i + 1]
  BY Zenon, HeadTail
<1>2. b \in {a, t} /\ (e = t => b = t)
  BY Zenon, <1>1 DEF Chain
<1> HIDE DEF b
<1>3. b = t => \A i \in DOMAIN Tail(down) : Tail(down)[i] = t
  BY Zenon, <1>1 DEF Chain
<1>4. ASSUME NEW i \in DOMAIN Tail(down), NEW j \in DOMAIN Tail(down), i < j, Tail(down)[i] = t PROVE Tail(down)[j] = t
  <2>1. i + 1 < j + 1 /\ i + 1 \in DOMAIN down /\ j + 1 \in DOMAIN down
    BY <1>1, <1>4
  <2> QED BY <1>1, <1>4, <2>1 DEF Chain
<1>5. \A i \in DOMAIN Tail(down) : Tail(down)[i] \in {a, t}
  BY Zenon, <1>1 DEF Chain
<1>6. Chain(a, up, b, Tail(down), t)
  BY Zenon, <1>2, <1>3, <1>4, <1>5 DEF Chain
<1> QED BY Zenon, <1>6 DEF b

LEMMA ChainSendStatus ==
  ASSUME NEW a, NEW up \in Seq(Status), NEW e, NEW down, NEW t, NEW m \in Status, m.exp = e, Chain(a, up, e, down, t)
  PROVE  Chain(a, Append(up, m), e, down, t)
<1> DEFINE w == Append(up, m)
<1>1. /\ \A i \in DOMAIN w : (i \in DOMAIN up /\ w[i] = up[i]) \/ (i = Len(up) + 1 /\ w[i] = m)
      /\ Len(up) \in Nat /\ \A i \in DOMAIN up : i \in Nat /\ i < Len(up) + 1
  BY Zenon, Appending
<1> HIDE DEF w
<1>2. \A i \in DOMAIN w : w[i].exp \in {a, t} /\ (w[i].exp = t => e = t)
  BY Zenon, <1>1 DEF Chain
<1>3. ASSUME NEW i \in DOMAIN w, NEW j \in DOMAIN w, i < j, w[i].exp = t PROVE w[j].exp = t
  BY <1>1, <1>2, <1>3 DEF Chain
<1>4. Chain(a, w, e, down, t)
  BY Zenon, <1>2, <1>3 DEF Chain
<1> QED BY Zenon, <1>4 DEF w

(* A spec is sent only when nothing is awaited.                            *)
LEMMA ChainSendSpec ==
  ASSUME NEW a, NEW up \in Seq(Status), NEW e, NEW down \in Seq(Hash), NEW t \in Hash, Chain(a, up, e, down, a)
  PROVE  Chain(a, up, e, Append(down, t), t)
<1> DEFINE w == Append(down, t)
<1>1. /\ \A i \in DOMAIN w : (i \in DOMAIN down /\ w[i] = down[i]) \/ (i = Len(down) + 1 /\ w[i] = t)
      /\ Len(down) \in Nat /\ \A i \in DOMAIN down : i \in Nat /\ i < Len(down) + 1
  BY Zenon, Appending
<1> HIDE DEF w
<1>2. /\ e = a /\ (\A i \in DOMAIN up : up[i].exp = a) /\ (\A i \in DOMAIN down : down[i] = a)
  BY Zenon DEF Chain
<1>3. ASSUME NEW i \in DOMAIN w, NEW j \in DOMAIN w, i < j, w[i] = t PROVE w[j] = t
  BY <1>1, <1>2, <1>3
<1>4. Chain(a, up, e, w, t)
  BY Zenon, <1>1, <1>2, <1>3 DEF Chain
<1> QED BY Zenon, <1>4 DEF w

-----------------------------------------------------------------------------
(* What the operators of SpecProxy do to the fields of a proxy.            *)
LEMMA ExpectFields ==
  ASSUME NEW x \in ProxyType, NEW spec \in SpecType
  PROVE  /\ Expect(x, spec) \in ProxyType
         /\ Expect(x, spec).expected = spec
         /\ Expect(x, spec).expectedFile = [hash |-> spec.hash, limits |-> x.expectedFile.limits \cup spec.limits]
         /\ Expect(x, spec).up = x.up /\ Expect(x, spec).half = x.half /\ Expect(x, spec).serving = x.serving
         /\ Expect(x, spec).current = x.current /\ Expect(x, spec).currentFile = x.currentFile
<1> DEFINE f == Appended(x.expectedFile, spec)
<1>1. f \in SpecType /\ f = [hash |-> spec.hash, limits |-> x.expectedFile.limits \cup spec.limits]
  BY Zenon DEF Appended, ProxyType, SpecType
<1> HIDE DEF f
<1>2. Expect(x, spec) = [x EXCEPT !.expected = spec, !.expectedFile = f]
  BY Zenon DEF Expect, f
<1> QED BY Zenon, <1>1, <1>2 DEF ProxyType

LEMMA LoadFields ==
  ASSUME NEW x \in ProxyType
  PROVE  /\ Load(x) \in ProxyType
         /\ Load(x).expected = x.expected /\ Load(x).expectedFile = x.expectedFile
         /\ Load(x).up = x.up /\ Load(x).half = x.half /\ Load(x).serving = x.serving
         /\ checkLoadable(x) =>
               /\ Load(x).current = x.expected
               /\ Load(x).currentFile = [hash |-> x.expected.hash, limits |-> x.currentFile.limits \cup x.expected.limits]
         /\ ~ checkLoadable(x) => Load(x) = x
<1> DEFINE f == Appended(x.currentFile, x.expected)
           e == x.expected
<1>1. f \in SpecType /\ f = [hash |-> x.expected.hash, limits |-> x.currentFile.limits \cup x.expected.limits] /\ e \in SpecType
  BY Zenon DEF Appended, ProxyType, SpecType
<1>2. Load(x) = IF checkLoadable(x) THEN [x EXCEPT !.current = e, !.currentFile = f] ELSE x
  BY Zenon DEF Load
<1>3. e = x.expected
  BY Zenon
<1> HIDE DEF f, e
<1> QED BY Zenon, <1>1, <1>2, <1>3 DEF ProxyType

(* The process starts, from files that agree with each other.              *)
LEMMA StartedFields ==
  ASSUME NEW x \in ProxyType
  PROVE  /\ Started(x) \in ProxyType
         /\ Started(x).up = TRUE /\ Started(x).half = x.half /\ Started(x).serving = x.serving
         /\ x.expectedFile.hash = None =>
               /\ Started(x).current = x.currentFile /\ Started(x).expected = x.expected
               /\ Started(x).currentFile = x.currentFile /\ Started(x).expectedFile = x.expectedFile
         /\ x.expectedFile.hash # None =>
               /\ Started(x).expected = x.expectedFile /\ Started(x).expectedFile = x.expectedFile
               /\ x.currentFile.hash \in {None, x.expectedFile.hash} =>
                     /\ Started(x).current = x.expectedFile
                     /\ Started(x).currentFile.hash = x.expectedFile.hash
                     /\ Started(x).currentFile.limits = x.currentFile.limits \cup x.expectedFile.limits
               /\ x.currentFile.hash \notin {None, x.expectedFile.hash} =>
                     Started(x).current = x.currentFile /\ Started(x).currentFile = x.currentFile
<1> DEFINE k == x.currentFile
           y == [x EXCEPT !.up = TRUE, !.current = k]
           f == x.expectedFile
           z == Expect(y, f)
<1>1. k \in SpecType /\ f \in SpecType
  BY Zenon DEF ProxyType
<1>2. /\ y \in ProxyType /\ y.up = TRUE /\ y.half = x.half /\ y.serving = x.serving /\ y.current = k
      /\ y.currentFile = k /\ y.expected = x.expected /\ y.expectedFile = f
  <2>1. k = x.currentFile /\ f = x.expectedFile
    BY Zenon
  <2> HIDE DEF k, f
  <2> QED BY Zenon, <1>1, <2>1 DEF ProxyType
<1>3. Started(x) = IF f.hash = None THEN y ELSE Load(z)
  BY Zenon DEF Started, UpdateSpec
<1> HIDE DEF y
<1>4. /\ z \in ProxyType /\ z.expected = f /\ z.up = TRUE /\ z.half = x.half /\ z.serving = x.serving
      /\ z.current = k /\ z.currentFile = k
      /\ z.expectedFile = [hash |-> f.hash, limits |-> f.limits \cup f.limits]
  BY <1>1, <1>2, ExpectFields
<1>5. z.expectedFile = f
  <2>1. f.limits \cup f.limits = f.limits
    BY Zenon
  <2>2. f = [hash |-> f.hash, limits |-> f.limits]
    BY Zenon, <1>1 DEF SpecType
  <2> QED BY Zenon, <1>4, <2>1, <2>2
<1> HIDE DEF z
<1>6. checkLoadable(z) <=> k.hash \in {None, f.hash}
  BY Zenon, <1>4 DEF checkLoadable
<1>7. /\ Load(z) \in ProxyType /\ Load(z).expected = f /\ Load(z).expectedFile = f
      /\ Load(z).up = TRUE /\ Load(z).half = x.half /\ Load(z).serving = x.serving
      /\ k.hash \in {None, f.hash} => Load(z).current = f /\ Load(z).currentFile.hash = f.hash /\ Load(z).currentFile.limits = k.limits \cup f.limits
      /\ k.hash \notin {None, f.hash} => Load(z).current = k /\ Load(z).currentFile = k
  <2>1. /\ Load(z) \in ProxyType /\ Load(z).expected = z.expected /\ Load(z).expectedFile = z.expectedFile
        /\ Load(z).up = z.up /\ Load(z).half = z.half /\ Load(z).serving = z.serving
        /\ checkLoadable(z) =>
              /\ Load(z).current = z.expected
              /\ Load(z).currentFile = [hash |-> z.expected.hash, limits |-> z.currentFile.limits \cup z.expected.limits]
        /\ ~ checkLoadable(z) => Load(z) = z
    BY Zenon, <1>4, LoadFields
  <2> HIDE DEF k, f
  <2> QED BY <1>4, <1>5, <1>6, <2>1
<1> QED BY Zenon, <1>2, <1>3, <1>7

-----------------------------------------------------------------------------
RecType == [pc : {"idle", "act"}, spec : Hash \cup {None}, pods : [Pod -> SyncPod]]

LEMMA PodFacts ==
  ASSUME DeliveryInv, NEW p \in Pod
  PROVE  /\ pod[p] \in PodObj /\ stream[p] \in Stream /\ proxy[p] \in ProxyType /\ seen[p] \in PodObj
         /\ conn[p] \in ConnType /\ hashExp[p] \in Hash \cup {None} /\ rec.pods[p] \in SyncPod
         /\ rec \in RecType /\ config \in Hash /\ dying = {}
         /\ ProxyOk(pod[p], stream[p], proxy[p]) /\ WholeOk(stream[p], proxy[p])
         /\ ConnOk(pod[p], stream[p], proxy[p], seen[p], conn[p], hashExp[p])
         /\ rec.pc = "act" => ActOk(stream[p], proxy[p], conn[p], hashExp[p], rec.pods[p])
  BY Zenon DEF DeliveryInv, DeliveryType, RecType, PodOk

(* A step of one Pod and its proxy.                                        *)
LEMMA ProxySide ==
  ASSUME DeliveryInv, NEW p \in Pod, NEW o \in PodObj, NEW s \in Stream, NEW x \in ProxyType,
         pod' = [pod EXCEPT ![p] = o], stream' = [stream EXCEPT ![p] = s], proxy' = [proxy EXCEPT ![p] = x],
         UNCHANGED <<seen, conn, hashExp, rec, config, dying>>,
         ProxyOk(o, s, x), WholeOk(s, x), ConnOk(o, s, x, seen[p], conn[p], hashExp[p]),
         rec.pc = "act" => ActOk(s, x, conn[p], hashExp[p], rec.pods[p]),
         First(x, s) => First(proxy[p], stream[p]),
         Alive(x, s) => Alive(proxy[p], stream[p]) /\ Will(x, hashExp[p]) = Will(proxy[p], hashExp[p])
  PROVE  DeliveryInv'
<1>1. DeliveryType' /\ dying' = {}
  BY Zenon DEF DeliveryInv, DeliveryType
<1>2. \A q \in Pod :
         /\ pod'[q] = (IF q = p THEN o ELSE pod[q]) /\ stream'[q] = (IF q = p THEN s ELSE stream[q])
         /\ proxy'[q] = (IF q = p THEN x ELSE proxy[q])
  BY Zenon DEF DeliveryInv, DeliveryType
<1>3. ASSUME NEW q \in Pod
      PROVE  PodOk(pod'[q], stream'[q], proxy'[q], seen[q], conn[q], hashExp[q], rec.pc, rec.pods[q])
  <2>1. CASE q = p
    BY Zenon, <1>2, <2>1 DEF PodOk
  <2>2. CASE q # p
    BY Zenon, <1>2, <2>2 DEF DeliveryInv
  <2> QED BY Zenon, <2>1, <2>2
<1>4. \A q \in Pod : First(proxy'[q], stream'[q]) => First(proxy[q], stream[q])
  BY Zenon, <1>2
<1>5. \A q \in Pod : Alive(proxy'[q], stream'[q]) => Alive(proxy[q], stream[q]) /\ Will(proxy'[q], hashExp[q]) = Will(proxy[q], hashExp[q])
  BY Zenon, <1>2
<1>6. Agreed'
  BY Zenon, <1>4, <1>5 DEF DeliveryInv, Agreed
<1> QED BY Zenon, <1>1, <1>3, <1>6 DEF DeliveryInv

(* A step of the manager about one Pod; the messages to the proxy stay.    *)
LEMMA ServerSide ==
  ASSUME DeliveryInv, NEW p \in Pod, NEW s \in Stream, NEW v \in PodObj, NEW c \in ConnType, NEW h \in Hash \cup {None},
         NEW rp \in SyncPod, stream' = [stream EXCEPT ![p] = s], seen' = [seen EXCEPT ![p] = v],
         conn' = [conn EXCEPT ![p] = c], hashExp' = [hashExp EXCEPT ![p] = h],
         rec' \in RecType, rec'.pc = rec.pc, rec'.spec = rec.spec, rec'.pods = [rec.pods EXCEPT ![p] = rp],
         UNCHANGED <<pod, proxy, config>>, dying' = {}, s.down = stream[p].down,
         ProxyOk(pod[p], s, proxy[p]), ConnOk(pod[p], s, proxy[p], v, c, h),
         rec.pc = "act" => ActOk(s, proxy[p], c, h, rp),
         s.down # <<>> => h = hashExp[p]
  PROVE  DeliveryInv'
<1>1. DeliveryType' /\ dying' = {}
  BY Zenon DEF DeliveryInv, DeliveryType, RecType
<1>2. \A q \in Pod :
         /\ stream'[q] = (IF q = p THEN s ELSE stream[q]) /\ seen'[q] = (IF q = p THEN v ELSE seen[q])
         /\ conn'[q] = (IF q = p THEN c ELSE conn[q]) /\ hashExp'[q] = (IF q = p THEN h ELSE hashExp[q])
         /\ rec'.pods[q] = (IF q = p THEN rp ELSE rec.pods[q])
  BY Zenon DEF DeliveryInv, DeliveryType
<1>3. WholeOk(s, proxy[p])
  BY PodFacts DEF WholeOk
<1>4. ASSUME NEW q \in Pod
      PROVE  PodOk(pod[q], stream'[q], proxy[q], seen'[q], conn'[q], hashExp'[q], rec'.pc, rec'.pods[q])
  <2>1. CASE q = p
    BY Zenon, <1>2, <1>3, <2>1 DEF PodOk
  <2>2. CASE q # p
    BY Zenon, <1>2, <2>2 DEF DeliveryInv
  <2> QED BY Zenon, <2>1, <2>2
<1>5. \A q \in Pod : stream'[q].down = stream[q].down /\ (stream[q].down # <<>> => hashExp'[q] = hashExp[q])
  BY ZenonT(60), <1>2
<1>6. ASSUME NEW q \in Pod, Alive(proxy[q], stream'[q]) PROVE Alive(proxy[q], stream[q]) /\ Will(proxy[q], hashExp'[q]) = Will(proxy[q], hashExp[q])
  <2>1. Alive(proxy[q], stream[q])
    BY Zenon, <1>5, <1>6 DEF Alive
  <2>2. SavedOf(proxy[q]) = None => stream[q].down # <<>>
    BY Zenon, <2>1, PodFacts DEF Alive, SavedOf, ProxyOk
  <2> QED BY Zenon, <1>5, <2>1, <2>2 DEF Will
<1>7. Agreed'
  BY <1>5, <1>6 DEF DeliveryInv, Agreed, First
<1> QED BY Zenon, <1>1, <1>4, <1>7 DEF DeliveryInv

-----------------------------------------------------------------------------
(* Steps of the Pods and their proxies.                                    *)

(* Only the Pod object changes.                                            *)
LEMMA PodStep ==
  ASSUME DeliveryInv, NEW p \in Pod, NEW o \in PodObj, pod' = [pod EXCEPT ![p] = o],
         UNCHANGED <<stream, proxy, seen, conn, hashExp, rec, config, dying>>,
         proxy[p].up => o.phase \in {"running", "terminating"},
         seen[p].phase # "absent" => o.phase # "absent",
         seen[p].phase = "gone" => o.phase = "gone"
  PROVE  DeliveryInv'
<1>1. stream' = [stream EXCEPT ![p] = stream[p]] /\ proxy' = [proxy EXCEPT ![p] = proxy[p]]
  BY Zenon DEF DeliveryInv, DeliveryType
<1>2. ProxyOk(o, stream[p], proxy[p])
  BY Zenon, PodFacts DEF ProxyOk
<1>3. ConnOk(o, stream[p], proxy[p], seen[p], conn[p], hashExp[p])
  BY Zenon, PodFacts DEF ConnOk
<1> QED BY Zenon, <1>1, <1>2, <1>3, PodFacts, ProxySide

(* The process ends, or does not run yet.                                  *)
LEMMA DownStep ==
  ASSUME DeliveryInv, NEW p \in Pod, NEW o \in PodObj, NEW x \in ProxyType, pod' = [pod EXCEPT ![p] = o],
         stream' = [stream EXCEPT ![p] = Closed], proxy' = [proxy EXCEPT ![p] = x],
         UNCHANGED <<seen, conn, hashExp, rec, config, dying>>,
         ~ x.up, ~ x.serving, ~ x.half, x.expected.hash = None, x.current.hash = None, x.current.limits = {},
         x.currentFile.hash # None => x.expectedFile.hash # None,
         x.currentFile.limits = {x.currentFile.hash} \ {None},
         x.currentFile.hash \in {None, x.expectedFile.hash} => x.expectedFile.limits = {x.expectedFile.hash} \ {None},
         seen[p].phase # "absent" => o.phase # "absent",
         seen[p].phase = "gone" => o.phase = "gone"
  PROVE  DeliveryInv'
<1>1. Closed \in Stream /\ Closed.state = "closed" /\ Closed.up = <<>> /\ Closed.down = <<>>
  BY DEF Closed, Stream
<1>2. ~ Alive(x, Closed) /\ ~ First(x, Closed)
  BY Zenon, <1>1 DEF Alive, First
<1>3. ProxyOk(o, Closed, x)
  BY Zenon, <1>1 DEF ProxyOk
<1>4. WholeOk(Closed, x)
  BY Zenon, <1>1 DEF WholeOk
<1>5. ConnOk(o, Closed, x, seen[p], conn[p], hashExp[p])
  BY SMTT(30), <1>1, <1>2, PodFacts DEF ConnOk, Linked
<1>6. rec.pc = "act" => ActOk(Closed, x, conn[p], hashExp[p], rec.pods[p])
  BY Zenon, <1>1, <1>2, PodFacts DEF ActOk, Linked
<1> QED BY Zenon, <1>1, <1>2, <1>3, <1>4, <1>5, <1>6, ProxySide

LEMMA DownProxyFields ==
  /\ DownProxy \in ProxyType /\ ~ DownProxy.up /\ ~ DownProxy.serving /\ ~ DownProxy.half
  /\ DownProxy.expected = NoSpec /\ DownProxy.current = NoSpec
  /\ DownProxy.expectedFile = NoSpec /\ DownProxy.currentFile = NoSpec
  /\ NoSpec \in SpecType /\ NoSpec.hash = None /\ NoSpec.limits = {}
<1>1. NoSpec \in SpecType /\ NoSpec.hash = None /\ NoSpec.limits = {}
  BY Zenon DEF NoSpec, SpecType
<1>2. NoMeta \in Status
  BY Zenon DEF NoMeta, Status
<1> QED BY Zenon, <1>1, <1>2 DEF DownProxy, ProxyType

LEMMA ClusterStepInv ==
  ASSUME DeliveryInv, NEW p \in Pod, ClusterStep(p)
  PROVE  DeliveryInv'
<1>1. /\ pod[p] \in PodObj /\ ProxyOk(pod[p], stream[p], proxy[p]) /\ ConnOk(pod[p], stream[p], proxy[p], seen[p], conn[p], hashExp[p])
      /\ pod \in [Pod -> PodObj]
      /\ UNCHANGED <<seen, conn, hashExp, rec, config, dying>>
  BY Zenon, PodFacts DEF ClusterStep, CreatePod, RunPod, StopContainers, ReadyPod, DeliveryInv, DeliveryType
<1>2. ASSUME NEW ph \in Phase, Becomes(p, ph)
      PROVE  \E o \in PodObj : o.phase = ph /\ pod' = [pod EXCEPT ![p] = o]
  <2> DEFINE o == [pod[p] EXCEPT !.phase = ph, !.ready = FALSE]
  <2>1. pod' = [pod EXCEPT ![p] = o]
    BY Zenon, <1>1, <1>2 DEF Becomes
  <2>2. o \in PodObj /\ o.phase = ph
    BY Zenon, <1>1 DEF PodObj
  <2> HIDE DEF o
  <2> QED BY Zenon, <2>1, <2>2
<1>3. CASE CreatePod(p)
  <2>1. PICK o \in PodObj : o.phase = "pending" /\ pod' = [pod EXCEPT ![p] = o]
    BY Zenon, <1>2, <1>3 DEF CreatePod, Phase
  <2>2. ~ proxy[p].up /\ seen[p].phase # "gone"
    BY Zenon, <1>1, <1>3 DEF CreatePod, ProxyOk, ConnOk
  <2> QED BY Zenon, <1>1, <1>3, <2>1, <2>2, PodStep DEF CreatePod
<1>4. CASE RunPod(p)
  <2>1. PICK o \in PodObj : o.phase = "running" /\ pod' = [pod EXCEPT ![p] = o]
    BY Zenon, <1>2, <1>4 DEF RunPod, Phase
  <2>2. seen[p].phase # "gone"
    BY Zenon, <1>1, <1>4 DEF RunPod, ConnOk
  <2> QED BY Zenon, <1>1, <1>4, <2>1, <2>2, PodStep DEF RunPod
<1>5. CASE StopContainers(p)
  <2>1. PICK o \in PodObj : o.phase = "gone" /\ pod' = [pod EXCEPT ![p] = o]
    BY Zenon, <1>2, <1>5 DEF StopContainers, Phase
  <2> QED BY Zenon, <1>1, <1>5, <2>1, DownStep, DownProxyFields DEF StopContainers
<1>6. CASE ReadyPod(p)
  <2> DEFINE o == [pod[p] EXCEPT !.ready = TRUE]
  <2>1. o \in PodObj /\ o.phase = pod[p].phase /\ pod' = [pod EXCEPT ![p] = o]
    BY Zenon, <1>1, <1>6 DEF ReadyPod, PodObj
  <2> HIDE DEF o
  <2> QED BY ZenonT(60), <1>1, <1>6, <2>1, PodStep DEF ReadyPod, ConnOk
<1> QED BY Zenon, <1>3, <1>4, <1>5, <1>6 DEF ClusterStep

(* A stream breaks, or is refused.                                         *)
LEMMA BreakStep ==
  ASSUME DeliveryInv, NEW p \in Pod, stream' = [stream EXCEPT ![p] = Closed],
         UNCHANGED <<pod, proxy, seen, conn, hashExp, rec, config, dying>>
  PROVE  DeliveryInv'
<1> DEFINE s == stream[p]
           x == proxy[p]
<1>1. Closed \in Stream /\ Closed.state = "closed" /\ Closed.up = <<>> /\ Closed.down = <<>>
  BY DEF Closed, Stream
<1>2. pod' = [pod EXCEPT ![p] = pod[p]] /\ proxy' = [proxy EXCEPT ![p] = proxy[p]]
  BY Zenon DEF DeliveryInv, DeliveryType
<1>3. /\ ProxyOk(pod[p], s, x) /\ WholeOk(s, x) /\ ConnOk(pod[p], s, x, seen[p], conn[p], hashExp[p])
      /\ rec.pc = "act" => ActOk(s, x, conn[p], hashExp[p], rec.pods[p])
  BY Zenon, PodFacts
<1> HIDE DEF s, x
<1>4. ~ First(x, Closed) /\ (Alive(x, Closed) => Alive(x, s))
  BY Zenon, <1>1 DEF Alive, First
<1>5. Linked(Closed, x, conn[p]) => Linked(s, x, conn[p])
  BY Zenon, <1>1, <1>4 DEF Linked
<1>6. ProxyOk(pod[p], Closed, x)
  BY Zenon, <1>1, <1>3 DEF ProxyOk
<1>7. WholeOk(Closed, x)
  BY <1>1, <1>3 DEF WholeOk
<1>8. ConnOk(pod[p], Closed, x, seen[p], conn[p], hashExp[p])
  BY SMTT(30), <1>1, <1>3, <1>4, <1>5 DEF ConnOk, Chain
<1>9. rec.pc = "act" => ActOk(Closed, x, conn[p], hashExp[p], rec.pods[p])
  BY SMTT(30), <1>1, <1>3, <1>4, <1>5 DEF ActOk
<1> QED BY Zenon, <1>1, <1>2, <1>4, <1>6, <1>7, <1>8, <1>9, PodFacts, ProxySide DEF s, x

LEMMA StartProxyInv ==
  ASSUME DeliveryInv, NEW p \in Pod, StartProxy(p), UNCHANGED serverVars
  PROVE  DeliveryInv'
<1> DEFINE o == pod[p]
           s == stream[p]
           x == proxy[p]
           y == Started(x)
<1>1. /\ x \in ProxyType /\ s \in Stream /\ o \in PodObj
      /\ ProxyOk(o, s, x) /\ WholeOk(s, x) /\ ConnOk(o, s, x, seen[p], conn[p], hashExp[p])
      /\ rec.pc = "act" => ActOk(s, x, conn[p], hashExp[p], rec.pods[p])
  BY Zenon, PodFacts
<1>2. /\ pod' = [pod EXCEPT ![p] = o] /\ stream' = [stream EXCEPT ![p] = s] /\ proxy' = [proxy EXCEPT ![p] = y]
      /\ o.phase \in {"running", "terminating"} /\ ~ x.up
      /\ UNCHANGED <<seen, conn, hashExp, rec, config, dying>>
  BY Zenon DEF DeliveryInv, DeliveryType, StartProxy, serverVars
<1>3. /\ y \in ProxyType /\ y.up = TRUE /\ y.half = x.half /\ y.serving = x.serving
      /\ x.expectedFile.hash = None =>
            y.current = x.currentFile /\ y.expected = x.expected /\ y.currentFile = x.currentFile /\ y.expectedFile = x.expectedFile
      /\ x.expectedFile.hash # None =>
            /\ y.expected = x.expectedFile /\ y.expectedFile = x.expectedFile
            /\ x.currentFile.hash \in {None, x.expectedFile.hash} =>
                  /\ y.current = x.expectedFile /\ y.currentFile.hash = x.expectedFile.hash
                  /\ y.currentFile.limits = x.currentFile.limits \cup x.expectedFile.limits
            /\ x.currentFile.hash \notin {None, x.expectedFile.hash} => y.current = x.currentFile /\ y.currentFile = x.currentFile
  BY Zenon, <1>1, StartedFields
<1> HIDE DEF o, s, x, y
<1>4. ~ x.half /\ ~ x.serving /\ s.state = "closed" /\ s.down = <<>> /\ s.up = <<>> /\ x.expected.hash = None
  BY Zenon, <1>1, <1>2 DEF ProxyOk
<1>5. ~ Alive(y, s) /\ ~ First(y, s) /\ ~ Linked(s, y, conn[p])
  BY Zenon, <1>3, <1>4 DEF Alive, First, Linked
<1>6. ProxyOk(o, s, y)
  BY Zenon, <1>1, <1>2, <1>3, <1>4 DEF ProxyOk
<1>7. WholeOk(s, y)
  <2>1. CASE x.expectedFile.hash = None
    BY Zenon, <1>1, <1>3, <1>4, <2>1 DEF WholeOk, ProxyOk
  <2>2. CASE x.expectedFile.hash # None /\ x.currentFile.hash \in {None, x.expectedFile.hash}
    BY Zenon, <1>1, <1>3, <1>4, <2>2 DEF WholeOk
  <2>3. CASE x.expectedFile.hash # None /\ x.currentFile.hash \notin {None, x.expectedFile.hash}
    BY <1>1, <1>3, <1>4, <2>3 DEF WholeOk
  <2> QED BY Zenon, <2>1, <2>2, <2>3
<1>8. ConnOk(o, s, y, seen[p], conn[p], hashExp[p])
  BY <1>1, <1>4, <1>5 DEF ConnOk
<1>9. rec.pc = "act" => ActOk(s, y, conn[p], hashExp[p], rec.pods[p])
  BY Zenon, <1>1, <1>4, <1>5 DEF ActOk
<1> QED BY Zenon, <1>1, <1>2, <1>3, <1>5, <1>6, <1>7, <1>8, <1>9, ProxySide

(* What the proxy reports.                                                 *)
LEMMA StatusFacts ==
  ASSUME NEW x \in ProxyType, NEW o, NEW s, ProxyOk(o, s, x), x.up
  PROVE  /\ GetStatus(x) \in Status /\ StatusOk(GetStatus(x)) /\ GetStatus(x).cur \in {None, x.current.hash}
         /\ ~ x.half \/ x.serving => GetStatus(x).exp = x.expected.hash
<1>1. CASE x.current.hash = None
  BY Zenon, <1>1 DEF GetStatus, NoMeta, Status, StatusOk, ProxyOk
<1>2. CASE x.current.hash # None
  <2>1. GetStatus(x) = [exp |-> x.expected.hash, cur |-> x.current.hash, lead |-> x.lead]
    BY Zenon, <1>2 DEF GetStatus
  <2> QED BY <1>2, <2>1 DEF Status, StatusOk, ProxyOk, ProxyType, SpecType
<1> QED BY Zenon, <1>1, <1>2

LEMMA ConnectInv ==
  ASSUME DeliveryInv, NEW p \in Pod, Connect(p), UNCHANGED serverVars
  PROVE  DeliveryInv'
<1> DEFINE o == pod[p]
           s == stream[p]
           x == proxy[p]
           g == GetStatus(x)
           t == [Closed EXCEPT !.state = "new", !.up = <<g>>]
           y == [x EXCEPT !.prev = NoMeta]
<1>1. /\ x \in ProxyType /\ s \in Stream /\ o \in PodObj
      /\ ProxyOk(o, s, x) /\ WholeOk(s, x) /\ ConnOk(o, s, x, seen[p], conn[p], hashExp[p])
      /\ rec.pc = "act" => ActOk(s, x, conn[p], hashExp[p], rec.pods[p])
  BY Zenon, PodFacts
<1>2. /\ pod' = [pod EXCEPT ![p] = o] /\ stream' = [stream EXCEPT ![p] = t] /\ proxy' = [proxy EXCEPT ![p] = y]
      /\ x.up /\ ~ x.half /\ s.state = "closed"
      /\ UNCHANGED <<seen, conn, hashExp, rec, config, dying>>
  BY Zenon DEF DeliveryInv, DeliveryType, Connect, serverVars
<1>3. NoMeta \in Status
  BY Zenon DEF NoMeta, Status
<1>4. /\ g \in Status /\ StatusOk(g) /\ g.cur \in {None, x.current.hash} /\ g.exp = x.expected.hash
  BY Zenon, <1>1, <1>2, StatusFacts
<1> HIDE DEF o, s, x, g
<1>5. t \in Stream /\ t.state = "new" /\ t.up = <<g>> /\ t.down = <<>>
  <2> DEFINE u == <<g>>
  <2>1. u \in Seq(Status) /\ Closed \in Stream /\ Closed.down = <<>>
    BY <1>4 DEF Closed, Stream
  <2>2. t = [Closed EXCEPT !.state = "new", !.up = u] /\ u = <<g>>
    BY Zenon
  <2> HIDE DEF u, t
  <2> QED BY Zenon, <2>1, <2>2 DEF Stream
<1>6. /\ y \in ProxyType /\ y.up = x.up /\ y.half = x.half /\ y.serving = x.serving /\ y.expected = x.expected
      /\ y.current = x.current /\ y.expectedFile = x.expectedFile /\ y.currentFile = x.currentFile
  BY Zenon, <1>1, <1>3 DEF ProxyType
<1> HIDE DEF t, y
<1>7. s.down = <<>> /\ s.up = <<>>
  BY Zenon, <1>1, <1>2 DEF ProxyOk
<1>8. (Alive(y, t) => Alive(x, s)) /\ ~ First(y, t) /\ SavedOf(y) = SavedOf(x)
  BY Zenon, <1>5, <1>6 DEF Alive, First, SavedOf
<1>9. Linked(t, y, conn[p]) => Linked(s, x, conn[p])
  BY Zenon, <1>5, <1>8 DEF Linked
<1>10. ProxyOk(o, t, y)
  BY Zenon, <1>1, <1>2, <1>5, <1>6 DEF ProxyOk
<1>11. WholeOk(t, y)
  BY <1>1, <1>5, <1>6, <1>7 DEF WholeOk
<1>12. ConnOk(o, t, y, seen[p], conn[p], hashExp[p])
  <2>1. \A i \in DOMAIN t.up : t.up[i] = g
    BY <1>5
  <2> QED BY Zenon, <1>1, <1>2, <1>4, <1>5, <1>6, <1>8, <1>9, <2>1 DEF ConnOk
<1>13. rec.pc = "act" => ActOk(t, y, conn[p], hashExp[p], rec.pods[p])
  BY SMTT(30), <1>1, <1>5, <1>6, <1>8, <1>9 DEF ActOk
<1>14. Will(y, hashExp[p]) = Will(x, hashExp[p])
  BY Zenon, <1>8 DEF Will
<1> QED BY Zenon, <1>1, <1>2, <1>5, <1>6, <1>8, <1>10, <1>11, <1>12, <1>13, <1>14, ProxySide DEF x, s

(* A proxy whose first spec is on its way has none, and the manager awaits *)
(* its report of that spec.                                                *)
LEMMA FirstFacts ==
  ASSUME DeliveryInv, NEW p \in Pod, First(proxy[p], stream[p])
  PROVE  /\ hashExp[p] \in Hash /\ \A i \in DOMAIN stream[p].down : stream[p].down[i] = hashExp[p]
         /\ conn[p].status.exp = None /\ conn[p].up /\ proxy[p].current.hash = None /\ proxy[p].expected.hash = None
<1> DEFINE s == stream[p]
           x == proxy[p]
           c == conn[p]
           h == hashExp[p]
<1>1. /\ s \in Stream /\ ProxyOk(pod[p], s, x) /\ ConnOk(pod[p], s, x, seen[p], c, h) /\ First(x, s) /\ h \in Hash \cup {None}
  BY Zenon, PodFacts
<1> HIDE DEF s, x, c, h
<1>2. s.down \in Seq(Hash) /\ s.down # <<>> /\ s.state = "open" /\ x.up /\ x.expected.hash = None /\ x.current.hash = None
  BY Zenon, <1>1 DEF Stream, First, SavedOf, ProxyOk
<1>3. 1 \in DOMAIN s.down /\ \A i \in DOMAIN s.down : s.down[i] \in Hash
  BY <1>2
<1>4. Linked(s, x, c) /\ c.up
  BY Zenon, <1>1, <1>2 DEF ConnOk, Linked
<1>5. Chain(c.status.exp, s.up, None, s.down, Awaited(c, h))
  BY Zenon, <1>1, <1>2, <1>4 DEF ConnOk
<1>6. c.status.exp = None /\ h # None /\ \A i \in DOMAIN s.down : s.down[i] = h
  BY Zenon, <1>3, <1>5, NoneAssumption DEF Chain, Awaited
<1> QED BY Zenon, <1>1, <1>2, <1>4, <1>6 DEF s, x, c, h

LEMMA RecvSpecInv ==
  ASSUME DeliveryInv, NEW p \in Pod, RecvSpec(p), UNCHANGED serverVars
  PROVE  DeliveryInv'
<1> DEFINE o == pod[p]
           s == stream[p]
           x == proxy[p]
           c == conn[p]
           h == hashExp[p]
           b == Head(s.down)
           t == [s EXCEPT !.down = Tail(s.down)]
           e == Expect(x, ProxySpec(b))
           y == [e EXCEPT !.half = TRUE]
<1>1. /\ x \in ProxyType /\ s \in Stream /\ o \in PodObj
      /\ ProxyOk(o, s, x) /\ WholeOk(s, x) /\ ConnOk(o, s, x, seen[p], c, h)
      /\ rec.pc = "act" => ActOk(s, x, c, h, rec.pods[p])
  BY Zenon, PodFacts
<1>2. /\ pod' = [pod EXCEPT ![p] = o] /\ stream' = [stream EXCEPT ![p] = t] /\ proxy' = [proxy EXCEPT ![p] = y]
      /\ x.up /\ ~ x.half /\ s.down # <<>>
      /\ UNCHANGED <<seen, conn, hashExp, rec, config, dying>>
  BY Zenon DEF DeliveryInv, DeliveryType, RecvSpec, serverVars
<1>3. First(x, s) => h \in Hash /\ \A i \in DOMAIN s.down : s.down[i] = h
  BY Zenon, FirstFacts
<1> HIDE DEF o, s, x, c, h
<1>4. /\ b = s.down[1] /\ 1 \in DOMAIN s.down /\ b \in Hash /\ Tail(s.down) \in Seq(Hash)
      /\ \A i \in DOMAIN Tail(s.down) : i + 1 \in DOMAIN s.down /\ Tail(s.down)[i] = s.down[i + 1]
  <2>1. s.down \in Seq(Hash)
    BY Zenon, <1>1 DEF Stream
  <2> QED BY Zenon, <1>2, <2>1, HeadTail
<1>5. t \in Stream /\ t.state = s.state /\ t.up = s.up /\ t.down = Tail(s.down)
  BY Zenon, <1>1, <1>4 DEF Stream
<1> HIDE DEF b, t
<1>6. ProxySpec(b) \in SpecType /\ ProxySpec(b).hash = b /\ ProxySpec(b).limits = {b}
  BY Zenon, <1>4 DEF ProxySpec, SpecType
<1>7. /\ e \in ProxyType /\ e.expected = ProxySpec(b)
      /\ e.expectedFile = [hash |-> b, limits |-> x.expectedFile.limits \cup {b}]
      /\ e.up = x.up /\ e.half = x.half /\ e.serving = x.serving /\ e.current = x.current /\ e.currentFile = x.currentFile
  BY <1>1, <1>6, ExpectFields
<1> HIDE DEF e
<1>8. /\ y \in ProxyType /\ y.up = TRUE /\ y.half = TRUE /\ y.serving = x.serving /\ y.current = x.current
      /\ y.currentFile = x.currentFile /\ y.expected.hash = b /\ y.expected.limits = {b}
      /\ y.expectedFile.hash = b /\ y.expectedFile.limits = x.expectedFile.limits \cup {b}
  <2>1. /\ y \in ProxyType /\ y.up = e.up /\ y.half = TRUE /\ y.serving = e.serving /\ y.current = e.current
        /\ y.currentFile = e.currentFile /\ y.expected = e.expected /\ y.expectedFile = e.expectedFile
    <3>1. e \in ProxyType
      BY Zenon, <1>7
    <3> QED BY Zenon, <3>1 DEF ProxyType
  <2>2. x.up = TRUE
    BY Zenon, <1>1, <1>2 DEF ProxyType
  <2> HIDE DEF y
  <2> QED BY <1>6, <1>7, <2>1, <2>2
<1> HIDE DEF y
<1>9. /\ s.state = "open" /\ b # None /\ x.current.hash = x.currentFile.hash /\ x.expected.hash = x.expectedFile.hash
      /\ c.up /\ ~ c.disconnected /\ (x.currentFile.hash = None => x.expectedFile.hash = None)
  BY Zenon, <1>1, <1>2, <1>4, NoneAssumption DEF ProxyOk, ConnOk
<1>10. Alive(x, s) /\ Linked(s, x, c) /\ Linked(t, y, c) /\ ~ First(y, t)
  BY Zenon, <1>2, <1>5, <1>8, <1>9 DEF Alive, Linked, First, SavedOf
<1>11. Chain(c.status.exp, s.up, x.expected.hash, s.down, Awaited(c, h))
  BY Zenon, <1>1, <1>9, <1>10 DEF ConnOk
<1>12. Chain(c.status.exp, s.up, b, Tail(s.down), Awaited(c, h))
  <2>1. s.up \in Seq(Status) /\ s.down \in Seq(Hash)
    BY Zenon, <1>1 DEF Stream
  <2> QED BY Zenon, <1>2, <1>11, <2>1, ChainRecvSpec DEF b
<1>13. x.expected.hash # b => \A i \in DOMAIN Tail(s.down) : Tail(s.down)[i] = b
  BY Zenon, <1>4, <1>11, <1>12 DEF Chain
<1>14. x.current.hash # None /\ x.current.hash # x.expected.hash =>
          x.expected.hash = b /\ \A i \in DOMAIN Tail(s.down) : Tail(s.down)[i] = b
  BY Zenon, <1>1, <1>4 DEF WholeOk
<1>15. ProxyOk(o, t, y)
  BY Zenon, <1>1, <1>2, <1>5, <1>8, <1>9 DEF ProxyOk
<1>16. WholeOk(t, y)
  <2>1. x.currentFile.hash \in {None, b} => x.expectedFile.limits \cup {b} = {b}
    BY Zenon, <1>1, <1>9, <1>14 DEF WholeOk
  <2>2. x.current.hash # None /\ x.current.hash # b => \A i \in DOMAIN t.down : t.down[i] = b
    BY Zenon, <1>5, <1>13, <1>14
  <2> QED BY <1>1, <1>8, <1>9, <2>1, <2>2 DEF WholeOk
<1>17. ConnOk(o, t, y, seen[p], c, h)
  BY Zenon, <1>1, <1>5, <1>8, <1>9, <1>10, <1>12 DEF ConnOk
<1>18. rec.pc = "act" => ActOk(t, y, c, h, rec.pods[p])
  BY ZenonT(60), <1>1, <1>4, <1>5, <1>8, <1>10 DEF ActOk
<1>19. Will(y, h) = Will(x, h)
  <2>1. x.currentFile.hash = None => First(x, s)
    BY Zenon, <1>2, <1>9 DEF First, SavedOf
  <2> QED BY Zenon, <1>3, <1>4, <1>8, <1>9, <2>1 DEF Will, SavedOf
<1> QED BY Zenon, <1>1, <1>2, <1>5, <1>8, <1>10, <1>15, <1>16, <1>17, <1>18, <1>19, ProxySide DEF x, s, c, h

LEMMA LoadSpecInv ==
  ASSUME DeliveryInv, NEW p \in Pod, LoadSpec(p), UNCHANGED serverVars
  PROVE  DeliveryInv'
<1> DEFINE o == pod[p]
           s == stream[p]
           x == proxy[p]
           c == conn[p]
           h == hashExp[p]
           r == (o.phase = "running")
           w == [o EXCEPT !.ready = r]
           l == Load(x)
           y == [l EXCEPT !.half = FALSE, !.serving = TRUE]
<1>1. /\ x \in ProxyType /\ s \in Stream /\ o \in PodObj
      /\ ProxyOk(o, s, x) /\ WholeOk(s, x) /\ ConnOk(o, s, x, seen[p], c, h)
      /\ rec.pc = "act" => ActOk(s, x, c, h, rec.pods[p])
  BY Zenon, PodFacts
<1>2. /\ pod' = [pod EXCEPT ![p] = w] /\ stream' = [stream EXCEPT ![p] = s] /\ proxy' = [proxy EXCEPT ![p] = y]
      /\ x.half /\ r \in BOOLEAN
      /\ UNCHANGED <<seen, conn, hashExp, rec, config, dying>>
  BY Zenon DEF DeliveryInv, DeliveryType, LoadSpec, serverVars
<1> HIDE DEF o, s, x, c, h, r
<1>3. w \in PodObj /\ w.phase = o.phase
  BY Zenon, <1>1, <1>2 DEF PodObj
<1> HIDE DEF w
<1>4. /\ l \in ProxyType /\ l.expected = x.expected /\ l.expectedFile = x.expectedFile /\ l.up = x.up
      /\ checkLoadable(x) => l.current = x.expected /\ l.currentFile = [hash |-> x.expected.hash, limits |-> x.currentFile.limits \cup x.expected.limits]
      /\ ~ checkLoadable(x) => l = x
  BY Zenon, <1>1, LoadFields
<1> HIDE DEF l
<1>5. /\ y \in ProxyType /\ y.half = FALSE /\ y.serving = TRUE /\ y.up = l.up /\ y.expected = l.expected
      /\ y.expectedFile = l.expectedFile /\ y.current = l.current /\ y.currentFile = l.currentFile
  <2>1. l \in ProxyType
    BY Zenon, <1>4
  <2> QED BY Zenon, <2>1 DEF ProxyType
<1> HIDE DEF y
<1>6. /\ x.up /\ x.expected.hash # None /\ x.current.hash = x.currentFile.hash /\ x.expected.hash = x.expectedFile.hash
      /\ x.expected.limits = {x.expected.hash} /\ s.state # "new"
  BY Zenon, <1>1, <1>2 DEF ProxyOk, WholeOk
<1>7. /\ y.up /\ y.expected = x.expected /\ y.expectedFile = x.expectedFile
      /\ checkLoadable(x) => /\ y.current = x.expected /\ y.currentFile.hash = x.expected.hash
                             /\ y.currentFile.limits = x.currentFile.limits \cup {x.expected.hash}
      /\ ~ checkLoadable(x) => y.current = x.current /\ y.currentFile = x.currentFile /\ x.current.hash # None /\ x.current.hash # x.expected.hash
  BY <1>4, <1>5, <1>6 DEF checkLoadable
<1>8. Alive(x, s) /\ SavedOf(y) = SavedOf(x) /\ ~ First(y, s) /\ (Linked(s, y, c) => Linked(s, x, c))
  BY Zenon, <1>2, <1>6, <1>7 DEF Alive, SavedOf, First, Linked, checkLoadable
<1>9. y.current.hash = x.current.hash \/ x.current.hash = None
  BY Zenon, <1>7 DEF checkLoadable
<1>10. ProxyOk(w, s, y)
  BY Zenon, <1>1, <1>3, <1>5, <1>6, <1>7 DEF ProxyOk
<1>11. WholeOk(s, y)
  <2>1. CASE checkLoadable(x)
    <3>1. x.currentFile.limits \cup {x.expected.hash} = {x.expected.hash}
      BY Zenon, <1>1, <1>6, <2>1 DEF WholeOk, checkLoadable
    <3> QED BY ZenonT(60), <1>1, <1>5, <1>6, <1>7, <2>1, <3>1 DEF WholeOk, checkLoadable
  <2>2. CASE ~ checkLoadable(x)
    BY ZenonT(60), <1>1, <1>5, <1>7, <2>2 DEF WholeOk
  <2> QED BY Zenon, <2>1, <2>2
<1>12. ConnOk(w, s, y, seen[p], c, h)
  BY Zenon, <1>1, <1>3, <1>6, <1>7, <1>8, <1>9 DEF ConnOk
<1>13. ASSUME rec.pc = "act" PROVE ActOk(s, y, c, h, rec.pods[p])
  <2>1. x.current.hash # None
    BY SMTT(30), <1>1, <1>6, <1>8, <1>13 DEF ActOk, StatusOk, NoMeta
  <2> QED BY Zenon, <1>1, <1>7, <1>8, <1>9, <1>13, <2>1 DEF ActOk
<1>14. Will(y, h) = Will(x, h)
  BY Zenon, <1>8 DEF Will
<1> QED BY Zenon, <1>1, <1>2, <1>3, <1>5, <1>8, <1>10, <1>11, <1>12, <1>13, <1>14, ProxySide DEF x, s, c, h

LEMMA SendStatusInv ==
  ASSUME DeliveryInv, NEW p \in Pod, SendStatus(p), UNCHANGED serverVars
  PROVE  DeliveryInv'
<1> DEFINE o == pod[p]
           s == stream[p]
           x == proxy[p]
           c == conn[p]
           h == hashExp[p]
           g == GetStatus(x)
           u == Append(s.up, g)
           t == [s EXCEPT !.up = u]
           y == [x EXCEPT !.prev = g]
<1>1. /\ x \in ProxyType /\ s \in Stream /\ o \in PodObj
      /\ ProxyOk(o, s, x) /\ WholeOk(s, x) /\ ConnOk(o, s, x, seen[p], c, h)
      /\ rec.pc = "act" => ActOk(s, x, c, h, rec.pods[p])
  BY Zenon, PodFacts
<1>2. /\ pod' = [pod EXCEPT ![p] = o] /\ stream' = [stream EXCEPT ![p] = t] /\ proxy' = [proxy EXCEPT ![p] = y]
      /\ x.up /\ x.serving /\ s.state # "closed"
      /\ UNCHANGED <<seen, conn, hashExp, rec, config, dying>>
  BY Zenon DEF DeliveryInv, DeliveryType, SendStatus, serverVars
<1>3. /\ g \in Status /\ StatusOk(g) /\ g.cur \in {None, x.current.hash} /\ g.exp = x.expected.hash
  BY Zenon, <1>1, <1>2, StatusFacts
<1> HIDE DEF o, s, x, c, h, g
<1>4. s.up \in Seq(Status)
  BY Zenon, <1>1 DEF Stream
<1>5. u \in Seq(Status) /\ \A i \in DOMAIN u : (i \in DOMAIN s.up /\ u[i] = s.up[i]) \/ u[i] = g
  BY Zenon, <1>3, <1>4, Appending
<1>6. Chain(c.status.exp, s.up, x.expected.hash, s.down, Awaited(c, h)) => Chain(c.status.exp, u, x.expected.hash, s.down, Awaited(c, h))
  BY Zenon, <1>3, <1>4, ChainSendStatus
<1> HIDE DEF u
<1>7. t \in Stream /\ t.state = s.state /\ t.up = u /\ t.down = s.down
  BY Zenon, <1>1, <1>5 DEF Stream
<1>8. /\ y \in ProxyType /\ y.up = x.up /\ y.half = x.half /\ y.serving = x.serving /\ y.expected = x.expected
      /\ y.current = x.current /\ y.expectedFile = x.expectedFile /\ y.currentFile = x.currentFile
  BY Zenon, <1>1, <1>3 DEF ProxyType
<1> HIDE DEF t, y
<1>9. /\ Alive(y, t) = Alive(x, s) /\ First(y, t) = First(x, s) /\ SavedOf(y) = SavedOf(x) /\ Linked(t, y, c) = Linked(s, x, c)
  BY Zenon, <1>7, <1>8 DEF Alive, First, SavedOf, Linked
<1>10. ProxyOk(o, t, y)
  BY Zenon, <1>1, <1>2, <1>7, <1>8 DEF ProxyOk
<1>11. WholeOk(t, y)
  BY Zenon, <1>1, <1>7, <1>8 DEF WholeOk
<1>12. ConnOk(o, t, y, seen[p], c, h)
  BY Zenon, <1>1, <1>3, <1>5, <1>6, <1>7, <1>8, <1>9 DEF ConnOk
<1>13. rec.pc = "act" => ActOk(t, y, c, h, rec.pods[p])
  BY Zenon, <1>1, <1>7, <1>8, <1>9 DEF ActOk
<1>14. Will(y, h) = Will(x, h)
  BY Zenon, <1>9 DEF Will
<1> QED BY Zenon, <1>1, <1>2, <1>7, <1>8, <1>9, <1>10, <1>11, <1>12, <1>13, <1>14, ProxySide DEF x, s, c, h

LEMMA ElectInv ==
  ASSUME DeliveryInv, NEW p \in Pod, UpdateLeaderElection(p), UNCHANGED serverVars
  PROVE  DeliveryInv'
<1> DEFINE o == pod[p]
           s == stream[p]
           x == proxy[p]
           c == conn[p]
           h == hashExp[p]
           y == [x EXCEPT !.lead = TRUE]
<1>1. /\ x \in ProxyType /\ s \in Stream /\ o \in PodObj
      /\ ProxyOk(o, s, x) /\ WholeOk(s, x) /\ ConnOk(o, s, x, seen[p], c, h)
      /\ rec.pc = "act" => ActOk(s, x, c, h, rec.pods[p])
  BY Zenon, PodFacts
<1>2. /\ pod' = [pod EXCEPT ![p] = o] /\ stream' = [stream EXCEPT ![p] = s] /\ proxy' = [proxy EXCEPT ![p] = y]
      /\ UNCHANGED <<seen, conn, hashExp, rec, config, dying>>
  BY Zenon DEF DeliveryInv, DeliveryType, UpdateLeaderElection, serverVars
<1> HIDE DEF o, s, x, c, h
<1>3. /\ y \in ProxyType /\ y.up = x.up /\ y.half = x.half /\ y.serving = x.serving /\ y.expected = x.expected
      /\ y.current = x.current /\ y.expectedFile = x.expectedFile /\ y.currentFile = x.currentFile
  BY Zenon, <1>1 DEF ProxyType
<1> HIDE DEF y
<1>4. /\ Alive(y, s) = Alive(x, s) /\ First(y, s) = First(x, s) /\ SavedOf(y) = SavedOf(x) /\ Linked(s, y, c) = Linked(s, x, c)
  BY Zenon, <1>3 DEF Alive, First, SavedOf, Linked
<1>5. ProxyOk(o, s, y) /\ WholeOk(s, y)
  BY Zenon, <1>1, <1>3 DEF ProxyOk, WholeOk
<1>6. ConnOk(o, s, y, seen[p], c, h)
  BY Zenon, <1>1, <1>3, <1>4 DEF ConnOk
<1>7. rec.pc = "act" => ActOk(s, y, c, h, rec.pods[p])
  BY Zenon, <1>1, <1>3, <1>4 DEF ActOk
<1>8. Will(y, h) = Will(x, h)
  BY Zenon, <1>4 DEF Will
<1> QED BY Zenon, <1>1, <1>2, <1>3, <1>4, <1>5, <1>6, <1>7, <1>8, ProxySide DEF x, s, c, h

LEMMA CrashInv ==
  ASSUME DeliveryInv, NEW p \in Pod, NEW keep \in BOOLEAN, CrashProxy(p, keep), UNCHANGED serverVars
  PROVE  DeliveryInv'
<1> DEFINE o == pod[p]
           x == proxy[p]
           f == x.expectedFile
           k == x.currentFile
           w == [o EXCEPT !.ready = FALSE]
           z == [DownProxy EXCEPT !.expectedFile = f, !.currentFile = k]
           y == IF keep THEN z ELSE DownProxy
<1>1. /\ x \in ProxyType /\ o \in PodObj /\ f \in SpecType /\ k \in SpecType
      /\ ProxyOk(o, stream[p], x) /\ WholeOk(stream[p], x) /\ ConnOk(o, stream[p], x, seen[p], conn[p], hashExp[p])
  BY Zenon, PodFacts DEF ProxyType
<1>2. /\ pod' = [pod EXCEPT ![p] = w] /\ stream' = [stream EXCEPT ![p] = Closed] /\ proxy' = [proxy EXCEPT ![p] = y]
      /\ UNCHANGED <<seen, conn, hashExp, rec, config, dying>>
  BY Zenon DEF DeliveryInv, DeliveryType, CrashProxy, serverVars
<1>3. /\ k.hash # None => f.hash # None
      /\ k.limits = {k.hash} \ {None}
      /\ k.hash \in {None, f.hash} => f.limits = {f.hash} \ {None}
  BY Zenon, <1>1 DEF ProxyOk, WholeOk
<1> HIDE DEF o, x, f, k
<1>4. w \in PodObj /\ w.phase = o.phase
  BY Zenon, <1>1 DEF PodObj
<1>5. /\ z \in ProxyType /\ z.up = DownProxy.up /\ z.serving = DownProxy.serving /\ z.half = DownProxy.half
      /\ z.expected = DownProxy.expected /\ z.current = DownProxy.current /\ z.expectedFile = f /\ z.currentFile = k
  BY Zenon, <1>1, DownProxyFields DEF ProxyType
<1> HIDE DEF w, z
<1>6. /\ y \in ProxyType /\ ~ y.up /\ ~ y.serving /\ ~ y.half /\ y.expected.hash = None /\ y.current.hash = None /\ y.current.limits = {}
      /\ y.currentFile.hash # None => y.expectedFile.hash # None
      /\ y.currentFile.limits = {y.currentFile.hash} \ {None}
      /\ y.currentFile.hash \in {None, y.expectedFile.hash} => y.expectedFile.limits = {y.expectedFile.hash} \ {None}
  BY Zenon, <1>3, <1>5, DownProxyFields
<1> HIDE DEF y
<1>7. (seen[p].phase # "absent" => w.phase # "absent") /\ (seen[p].phase = "gone" => w.phase = "gone")
  BY Zenon, <1>1, <1>4 DEF ConnOk
<1> QED BY Zenon, <1>2, <1>4, <1>6, <1>7, DownStep

-----------------------------------------------------------------------------
(* Steps of the manager about one Pod.                                     *)
LEMMA ObservePodInv ==
  ASSUME DeliveryInv, NEW p \in Pod, ObservePod(p), UNCHANGED proxy
  PROVE  DeliveryInv'
<1> DEFINE o == pod[p]
           s == stream[p]
           x == proxy[p]
           c == conn[p]
           h == hashExp[p]
           k == IF Exists(o) THEN h ELSE None
<1>1. /\ x \in ProxyType /\ s \in Stream /\ o \in PodObj /\ c \in ConnType /\ h \in Hash \cup {None} /\ rec.pods[p] \in SyncPod
      /\ rec \in RecType /\ dying = {} /\ ProxyOk(o, s, x) /\ ConnOk(o, s, x, seen[p], c, h)
      /\ rec.pc = "act" => ActOk(s, x, c, h, rec.pods[p])
  BY Zenon, PodFacts
<1>2. /\ stream' = [stream EXCEPT ![p] = s] /\ seen' = [seen EXCEPT ![p] = o] /\ conn' = [conn EXCEPT ![p] = c]
      /\ hashExp' = [hashExp EXCEPT ![p] = k] /\ rec' = rec /\ rec.pods = [rec.pods EXCEPT ![p] = rec.pods[p]]
      /\ UNCHANGED <<pod, proxy, config, dying>>
  BY Zenon DEF DeliveryInv, DeliveryType, ObservePod
<1> HIDE DEF o, s, x, c, h
<1>3. x.up => k = h
  BY Zenon, <1>1 DEF ProxyOk, Exists
<1>4. k \in Hash \cup {None}
  BY Zenon, <1>1
<1> HIDE DEF k
<1>5. (s.state = "open" \/ Alive(x, s) => x.up) /\ (Linked(s, x, c) => x.up)
  BY Zenon, <1>1 DEF ProxyOk, Alive, Linked
<1>6. ConnOk(o, s, x, o, c, k)
  BY Zenon, <1>1, <1>3, <1>5 DEF ConnOk
<1>7. rec.pc = "act" => ActOk(s, x, c, k, rec.pods[p])
  BY Zenon, <1>1, <1>3, <1>5 DEF ActOk
<1>8. s.down # <<>> => k = h
  BY Zenon, <1>1, <1>3 DEF ProxyOk
<1> QED BY Zenon, <1>1, <1>2, <1>4, <1>6, <1>7, <1>8, ServerSide DEF o, s, x, c, h

(* The end of the stream before was noticed: the connection is not taken   *)
(* from one that is still up.                                              *)
LEMMA ServeInv ==
  ASSUME Undisturbed, DeliveryInv, NEW p \in Pod, Serve(p)
  PROVE  DeliveryInv'
<1> DEFINE o == pod[p]
           s == stream[p]
           x == proxy[p]
           g == Head(s.up)
           c == [NoConn EXCEPT !.up = TRUE, !.status = g]
           t == [s EXCEPT !.state = "open", !.up = Tail(s.up)]
           r == rec.pods[p]
           rp == [r EXCEPT !.fresh = FALSE]
<1>1. /\ x \in ProxyType /\ s \in Stream /\ o \in PodObj /\ r \in SyncPod
      /\ rec \in RecType /\ dying = {} /\ ProxyOk(o, s, x) /\ ConnOk(o, s, x, seen[p], conn[p], hashExp[p])
      /\ rec.pc = "act" => ActOk(s, x, conn[p], hashExp[p], r)
  BY Zenon, PodFacts
<1>2. CASE ~ IsPodActive(seen[p])
  BY Zenon, <1>2, BreakStep DEF Serve, Register
<1>3. CASE IsPodActive(seen[p])
  <2>1. ~ conn[p].up \/ conn[p].disconnected
    BY Zenon DEF Undisturbed, Serve
  <2>2. /\ stream' = [stream EXCEPT ![p] = t] /\ seen' = [seen EXCEPT ![p] = seen[p]] /\ conn' = [conn EXCEPT ![p] = c]
        /\ hashExp' = [hashExp EXCEPT ![p] = None] /\ UNCHANGED <<pod, proxy, config>> /\ dying' = {}
        /\ s.state = "new" /\ s.up # <<>>
    <3>1. stream' = [stream EXCEPT ![p].state = "open", ![p].up = Tail(@)] /\ stream \in [Pod -> Stream]
      BY Zenon, <1>3 DEF Serve, Register, DeliveryInv, DeliveryType
    <3>2. stream' = [stream EXCEPT ![p] = t]
      BY Zenon, <3>1
    <3> QED BY Zenon, <1>1, <1>3, <2>1, <3>2 DEF DeliveryInv, DeliveryType, Serve, Register
  <2>3. /\ rec' \in RecType /\ rec'.pc = rec.pc /\ rec'.spec = rec.spec /\ rec'.pods = [rec.pods EXCEPT ![p] = rp]
        /\ rp \in SyncPod /\ rp.synced = r.synced /\ rp.status = r.status /\ rp.fresh = FALSE
    <3>1. rp \in SyncPod /\ rp.synced = r.synced /\ rp.status = r.status /\ rp.fresh = FALSE
      BY Zenon, <1>1 DEF SyncPod
    <3>2. rec' = [rec EXCEPT !.pods[p].fresh = FALSE]
      BY Zenon, <1>3 DEF Serve, Register
    <3>3. rec' = [rec EXCEPT !.pods = [rec.pods EXCEPT ![p] = rp]]
      BY Zenon, <1>1, <3>2 DEF RecType
    <3> HIDE DEF rp
    <3> QED BY Zenon, <1>1, <3>1, <3>3 DEF RecType
  <2> HIDE DEF o, s, x, rp, r
  <2>4. s.up \in Seq(Status)
    BY Zenon, <1>1 DEF Stream
  <2>5. /\ g = s.up[1] /\ 1 \in DOMAIN s.up /\ g \in Status /\ Tail(s.up) \in Seq(Status)
        /\ \A i \in DOMAIN Tail(s.up) : i + 1 \in DOMAIN s.up /\ Tail(s.up)[i] = s.up[i + 1]
    BY Zenon, <2>2, <2>4, HeadTail
  <2>6. t \in Stream /\ t.state = "open" /\ t.up = Tail(s.up) /\ t.down = s.down
    BY Zenon, <1>1, <2>5 DEF Stream
  <2> HIDE DEF g, t
  <2>7. c \in ConnType /\ c.up = TRUE /\ c.disconnected = FALSE /\ c.status = g
    <3>1. NoConn \in ConnType /\ NoConn.disconnected = FALSE
      BY Zenon DEF NoConn, ConnType, NoMeta, Status
    <3> QED BY Zenon, <2>5, <3>1 DEF ConnType
  <2> HIDE DEF c
  <2>8. s.down = <<>> /\ x.up
    BY Zenon, <1>1, <2>2 DEF ProxyOk
  <2>9. Alive(x, t) = Alive(x, s)
    BY Zenon, <2>6 DEF Alive
  <2>10. /\ \A i \in DOMAIN s.up : s.up[i].exp = x.expected.hash /\ StatusOk(s.up[i]) /\ s.up[i].cur \in {None, x.current.hash}
         /\ seen[p].phase # "absent" => o.phase # "absent"
         /\ seen[p].phase = "gone" => o.phase = "gone"
    BY Zenon, <1>1, <2>2 DEF ConnOk
  <2>11. Chain(c.status.exp, t.up, x.expected.hash, t.down, Awaited(c, None))
    BY <2>5, <2>6, <2>7, <2>8, <2>10 DEF Chain, Awaited
  <2>12. ProxyOk(o, t, x)
    BY Zenon, <1>1, <2>2, <2>6, <2>8 DEF ProxyOk
  <2>13. ConnOk(o, t, x, seen[p], c, None)
    BY <1>3, <2>5, <2>6, <2>7, <2>10, <2>11 DEF ConnOk, IsPodActive
  <2>14. rec.pc = "act" => ActOk(t, x, c, None, rp)
    BY ZenonT(60), <1>1, <2>3, <2>6, <2>8, <2>9 DEF ActOk
  <2> QED BY ZenonT(60), <1>1, <2>2, <2>3, <2>6, <2>7, <2>8, <2>12, <2>13, <2>14, PodFacts, ServerSide DEF o, s, x
<1> QED BY Zenon, <1>2, <1>3

LEMMA RecvStatusInv ==
  ASSUME DeliveryInv, NEW p \in Pod, RecvStatus(p), UNCHANGED proxy
  PROVE  DeliveryInv'
<1> DEFINE o == pod[p]
           s == stream[p]
           x == proxy[p]
           c == conn[p]
           h == hashExp[p]
           g == Head(s.up)
           d == [c EXCEPT !.status = g]
           t == [s EXCEPT !.up = Tail(s.up)]
<1>1. /\ x \in ProxyType /\ s \in Stream /\ o \in PodObj /\ c \in ConnType /\ h \in Hash \cup {None} /\ rec.pods[p] \in SyncPod
      /\ seen[p] \in PodObj
      /\ rec \in RecType /\ dying = {} /\ ProxyOk(o, s, x) /\ ConnOk(o, s, x, seen[p], c, h)
      /\ rec.pc = "act" => ActOk(s, x, c, h, rec.pods[p])
  BY Zenon, PodFacts
<1>2. /\ stream' = [stream EXCEPT ![p] = t] /\ seen' = [seen EXCEPT ![p] = seen[p]] /\ conn' = [conn EXCEPT ![p] = d]
      /\ hashExp' = [hashExp EXCEPT ![p] = h] /\ rec' = rec /\ rec.pods = [rec.pods EXCEPT ![p] = rec.pods[p]]
      /\ UNCHANGED <<pod, proxy, config, dying>> /\ s.state = "open" /\ s.up # <<>>
  BY Zenon DEF DeliveryInv, DeliveryType, RecvStatus
<1> HIDE DEF o, s, x, c, h
<1>3. s.up \in Seq(Status)
  BY Zenon, <1>1 DEF Stream
<1>4. /\ g = s.up[1] /\ 1 \in DOMAIN s.up /\ g \in Status /\ Tail(s.up) \in Seq(Status)
      /\ \A i \in DOMAIN Tail(s.up) : i + 1 \in DOMAIN s.up /\ Tail(s.up)[i] = s.up[i + 1]
  BY Zenon, <1>2, <1>3, HeadTail
<1>5. Linked(s, x, c) /\ Chain(c.status.exp, s.up, x.expected.hash, s.down, Awaited(c, h))
  BY Zenon, <1>1, <1>2 DEF ConnOk, Linked
<1>6. Chain(g.exp, Tail(s.up), x.expected.hash, s.down, Awaited(c, h))
  BY Zenon, <1>2, <1>3, <1>5, ChainRecvStatus
<1>7. t \in Stream /\ t.state = s.state /\ t.up = Tail(s.up) /\ t.down = s.down
  BY Zenon, <1>1, <1>4 DEF Stream
<1> HIDE DEF g, t
<1>8. d \in ConnType /\ d.status = g /\ d.up = c.up /\ d.disconnected = c.disconnected
  BY Zenon, <1>1, <1>4 DEF ConnType
<1> HIDE DEF d
<1>9. h = None => g.exp = c.status.exp
  BY Zenon, <1>4, <1>5 DEF Chain, Awaited
<1>10. Awaited(d, h) = Awaited(c, h)
  BY Zenon, <1>8, <1>9 DEF Awaited
<1>11. Alive(x, t) = Alive(x, s) /\ Linked(t, x, d) = Linked(s, x, c)
  BY Zenon, <1>7, <1>8 DEF Alive, Linked
<1>12. ProxyOk(o, t, x)
  BY Zenon, <1>1, <1>2, <1>7 DEF ProxyOk
<1>13. ConnOk(o, t, x, seen[p], d, h)
  BY SMTT(30), <1>1, <1>2, <1>4, <1>6, <1>7, <1>8, <1>10, <1>11 DEF ConnOk
<1>14. rec.pc = "act" => ActOk(t, x, d, h, rec.pods[p])
  BY Zenon, <1>1, <1>7, <1>8, <1>9, <1>11 DEF ActOk
<1> QED BY Zenon, <1>1, <1>2, <1>7, <1>8, <1>12, <1>13, <1>14, ServerSide DEF o, s, x, c, h

LEMMA TeardownInv ==
  ASSUME DeliveryInv, NEW p \in Pod, Teardown(p), UNCHANGED proxy
  PROVE  DeliveryInv'
<1> DEFINE o == pod[p]
           s == stream[p]
           x == proxy[p]
           c == conn[p]
           d == [c EXCEPT !.disconnected = TRUE]
<1>1. /\ x \in ProxyType /\ s \in Stream /\ o \in PodObj /\ c \in ConnType /\ rec.pods[p] \in SyncPod /\ seen[p] \in PodObj
      /\ rec \in RecType /\ dying = {} /\ ProxyOk(o, s, x) /\ ConnOk(o, s, x, seen[p], c, hashExp[p])
      /\ rec.pc = "act" => ActOk(s, x, c, hashExp[p], rec.pods[p])
  BY Zenon, PodFacts
<1>2. /\ stream' = [stream EXCEPT ![p] = s] /\ seen' = [seen EXCEPT ![p] = seen[p]] /\ conn' = [conn EXCEPT ![p] = d]
      /\ hashExp' = [hashExp EXCEPT ![p] = None] /\ rec' = rec /\ rec.pods = [rec.pods EXCEPT ![p] = rec.pods[p]]
      /\ UNCHANGED <<pod, proxy, config, dying>> /\ s.state # "open"
  BY Zenon DEF DeliveryInv, DeliveryType, Teardown, TornDown
<1> HIDE DEF o, s, x, c
<1>3. d \in ConnType /\ d.status = c.status /\ d.up = c.up /\ d.disconnected = TRUE
  BY Zenon, <1>1 DEF ConnType
<1> HIDE DEF d
<1>4. ~ Linked(s, x, d) /\ s.down = <<>>
  BY Zenon, <1>1, <1>2, <1>3 DEF Linked, ProxyOk
<1>5. ConnOk(o, s, x, seen[p], d, None)
  BY Zenon, <1>1, <1>2, <1>3, <1>4 DEF ConnOk
<1>6. rec.pc = "act" => ActOk(s, x, d, None, rec.pods[p])
  <2>1. ASSUME rec.pc = "act" PROVE ActOk(s, x, d, None, rec.pods[p])
    BY Zenon, <1>1, <1>4, <2>1 DEF ActOk
  <2> QED BY Zenon, <2>1
<1> QED BY Zenon, <1>1, <1>2, <1>3, <1>4, <1>5, <1>6, ServerSide DEF o, s, x

-----------------------------------------------------------------------------
(* Steps of Reconcile.                                                     *)
LEMMA DeletedOk ==
  ASSUME NEW o \in PodObj, NEW s, NEW x, NEW v, NEW c, NEW h, ProxyOk(o, s, x), ConnOk(o, s, x, v, c, h)
  PROVE  Deleted(o) \in PodObj /\ ProxyOk(Deleted(o), s, x) /\ ConnOk(Deleted(o), s, x, v, c, h)
<1>1. /\ Deleted(o) \in PodObj
      /\ o.phase = "running" => Deleted(o).phase = "terminating"
      /\ o.phase = "pending" => Deleted(o).phase = "gone"
      /\ o.phase \notin {"running", "pending"} => Deleted(o) = o
  BY Zenon DEF Deleted, PodObj, Phase
<1>2. ProxyOk(Deleted(o), s, x)
  BY Zenon, <1>1 DEF ProxyOk
<1>3. ConnOk(Deleted(o), s, x, v, c, h)
  BY Zenon, <1>1 DEF ConnOk
<1> QED BY Zenon, <1>1, <1>2, <1>3

(* A proxy that serves with no spec saved is being sent its first.         *)
LEMMA AliveFirst ==
  ASSUME DeliveryInv, NEW q \in Pod, Alive(proxy[q], stream[q]), SavedOf(proxy[q]) = None
  PROVE  First(proxy[q], stream[q])
  BY Zenon, PodFacts DEF Alive, SavedOf, First, ProxyOk

(* What the gate lets through: an active Pod that is connected and has     *)
(* reported what it was sent, or one that has no proxy that matters.       *)
LEMMA PassedOk ==
  ASSUME DeliveryInv, NEW p \in Pod, ~ Waits(p),
         NEW rp, rp = IF IsPodActive(seen[p]) /\ conn[p].up
                      THEN [synced |-> TRUE, fresh |-> TRUE, dispatched |-> conn[p].dispatched, status |-> conn[p].status]
                      ELSE NotSynced,
         NEW k, k = IF IsPodActive(seen[p]) /\ conn[p].up THEN None ELSE hashExp[p]
  PROVE  ActOk(stream[p], proxy[p], conn[p], k, rp)
<1> DEFINE o == pod[p]
           s == stream[p]
           x == proxy[p]
           v == seen[p]
           c == conn[p]
           h == hashExp[p]
<1>1. /\ v \in PodObj /\ ProxyOk(o, s, x) /\ ConnOk(o, s, x, v, c, h)
      /\ ~ (Exists(v) /\ ~ IsPodActive(v) /\ getRunningContainers(v))
      /\ IsPodActive(v) /\ c.up => ~ c.disconnected /\ h \in {None, c.status.exp}
      /\ rp = IF IsPodActive(v) /\ c.up
              THEN [synced |-> TRUE, fresh |-> TRUE, dispatched |-> c.dispatched, status |-> c.status] ELSE NotSynced
      /\ k = IF IsPodActive(v) /\ c.up THEN None ELSE h
  BY Zenon, PodFacts DEF Waits, Satisfied
<1> HIDE DEF o, s, x, v, c, h
<1>2. Alive(x, s) => c.up /\ IsPodActive(v)
  <2>1. Alive(x, s) => x.up
    BY Zenon, <1>1 DEF ProxyOk, Alive
  <2> QED BY Zenon, <1>1, <2>1 DEF ProxyOk, ConnOk, Exists, IsPodActive, getRunningContainers, PodObj, Phase
<1>3. CASE IsPodActive(v) /\ c.up
  <2>1. rp.synced /\ rp.fresh /\ rp.status = c.status /\ k = None
    BY <1>1, <1>3
  <2>2. StatusOk(rp.status)
    BY Zenon, <1>1, <2>1 DEF ConnOk
  <2>3. Alive(x, s) => Linked(s, x, c)
    BY Zenon, <1>1, <1>3 DEF Linked
  <2>4. ASSUME Linked(s, x, c)
        PROVE  x.expected.hash = c.status.exp /\ x.current.hash = c.status.cur /\ \A i \in DOMAIN s.down : s.down[i] = c.status.exp
    <3>1. Awaited(c, h) = c.status.exp
      BY Zenon, <1>1, <1>3 DEF Awaited
    <3>2. c.status.cur \in {None, x.current.hash} /\ StatusOk(c.status)
      BY Zenon, <1>1, <2>4 DEF ConnOk
    <3>3. x.expected.hash = c.status.exp /\ \A i \in DOMAIN s.down : s.down[i] = c.status.exp
      <4>1. CASE s.state = "open"
        BY Zenon, <1>1, <2>4, <3>1, <4>1 DEF ConnOk, Chain
      <4>2. CASE s.state # "open"
        BY <1>1, <2>4, <3>1, <4>2 DEF ConnOk, ProxyOk
      <4> QED BY Zenon, <4>1, <4>2
    <3>4. x.expected.hash = None => x.current.hash = None
      BY Zenon, <1>1 DEF ProxyOk
    <3>5. c.status.cur = None => c.status.exp = None
      BY <3>2 DEF StatusOk, NoMeta
    <3> QED BY Zenon, <3>2, <3>3, <3>4, <3>5
  <2>5. ActOk(s, x, c, k, rp)
    BY Zenon, <2>1, <2>2, <2>3, <2>4 DEF ActOk
  <2> QED BY Zenon, <2>5 DEF s, x, c
<1>4. CASE ~ (IsPodActive(v) /\ c.up)
  <2>1. ~ rp.synced /\ StatusOk(rp.status)
    BY <1>1, <1>4 DEF NotSynced, StatusOk, NoMeta
  <2>2. ActOk(s, x, c, k, rp)
    BY Zenon, <1>2, <1>4, <2>1 DEF ActOk
  <2> QED BY Zenon, <2>2 DEF s, x, c
<1> QED BY Zenon, <1>3, <1>4

LEMMA GateInv ==
  ASSUME DeliveryInv, Gate, UNCHANGED proxy
  PROVE  DeliveryInv'
<1>1. PICK young \in SUBSET {p \in Pod : seen[p].phase = "pending"} : GateWith(young)
  BY Zenon DEF Gate
<1> DEFINE stops == {p \in Pod : Waits(p) \/ WaitsAWhile(p, young)}
<1>2. /\ hashExp' = Met(stops) /\ rec.pc = "idle" /\ UNCHANGED <<stream, config, seen, conn, dying, proxy>>
      /\ stops = {} => rec' = [pc |-> "act", spec |-> config, pods |-> SyncPods]
      /\ stops # {} => rec' = rec
  BY Zenon, <1>1 DEF GateWith, Gate
<1>3. ASSUME NEW p \in Pod
      PROVE  /\ pod'[p] \in {pod[p], Deleted(pod[p])}
             /\ pod' = [q \in Pod |-> pod'[q]]
  BY Zenon DEF Gate, ClearOldPods
<1>4. ASSUME NEW p \in Pod
      PROVE  /\ hashExp'[p] \in {hashExp[p], None}
             /\ hashExp'[p] # hashExp[p] => hashExp[p] = conn[p].status.exp
             /\ First(proxy[p], stream[p]) => hashExp'[p] = hashExp[p]
             /\ stops = {} => hashExp'[p] = IF IsPodActive(seen[p]) /\ conn[p].up THEN None ELSE hashExp[p]
  <2>1. hashExp'[p] = IF IsPodActive(seen[p]) /\ conn[p].up /\ \A q \in stops : p < q THEN None ELSE hashExp[p]
    BY Zenon, <1>2 DEF Met
  <2>2. IsPodActive(seen[p]) /\ conn[p].up /\ ~ Satisfied(p) => p \in stops
    BY Zenon DEF Waits
  <2>3. ~ (p < p)
    BY DEF Pod
  <2>4. First(proxy[p], stream[p]) => ~ Satisfied(p)
    BY Zenon, FirstFacts, NoneAssumption DEF Satisfied
  <2> HIDE DEF stops
  <2>5. hashExp'[p] # hashExp[p] => Satisfied(p)
    BY Zenon, <2>1, <2>2, <2>3
  <2> QED BY Zenon, <2>1, <2>4, <2>5 DEF Satisfied
<1>5. ASSUME NEW p \in Pod
      PROVE  /\ pod'[p] \in PodObj /\ ProxyOk(pod'[p], stream[p], proxy[p])
             /\ ConnOk(pod'[p], stream[p], proxy[p], seen[p], conn[p], hashExp'[p])
  <2>1. /\ pod[p] \in PodObj /\ ProxyOk(pod[p], stream[p], proxy[p])
        /\ ConnOk(pod[p], stream[p], proxy[p], seen[p], conn[p], hashExp[p])
    BY Zenon, PodFacts
  <2>2. Awaited(conn[p], hashExp'[p]) = Awaited(conn[p], hashExp[p])
    BY Zenon, <1>4 DEF Awaited
  <2>3. ConnOk(pod[p], stream[p], proxy[p], seen[p], conn[p], hashExp'[p])
    BY Zenon, <2>1, <2>2 DEF ConnOk
  <2> QED BY Zenon, <1>3, <2>1, <2>3, DeletedOk
<1>6. ASSUME NEW p \in Pod, rec'.pc = "act" PROVE ActOk(stream[p], proxy[p], conn[p], hashExp'[p], rec'.pods[p])
  <2>1. stops = {}
    BY Zenon, <1>2, <1>6
  <2>2. ~ Waits(p)
    BY Zenon, <2>1
  <2>3. rec'.pods[p] = IF IsPodActive(seen[p]) /\ conn[p].up
                       THEN [synced |-> TRUE, fresh |-> TRUE, dispatched |-> conn[p].dispatched, status |-> conn[p].status]
                       ELSE NotSynced
    <3> HIDE DEF stops
    <3>1. rec'.pods = SyncPods
      BY <1>2, <2>1
    <3> QED BY Zenon, <3>1 DEF SyncPods
  <2> HIDE DEF stops
  <2> QED BY Zenon, <1>4, <2>1, <2>2, <2>3, PassedOk
<1>7. DeliveryType'
  <2>1. pod' \in [Pod -> PodObj]
    <3>1. \A p \in Pod : pod'[p] \in PodObj
      BY Zenon, <1>5
    <3>2. pod' = [p \in Pod |-> pod'[p]]
      BY Zenon DEF Gate, ClearOldPods
    <3> QED BY Zenon, <3>1, <3>2
  <2>2. hashExp' \in [Pod -> Hash \cup {None}]
    BY Zenon, <1>2, <1>4 DEF Met, DeliveryInv, DeliveryType
  <2>3. SyncPods \in [Pod -> SyncPod]
    <3>1. NotSynced \in SyncPod
      BY Zenon DEF NotSynced, SyncPod, NoMeta, Status
    <3>2. \A p \in Pod : [synced |-> TRUE, fresh |-> TRUE, dispatched |-> conn[p].dispatched, status |-> conn[p].status] \in SyncPod
      BY Zenon, PodFacts DEF ConnType, SyncPod
    <3> QED BY Zenon, <3>1, <3>2 DEF SyncPods
  <2> HIDE DEF stops
  <2>4. rec' \in RecType /\ (rec'.pc = "act" => rec'.spec \in Hash)
    BY <1>2, <2>3 DEF DeliveryInv, DeliveryType, RecType
  <2> QED BY Zenon, <1>2, <2>1, <2>2, <2>4 DEF DeliveryInv, DeliveryType, RecType
<1>8. Agreed'
  <2>1. ASSUME NEW q \in Pod, Alive(proxy[q], stream[q]) PROVE Will(proxy[q], hashExp'[q]) = Will(proxy[q], hashExp[q])
    BY Zenon, <1>4, <2>1, AliveFirst DEF Will
  <2> QED BY Zenon, <1>2, <1>4, <2>1 DEF DeliveryInv, Agreed
<1>9. ASSUME NEW p \in Pod
      PROVE  PodOk(pod'[p], stream[p], proxy[p], seen[p], conn[p], hashExp'[p], rec'.pc, rec'.pods[p])
  BY Zenon, <1>5, <1>6, PodFacts DEF PodOk
<1> QED BY Zenon, <1>2, <1>7, <1>8, <1>9 DEF DeliveryInv

LEMMA IdleType == Idle \in RecType /\ Idle.pc = "idle"
<1>1. NotSynced \in SyncPod
  BY Zenon DEF NotSynced, SyncPod, NoMeta, Status
<1> QED BY Zenon, <1>1 DEF Idle, RecType

LEMMA DeletePodsInv ==
  ASSUME DeliveryInv, NEW refused, DeletePods(refused), UNCHANGED proxy
  PROVE  DeliveryInv'
<1>1. rec' = Idle /\ UNCHANGED <<stream, config, seen, conn, dying, hashExp, proxy>>
  BY Zenon DEF DeletePods
<1>2. \A p \in Pod : pod'[p] \in {pod[p], Deleted(pod[p])}
  BY Zenon DEF DeletePods
<1>3. pod' = [p \in Pod |-> pod'[p]]
  BY Zenon DEF DeletePods
<1>4. ASSUME NEW p \in Pod
      PROVE  /\ pod'[p] \in PodObj /\ ProxyOk(pod'[p], stream[p], proxy[p])
             /\ ConnOk(pod'[p], stream[p], proxy[p], seen[p], conn[p], hashExp[p])
  BY <1>2, PodFacts, DeletedOk
<1>5. DeliveryType'
  <2>1. pod' \in [Pod -> PodObj]
    BY Zenon, <1>3, <1>4
  <2> QED BY Zenon, <1>1, <2>1, IdleType DEF DeliveryInv, DeliveryType, RecType
<1>6. Agreed'
  BY Zenon, <1>1 DEF DeliveryInv, Agreed
<1>7. ASSUME NEW p \in Pod
      PROVE  PodOk(pod'[p], stream[p], proxy[p], seen[p], conn[p], hashExp[p], rec'.pc, rec'.pods[p])
  BY Zenon, <1>1, <1>4, PodFacts, IdleType DEF PodOk
<1> QED BY Zenon, <1>1, <1>5, <1>6, <1>7 DEF DeliveryInv

(* Where no Pod has to go, the Pods Reconcile is about to send a spec run  *)
(* what they expect.                                                       *)
LEMMA SendFacts ==
  ASSUME DeliveryInv, rec.pc = "act", PodsToDelete = {}, NEW p \in Pod
  PROVE  /\ ~ First(proxy[p], stream[p])
         /\ Alive(proxy[p], stream[p]) => p \in Synced
         /\ p \in Synced => rec.pods[p].status.exp = rec.pods[p].status.cur
         /\ Alive(proxy[p], stream[p]) \/ (p \in Synced /\ rec.pods[p].fresh /\ Linked(stream[p], proxy[p], conn[p])) =>
               proxy[p].expected.hash = rec.pods[p].status.exp /\ proxy[p].current.hash = rec.pods[p].status.cur
         /\ p \in Synced /\ rec.pods[p].fresh /\ Linked(stream[p], proxy[p], conn[p]) =>
               hashExp[p] = None /\ conn[p].status.exp = rec.pods[p].status.exp
         /\ StatusOk(rec.pods[p].status)
<1>1. ActOk(stream[p], proxy[p], conn[p], hashExp[p], rec.pods[p]) /\ stream[p] \in Stream
  BY Zenon, PodFacts
<1>2. ToDelete = {}
  BY Zenon DEF PodsToDelete, NonLeaders
<1>3. p \in Synced => rec.pods[p].status.exp = rec.pods[p].status.cur
  BY Zenon, <1>2 DEF ToDelete
<1>4. ASSUME First(proxy[p], stream[p]) PROVE FALSE
  <2>1. /\ hashExp[p] \in Hash /\ proxy[p].expected.hash = None
        /\ \A i \in DOMAIN stream[p].down : stream[p].down[i] = hashExp[p]
    BY Zenon, <1>4, FirstFacts
  <2>2. stream[p].down # <<>> /\ stream[p].down \in Seq(Hash)
    BY Zenon, <1>1, <1>4 DEF First, Stream
  <2>3. 1 \in DOMAIN stream[p].down
    BY <2>2
  <2>4. Alive(proxy[p], stream[p])
    BY Zenon, <2>2 DEF Alive
  <2> QED BY Zenon, <1>1, <2>1, <2>3, <2>4, NoneAssumption DEF ActOk
<1> QED BY Zenon, <1>1, <1>3, <1>4 DEF ActOk, Synced

LEMMA SendSpecsInv ==
  ASSUME DeliveryInv, SendSpecs, UNCHANGED proxy
  PROVE  DeliveryInv'
<1>1. /\ rec.pc = "act" /\ PodsToDelete = {} /\ rec' = Idle /\ UNCHANGED <<pod, config, seen, dying, proxy>>
      /\ rec.spec \in Hash /\ dying = {}
  BY Zenon DEF SendSpecs, DeliveryInv, DeliveryType
<1>2. PICK failed \in SUBSET {p \in Targets : ~ Delivers(p)} :
         /\ {p \in Targets : Fails(p)} \subseteq failed
         /\ hashExp' = [p \in Pod |-> IF p \in Targets \ failed THEN rec.spec ELSE hashExp[p]]
  BY Zenon DEF SendSpecs
<1>3. Targets \subseteq Synced
  BY Zenon DEF Targets, PodsToUpdate, PodsToDispatch
<1>4. ASSUME NEW p \in Pod, p \in Targets, Delivers(p)
      PROVE  /\ stream'[p] = [stream[p] EXCEPT !.down = Append(stream[p].down, rec.spec)]
             /\ conn'[p] = [conn[p] EXCEPT !.dispatched = TRUE]
             /\ hashExp'[p] = rec.spec /\ rec.pods[p].fresh /\ stream[p].state = "open" /\ p \in Synced
  BY Zenon, <1>2, <1>3, <1>4 DEF SendSpecs, Delivers
<1>5. ASSUME NEW p \in Pod, ~ (p \in Targets /\ Delivers(p))
      PROVE  /\ stream'[p] = stream[p]
             /\ conn'[p] \in {conn[p], [conn[p] EXCEPT !.dispatched = TRUE]}
             /\ hashExp'[p] = hashExp[p] \/ (hashExp'[p] = rec.spec /\ p \in Synced /\ rec.pods[p].fresh)
  <2>1. p \in Targets \ failed => rec.pods[p].fresh
    BY Zenon, <1>1, <1>2 DEF Fails
  <2> QED BY Zenon, <1>2, <1>3, <1>5, <2>1 DEF SendSpecs
<1>6. ASSUME NEW p \in Pod, NEW c, c \in {conn[p], [conn[p] EXCEPT !.dispatched = TRUE]}
      PROVE  c \in ConnType /\ c.up = conn[p].up /\ c.disconnected = conn[p].disconnected /\ c.status = conn[p].status
  <2>1. conn[p] \in ConnType
    BY Zenon, PodFacts
  <2> QED BY Zenon, <1>6, <2>1 DEF ConnType
<1>7. ASSUME NEW p \in Pod, p \in Targets, Delivers(p)
      PROVE  /\ stream'[p] \in Stream /\ conn'[p] \in ConnType
             /\ PodOk(pod[p], stream'[p], proxy[p], seen[p], conn'[p], hashExp'[p], rec'.pc, rec'.pods[p])
  <2> DEFINE o == pod[p]
             s == stream[p]
             x == proxy[p]
             c == conn[p]
             h == hashExp[p]
             u == Append(s.down, rec.spec)
             t == [s EXCEPT !.down = u]
             d == conn'[p]
  <2>1. /\ s \in Stream /\ ProxyOk(o, s, x) /\ WholeOk(s, x) /\ ConnOk(o, s, x, seen[p], c, h)
    BY Zenon, PodFacts
  <2>2. stream'[p] = t /\ hashExp'[p] = rec.spec /\ s.state = "open" /\ p \in Synced /\ rec.pods[p].fresh
    BY Zenon, <1>4, <1>7
  <2>3. d \in ConnType /\ d.up = c.up /\ d.disconnected = c.disconnected /\ d.status = c.status
    BY Zenon, <1>4, <1>6, <1>7
  <2>4. Linked(s, x, c) => /\ x.expected.hash = rec.pods[p].status.exp /\ x.current.hash = rec.pods[p].status.cur /\ h = None
                           /\ c.status.exp = rec.pods[p].status.exp /\ rec.pods[p].status.exp = rec.pods[p].status.cur
    BY Zenon, <1>1, <2>2, SendFacts
  <2> HIDE DEF o, s, x, c, h, d
  <2>5. Linked(s, x, c)
    BY Zenon, <2>1, <2>2 DEF ConnOk, Linked
  <2>6. s.down \in Seq(Hash) /\ s.up \in Seq(Status)
    BY Zenon, <2>1 DEF Stream
  <2>7. u \in Seq(Hash) /\ u # <<>>
    BY <1>1, <2>6, Appending
  <2>8. Chain(c.status.exp, s.up, x.expected.hash, u, rec.spec)
    <3>1. Chain(c.status.exp, s.up, x.expected.hash, s.down, c.status.exp)
      BY Zenon, <2>1, <2>2, <2>4, <2>5 DEF ConnOk, Awaited
    <3> QED BY Zenon, <1>1, <2>6, <3>1, ChainSendSpec
  <2> HIDE DEF u
  <2>9. t \in Stream /\ t.state = "open" /\ t.up = s.up /\ t.down = u
    BY Zenon, <2>1, <2>2, <2>7 DEF Stream
  <2> HIDE DEF t
  <2>10. ProxyOk(o, t, x)
    BY Zenon, <2>1, <2>2, <2>9 DEF ProxyOk
  <2>11. WholeOk(t, x)
    BY Zenon, <2>1, <2>4, <2>5 DEF WholeOk
  <2>12. Awaited(d, rec.spec) = rec.spec
    BY Zenon, <1>1, NoneAssumption DEF Awaited
  <2>13. c.status.cur \in {None, x.current.hash} /\ c.up /\ ~ c.disconnected
    BY Zenon, <2>1, <2>2, <2>5 DEF ConnOk
  <2>14. ConnOk(o, t, x, seen[p], d, rec.spec)
    BY Zenon, <2>1, <2>3, <2>8, <2>9, <2>12, <2>13 DEF ConnOk
  <2>15. PodOk(o, t, x, seen[p], d, rec.spec, rec'.pc, rec'.pods[p])
    BY Zenon, <1>1, <2>10, <2>11, <2>14, IdleType DEF PodOk
  <2> QED BY Zenon, <2>2, <2>3, <2>9, <2>15 DEF o, x, d
<1>8. ASSUME NEW p \in Pod, ~ (p \in Targets /\ Delivers(p))
      PROVE  /\ stream'[p] \in Stream /\ conn'[p] \in ConnType
             /\ PodOk(pod[p], stream'[p], proxy[p], seen[p], conn'[p], hashExp'[p], rec'.pc, rec'.pods[p])
  <2> DEFINE o == pod[p]
             s == stream[p]
             x == proxy[p]
             c == conn[p]
             h == hashExp[p]
             k == hashExp'[p]
             d == conn'[p]
  <2>1. /\ s \in Stream /\ ProxyOk(o, s, x) /\ WholeOk(s, x) /\ ConnOk(o, s, x, seen[p], c, h)
    BY Zenon, PodFacts
  <2>2. stream'[p] = s /\ (k = h \/ (k = rec.spec /\ p \in Synced /\ rec.pods[p].fresh))
    BY Zenon, <1>5, <1>8
  <2>3. d \in ConnType /\ d.up = c.up /\ d.disconnected = c.disconnected /\ d.status = c.status
    BY Zenon, <1>5, <1>6, <1>8
  <2>4. p \in Synced /\ rec.pods[p].fresh /\ Linked(s, x, c) => h = None /\ x.expected.hash = c.status.exp
    BY Zenon, <1>1, SendFacts
  <2>5. s.state = "open" => k = h
    BY Zenon, <1>2, <1>8, <2>2 DEF Delivers
  <2> HIDE DEF o, s, x, c, h, d, k
  <2>6. Linked(s, x, d) = Linked(s, x, c) /\ Awaited(d, h) = Awaited(c, h)
    BY Zenon, <2>3 DEF Linked, Awaited
  <2>7. ConnOk(o, s, x, seen[p], d, k)
    BY Zenon, <2>1, <2>2, <2>3, <2>4, <2>5, <2>6 DEF ConnOk
  <2>8. PodOk(o, s, x, seen[p], d, k, rec'.pc, rec'.pods[p])
    BY Zenon, <1>1, <2>1, <2>7, IdleType DEF PodOk
  <2> QED BY Zenon, <2>1, <2>2, <2>3, <2>8 DEF o, x, d, k
<1>9. DeliveryType'
  <2>1. stream' \in [Pod -> Stream] /\ conn' \in [Pod -> ConnType]
    <3>1. stream' = [p \in Pod |-> stream'[p]] /\ conn' = [p \in Pod |-> conn'[p]]
      BY Zenon DEF SendSpecs
    <3> QED BY Zenon, <1>7, <1>8, <3>1
  <2>2. hashExp' \in [Pod -> Hash \cup {None}]
    BY Zenon, <1>1, <1>2 DEF DeliveryInv, DeliveryType
  <2> QED BY Zenon, <1>1, <2>1, <2>2, IdleType DEF DeliveryInv, DeliveryType, RecType
<1>10. Agreed'
  <2>1. ASSUME NEW p \in Pod, First(proxy[p], stream'[p])
        PROVE  hashExp'[p] = rec.spec /\ PodsToUpdate = {}
    <3>1. p \in Targets /\ Delivers(p)
      BY Zenon, <1>1, <1>5, <2>1, SendFacts
    <3>2. p \in Synced /\ rec.pods[p].fresh /\ stream[p].state = "open" /\ hashExp'[p] = rec.spec
      BY Zenon, <1>4, <3>1
    <3>3. Linked(stream[p], proxy[p], conn[p]) /\ proxy[p].current.hash = None
      BY Zenon, <2>1, <3>2, PodFacts DEF ConnOk, Linked, First, SavedOf, ProxyOk
    <3>4. rec.pods[p].status = NoMeta
      BY Zenon, <1>1, <3>2, <3>3, SendFacts DEF StatusOk
    <3>5. p \notin PodsToUpdate
      BY Zenon, <3>4 DEF PodsToUpdate
    <3> QED BY Zenon, <3>1, <3>2, <3>5 DEF Targets
  <2>2. ASSUME NEW q \in Pod, Alive(proxy[q], stream'[q]), PodsToUpdate = {}
        PROVE  Will(proxy[q], hashExp'[q]) = rec.spec
    <3>1. Alive(proxy[q], stream[q]) \/ (q \in Targets /\ Delivers(q))
      BY Zenon, <1>5, <2>2
    <3>2. q \in Targets /\ Delivers(q) => /\ q \in Synced /\ rec.pods[q].fresh /\ Linked(stream[q], proxy[q], conn[q])
                                          /\ hashExp'[q] = rec.spec
      BY Zenon, <1>4, PodFacts DEF ConnOk, Linked
    <3>3. /\ q \in Synced /\ proxy[q].expected.hash = rec.pods[q].status.exp /\ proxy[q].current.hash = rec.pods[q].status.exp
          /\ StatusOk(rec.pods[q].status)
      BY Zenon, <1>1, <3>1, <3>2, SendFacts
    <3>4. proxy[q].up
      BY Zenon, <3>1, <1>4, PodFacts DEF ProxyOk, Alive
    <3>5. CASE SavedOf(proxy[q]) = None
      BY Zenon, <1>1, <3>1, <3>2, <3>5, AliveFirst, SendFacts DEF Will
    <3>6. CASE SavedOf(proxy[q]) # None
      <4>1. proxy[q].current.hash = SavedOf(proxy[q])
        BY Zenon, <3>3, <3>4, <3>6, PodFacts DEF ProxyOk, SavedOf
      <4>2. rec.pods[q].status.exp # None /\ rec.pods[q].status # NoMeta
        <5>1. NoMeta.exp = None
          BY Zenon DEF NoMeta
        <5>2. rec.pods[q].status.exp # None
          BY Zenon, <3>3, <3>6, <4>1
        <5> QED BY Zenon, <5>1, <5>2
      <4>3. q \notin ToDelete
        BY Zenon, <1>1 DEF PodsToDelete, NonLeaders
      <4>4. rec.pods[q].status.exp = rec.spec
        BY Zenon, <2>2, <3>3, <4>2, <4>3 DEF PodsToUpdate
      <4> QED BY Zenon, <3>3, <3>6, <4>1, <4>4 DEF Will
    <3> QED BY Zenon, <3>5, <3>6
  <2> QED BY Zenon, <1>1, <2>1, <2>2 DEF Agreed
<1> QED BY Zenon, <1>1, <1>7, <1>8, <1>9, <1>10 DEF DeliveryInv

-----------------------------------------------------------------------------
LEMMA DeliveryInitInv ==
  ASSUME Init
  PROVE  DeliveryInv
<1>1. AbsentPod \in PodObj /\ AbsentPod.phase = "absent"
  BY Zenon DEF AbsentPod, PodObj, Phase
<1>2. Closed \in Stream /\ Closed.state = "closed" /\ Closed.up = <<>> /\ Closed.down = <<>>
  BY DEF Closed, Stream
<1>3. NoConn \in ConnType /\ ~ NoConn.up /\ NoConn.status = NoMeta
  BY Zenon DEF NoConn, ConnType, NoMeta, Status
<1>4. /\ pod = [p \in Pod |-> AbsentPod] /\ stream = [p \in Pod |-> Closed] /\ proxy = [p \in Pod |-> DownProxy]
      /\ seen = [p \in Pod |-> AbsentPod] /\ conn = [p \in Pod |-> NoConn] /\ dying = {}
      /\ hashExp = [p \in Pod |-> None] /\ rec = Idle /\ config \in Hash
  BY Zenon, HashAssumption DEF Init
<1>5. DeliveryType
  BY Zenon, <1>1, <1>2, <1>3, <1>4, DownProxyFields, IdleType DEF DeliveryType, RecType
<1>6. ~ Alive(DownProxy, Closed) /\ ~ First(DownProxy, Closed)
  BY Zenon, <1>2, DownProxyFields DEF Alive, First
<1>7. ProxyOk(AbsentPod, Closed, DownProxy) /\ WholeOk(Closed, DownProxy)
  BY Zenon, <1>1, <1>2, DownProxyFields DEF ProxyOk, WholeOk
<1>8. ConnOk(AbsentPod, Closed, DownProxy, AbsentPod, NoConn, None)
  BY <1>1, <1>2, <1>3, <1>6 DEF ConnOk, Linked, StatusOk
<1>9. Agreed
  BY Zenon, <1>4, <1>6 DEF Agreed
<1> QED BY Zenon, <1>4, <1>5, <1>7, <1>8, <1>9, IdleType DEF DeliveryInv, PodOk

LEMMA DeliveryNextInv ==
  ASSUME Undisturbed, DeliveryInv, [Next]_vars
  PROVE  DeliveryInv'
<1>1. ASSUME NEW p \in Pod, ClusterStep(p) PROVE DeliveryInv'
  BY Zenon, <1>1, ClusterStepInv
<1>2. ASSUME NEW p \in Pod, ProxyActs(p) PROVE DeliveryInv'
  BY Zenon, <1>2, StartProxyInv, ConnectInv, RecvSpecInv, LoadSpecInv, SendStatusInv DEF ProxyActs
<1>3. ASSUME NEW p \in Pod, Serve(p) PROVE DeliveryInv'
  BY Zenon, <1>3, ServeInv
<1>4. ASSUME NEW p \in Pod, ServerReads(p) PROVE DeliveryInv'
  <2>1. ~ LateTeardown(p)
    BY Zenon DEF DeliveryInv, LateTeardown
  <2> QED BY Zenon, <1>4, <2>1, ObservePodInv, RecvStatusInv, TeardownInv DEF ServerReads
<1>5. ASSUME UNCHANGED <<pod, stream, proxy, seen, conn, dying, hashExp, rec>>, config' \in Hash PROVE DeliveryInv'
  BY Zenon, <1>5 DEF DeliveryInv, DeliveryType, Agreed
<1>6. ASSUME Worker PROVE DeliveryInv'
  <2>1. CASE Gate
    BY Zenon, <1>6, <2>1, GateInv DEF Worker
  <2>2. CASE DeletePods({})
    BY Zenon, <1>6, <2>2, DeletePodsInv DEF Worker
  <2>3. CASE SendSpecs
    BY Zenon, <1>6, <2>3, SendSpecsInv DEF Worker
  <2>4. CASE Requeue
    BY Zenon, <1>5, <1>6, <2>4 DEF Worker, Requeue, DeliveryInv, DeliveryType
  <2> QED BY Zenon, <1>6, <2>1, <2>2, <2>3, <2>4 DEF Worker, Reconcile
<1>7. ASSUME NEW h \in Hash, EditConfig(h) PROVE DeliveryInv'
  BY Zenon, <1>5, <1>7 DEF EditConfig
<1>8. ASSUME NEW p \in Pod, BreakStream(p) PROVE DeliveryInv'
  BY Zenon, <1>8, BreakStep DEF BreakStream, serverVars
<1>9. ASSUME NEW p \in Pod, Crash(p) PROVE DeliveryInv'
  BY Zenon, <1>9, CrashInv DEF Crash
<1>10. ASSUME NEW p \in Pod, Unready(p) \/ Relabel(p) PROVE DeliveryInv'
  <2>1. pod[p] \in PodObj /\ ProxyOk(pod[p], stream[p], proxy[p]) /\ ConnOk(pod[p], stream[p], proxy[p], seen[p], conn[p], hashExp[p])
    BY Zenon, PodFacts
  <2>2. UNCHANGED <<stream, proxy, seen, conn, hashExp, rec, config, dying>>
    BY Zenon, <1>10 DEF Unready, Relabel, serverVars
  <2>3. PICK o \in PodObj : o.phase = pod[p].phase /\ pod' = [pod EXCEPT ![p] = o]
    <3>1. /\ [pod[p] EXCEPT !.ready = FALSE] \in PodObj /\ [pod[p] EXCEPT !.ready = FALSE].phase = pod[p].phase
          /\ [pod[p] EXCEPT !.matches = FALSE] \in PodObj /\ [pod[p] EXCEPT !.matches = FALSE].phase = pod[p].phase
      BY Zenon, <2>1 DEF PodObj
    <3>2. pod' \in {[pod EXCEPT ![p] = [pod[p] EXCEPT !.ready = FALSE]], [pod EXCEPT ![p] = [pod[p] EXCEPT !.matches = FALSE]]}
      BY Zenon, <1>10 DEF Unready, Relabel, DeliveryInv, DeliveryType
    <3> QED BY Zenon, <3>1, <3>2
  <2> QED BY Zenon, <2>1, <2>2, <2>3, PodStep DEF ProxyOk, ConnOk
<1>11. ASSUME NEW p \in Pod, Elect(p) PROVE DeliveryInv'
  BY Zenon, <1>11, ElectInv DEF Elect
<1>12. ASSUME FailDelete PROVE DeliveryInv'
  BY Zenon, <1>12, DeletePodsInv DEF FailDelete
<1>13. ~ RestartManager
  BY Zenon DEF RestartManager, May, Undisturbed
<1>14. CASE UNCHANGED vars
  BY Zenon, <1>5, <1>14 DEF vars, serverVars, DeliveryInv, DeliveryType
<1> QED BY Zenon, <1>1, <1>2, <1>3, <1>4, <1>6, <1>7, <1>8, <1>9, <1>10, <1>11, <1>12, <1>13, <1>14 DEF Next, Environment

LEMMA DeliveryInvariant ==
  ASSUME Undisturbed
  PROVE  DeliverySpec => []DeliveryInv
<1>1. Init => DeliveryInv
  BY Zenon, DeliveryInitInv
<1>2. DeliveryInv /\ [Next]_vars => DeliveryInv'
  BY Zenon, DeliveryNextInv
<1> QED BY <1>1, <1>2, PTL DEF DeliverySpec

(* No proxy ever filters with the limits of more than one spec: whenever a *)
(* restart joins what its two files hold (UpdateSpec at start), they are   *)
(* files of one spec.                                                      *)
THEOREM WholeCorrect == Undisturbed => (DeliverySpec => []Whole)
<1> SUFFICES ASSUME Undisturbed PROVE DeliverySpec => []Whole
  BY Zenon
<1>1. DeliveryInv => Whole
  BY Zenon, PodFacts DEF Whole, WholeOk
<1> QED BY <1>1, DeliveryInvariant, PTL

(* Reconcile acts only on Pods that have taken and reported all it sent.   *)
THEOREM SatisfiedCorrect == Undisturbed => (DeliverySpec => []AllSatisfied)
<1> SUFFICES ASSUME Undisturbed PROVE DeliverySpec => []AllSatisfied
  BY Zenon
<1>1. DeliveryInv => AllSatisfied
  <2> SUFFICES ASSUME DeliveryInv, rec.pc = "act", NEW p \in Pod,
                      rec.pods[p].synced, rec.pods[p].fresh, stream[p].state = "open"
               PROVE  Range(stream[p].down) \cup {proxy[p].expected.hash} = {rec.pods[p].status.exp}
    BY Zenon DEF AllSatisfied
  <2>1. /\ ConnOk(pod[p], stream[p], proxy[p], seen[p], conn[p], hashExp[p])
        /\ ActOk(stream[p], proxy[p], conn[p], hashExp[p], rec.pods[p])
    BY Zenon, PodFacts
  <2>2. Linked(stream[p], proxy[p], conn[p])
    BY Zenon, <2>1 DEF ConnOk, Linked
  <2>3. /\ proxy[p].expected.hash = rec.pods[p].status.exp /\ hashExp[p] = None
        /\ conn[p].status.exp = rec.pods[p].status.exp
    BY Zenon, <2>1, <2>2 DEF ActOk
  <2>4. \A i \in DOMAIN stream[p].down : stream[p].down[i] = rec.pods[p].status.exp
    BY Zenon, <2>1, <2>2, <2>3 DEF ConnOk, Chain, Awaited
  <2> QED BY Zenon, <2>3, <2>4 DEF Range
<1> QED BY <1>1, DeliveryInvariant, PTL

-----------------------------------------------------------------------------
(* The refinement: what each step does to the spec a proxy serves with and *)
(* to the one it has saved.                                                *)
RunningOf(x) == IF x.up /\ x.serving THEN x.current.hash ELSE None

LEMMA ProxyMoves ==
  ASSUME DeliveryInv, NEW p \in Pod, NEW y, proxy' = [proxy EXCEPT ![p] = y]
  PROVE  /\ Running[p] = RunningOf(proxy[p]) /\ Saved[p] = SavedOf(proxy[p])
         /\ Running' = [Running EXCEPT ![p] = RunningOf(y)] /\ Saved' = [Saved EXCEPT ![p] = SavedOf(y)]
<1>1. proxy' = [q \in Pod |-> IF q = p THEN y ELSE proxy[q]]
  BY Zenon DEF DeliveryInv, DeliveryType
<1>2. Running = [q \in Pod |-> RunningOf(proxy[q])] /\ Saved = [q \in Pod |-> SavedOf(proxy[q])]
  BY Zenon DEF Running, Saved, RunningOf, SavedOf
<1>3. Running' = [q \in Pod |-> RunningOf(proxy'[q])] /\ Saved' = [q \in Pod |-> SavedOf(proxy'[q])]
  BY Zenon DEF Running, Saved, RunningOf, SavedOf
<1> QED BY Zenon, <1>1, <1>2, <1>3

LEMMA ProxyRests ==
  ASSUME DeliveryInv, NEW p \in Pod, NEW y, proxy' = [proxy EXCEPT ![p] = y],
         RunningOf(y) = RunningOf(proxy[p]), SavedOf(y) = SavedOf(proxy[p])
  PROVE  UNCHANGED <<Running, Saved>>
<1>1. /\ Running[p] = RunningOf(proxy[p]) /\ Saved[p] = SavedOf(proxy[p])
      /\ Running' = [Running EXCEPT ![p] = RunningOf(y)] /\ Saved' = [Saved EXCEPT ![p] = SavedOf(y)]
  BY Zenon, ProxyMoves
<1>2. Running = [q \in Pod |-> Running[q]] /\ Saved = [q \in Pod |-> Saved[q]]
  BY Zenon DEF Running, Saved
<1> QED BY Zenon, <1>1, <1>2

LEMMA StartRefines ==
  ASSUME DeliveryInv, NEW p \in Pod, StartProxy(p)
  PROVE  UNCHANGED <<Running, Saved>>
<1> DEFINE x == proxy[p]
           y == Started(x)
<1>1. x \in ProxyType /\ ProxyOk(pod[p], stream[p], x) /\ ~ x.up /\ proxy' = [proxy EXCEPT ![p] = y]
  BY Zenon, PodFacts DEF StartProxy
<1>2. /\ y.serving = x.serving
      /\ x.expectedFile.hash = None => y.currentFile = x.currentFile /\ y.expectedFile = x.expectedFile
      /\ x.expectedFile.hash # None =>
            /\ y.expectedFile = x.expectedFile
            /\ x.currentFile.hash \in {None, x.expectedFile.hash} => y.currentFile.hash = x.expectedFile.hash
            /\ x.currentFile.hash \notin {None, x.expectedFile.hash} => y.currentFile = x.currentFile
  BY Zenon, <1>1, StartedFields
<1> HIDE DEF y
<1>3. RunningOf(y) = RunningOf(x) /\ SavedOf(y) = SavedOf(x)
  BY Zenon, <1>1, <1>2 DEF RunningOf, SavedOf, ProxyOk
<1> QED BY Zenon, <1>1, <1>3, ProxyRests

(* A proxy that takes its first spec commits to it, and those that serve   *)
(* serve with that one.                                                    *)
LEMMA RecvRefines ==
  ASSUME DeliveryInv, NEW p \in Pod, RecvSpec(p)
  PROVE  Rollout!Next \/ UNCHANGED <<Running, Saved>>
<1> DEFINE s == stream[p]
           x == proxy[p]
           b == Head(s.down)
           e == Expect(x, ProxySpec(b))
           y == [e EXCEPT !.half = TRUE]
<1>1. /\ x \in ProxyType /\ s \in Stream /\ ProxyOk(pod[p], s, x) /\ x.up /\ ~ x.half /\ s.down # <<>>
      /\ proxy' = [proxy EXCEPT ![p] = y]
  BY Zenon, PodFacts DEF RecvSpec
<1>2. b = s.down[1] /\ 1 \in DOMAIN s.down /\ b \in Hash
  <2>1. s.down \in Seq(Hash)
    BY Zenon, <1>1 DEF Stream
  <2> QED BY Zenon, <1>1, <2>1, HeadTail
<1> HIDE DEF b
<1>3. ProxySpec(b) \in SpecType /\ ProxySpec(b).hash = b
  BY Zenon, <1>2 DEF ProxySpec, SpecType
<1>4. /\ e \in ProxyType /\ e.expectedFile.hash = b
      /\ e.up = x.up /\ e.serving = x.serving /\ e.current = x.current /\ e.currentFile = x.currentFile
  <2>1. /\ e \in ProxyType
        /\ e.expectedFile = [hash |-> ProxySpec(b).hash, limits |-> x.expectedFile.limits \cup ProxySpec(b).limits]
        /\ e.up = x.up /\ e.serving = x.serving /\ e.current = x.current /\ e.currentFile = x.currentFile
    BY Zenon, <1>1, <1>3, ExpectFields
  <2> HIDE DEF e
  <2> QED BY <1>3, <2>1
<1> HIDE DEF e
<1>5. /\ y.up = e.up /\ y.serving = e.serving /\ y.current = e.current /\ y.currentFile = e.currentFile
      /\ y.expectedFile = e.expectedFile
  <2>1. e \in ProxyType
    BY Zenon, <1>4
  <2> QED BY Zenon, <2>1 DEF ProxyType
<1> HIDE DEF y
<1>6. RunningOf(y) = RunningOf(x)
  BY Zenon, <1>4, <1>5 DEF RunningOf
<1>7. CASE x.currentFile.hash # None
  BY Zenon, <1>1, <1>4, <1>5, <1>6, <1>7, ProxyRests DEF SavedOf
<1>8. CASE x.currentFile.hash = None
  <2>1. First(x, s) /\ SavedOf(y) = b /\ SavedOf(x) = None
    BY Zenon, <1>1, <1>4, <1>5, <1>8 DEF First, SavedOf, ProxyOk
  <2>2. b = hashExp[p]
    BY Zenon, <1>2, <2>1, FirstFacts
  <2>3. ASSUME NEW q \in Pod, Running[q] # None PROVE Running[q] = b
    <3>1. Running[q] = proxy[q].current.hash /\ proxy[q].up /\ proxy[q].serving
      BY Zenon, <2>3 DEF Running
    <3>2. SavedOf(proxy[q]) = proxy[q].current.hash /\ Alive(proxy[q], stream[q])
      BY Zenon, <2>3, <3>1, PodFacts DEF ProxyOk, SavedOf, Alive
    <3>3. Will(proxy[q], hashExp[q]) = hashExp[p]
      BY Zenon, <2>1, <3>2 DEF DeliveryInv, Agreed
    <3> QED BY Zenon, <2>2, <2>3, <3>1, <3>2, <3>3 DEF Will
  <2>4. /\ Saved[p] = None /\ Running[p] = RunningOf(x)
        /\ Running' = [Running EXCEPT ![p] = RunningOf(y)] /\ Saved' = [Saved EXCEPT ![p] = b]
    BY Zenon, <1>1, <2>1, ProxyMoves
  <2>5. Running' = Running
    <3>1. Running = [q \in Pod |-> Running[q]]
      BY Zenon DEF Running
    <3> QED BY Zenon, <1>6, <2>4, <3>1
  <2>6. Rollout!Commit(p, b)
    BY Zenon, <2>3, <2>4, <2>5 DEF Rollout!Commit, Rollout!Others
  <2> QED BY Zenon, <1>2, <2>6 DEF Rollout!Next
<1> QED BY Zenon, <1>7, <1>8

(* Once loaded, it serves with the spec it is committed to; a later spec   *)
(* that differs is not loaded.                                             *)
LEMMA LoadRefines ==
  ASSUME DeliveryInv, NEW p \in Pod, LoadSpec(p)
  PROVE  Rollout!Next \/ UNCHANGED <<Running, Saved>>
<1> DEFINE x == proxy[p]
           l == Load(x)
           y == [l EXCEPT !.half = FALSE, !.serving = TRUE]
<1>1. x \in ProxyType /\ ProxyOk(pod[p], stream[p], x) /\ x.half /\ proxy' = [proxy EXCEPT ![p] = y]
  BY Zenon, PodFacts DEF LoadSpec
<1>2. /\ l \in ProxyType /\ l.expectedFile = x.expectedFile /\ l.up = x.up
      /\ checkLoadable(x) => l.current = x.expected /\ l.currentFile.hash = x.expected.hash
      /\ ~ checkLoadable(x) => l = x
  <2>1. /\ l \in ProxyType /\ l.expectedFile = x.expectedFile /\ l.up = x.up
        /\ checkLoadable(x) => l.current = x.expected /\ l.currentFile = [hash |-> x.expected.hash, limits |-> x.currentFile.limits \cup x.expected.limits]
        /\ ~ checkLoadable(x) => l = x
    BY Zenon, <1>1, LoadFields
  <2> HIDE DEF l
  <2> QED BY <2>1
<1> HIDE DEF l
<1>3. /\ y.serving = TRUE /\ y.up = l.up /\ y.expectedFile = l.expectedFile
      /\ y.current = l.current /\ y.currentFile = l.currentFile
  <2>1. l \in ProxyType
    BY Zenon, <1>2
  <2> QED BY Zenon, <2>1 DEF ProxyType
<1> HIDE DEF y
<1>4. /\ x.up /\ x.expected.hash # None /\ x.current.hash = x.currentFile.hash /\ x.expected.hash = x.expectedFile.hash
      /\ x.serving => x.current.hash # None
  BY Zenon, <1>1 DEF ProxyOk
<1>5. SavedOf(y) = SavedOf(x) /\ RunningOf(y) = SavedOf(x) /\ SavedOf(x) # None
  BY Zenon, <1>2, <1>3, <1>4 DEF SavedOf, RunningOf, checkLoadable
<1>6. CASE x.serving
  <2>1. RunningOf(x) = SavedOf(x)
    BY Zenon, <1>4, <1>6 DEF SavedOf, RunningOf
  <2> QED BY Zenon, <1>1, <1>5, <2>1, ProxyRests
<1>7. CASE ~ x.serving
  <2>1. RunningOf(x) = None
    BY Zenon, <1>7 DEF RunningOf
  <2>2. /\ Running[p] = None /\ Saved[p] = SavedOf(x)
        /\ Running' = [Running EXCEPT ![p] = SavedOf(x)] /\ Saved' = [Saved EXCEPT ![p] = SavedOf(x)]
    <3>1. /\ Running[p] = RunningOf(x) /\ Saved[p] = SavedOf(x)
          /\ Running' = [Running EXCEPT ![p] = RunningOf(y)] /\ Saved' = [Saved EXCEPT ![p] = SavedOf(y)]
      BY Zenon, <1>1, ProxyMoves
    <3> QED BY Zenon, <1>5, <2>1, <3>1
  <2>3. Saved' = Saved
    <3>1. Saved = [q \in Pod |-> Saved[q]]
      BY Zenon DEF Saved
    <3> QED BY Zenon, <2>2, <3>1
  <2>4. Rollout!Serve(p)
    BY Zenon, <1>5, <2>2, <2>3 DEF Rollout!Serve
  <2> QED BY Zenon, <2>4 DEF Rollout!Next
<1> QED BY Zenon, <1>6, <1>7

LEMMA ConnectRefines ==
  ASSUME DeliveryInv, NEW p \in Pod, Connect(p) \/ SendStatus(p) \/ UpdateLeaderElection(p)
  PROVE  UNCHANGED <<Running, Saved>>
<1> DEFINE x == proxy[p]
<1>1. x \in ProxyType
  BY Zenon, PodFacts
<1>2. PICK y : /\ proxy' = [proxy EXCEPT ![p] = y] /\ y.up = x.up /\ y.serving = x.serving /\ y.current = x.current
               /\ y.expectedFile = x.expectedFile /\ y.currentFile = x.currentFile
  <2>1. ASSUME NEW g PROVE LET y == [x EXCEPT !.prev = g] IN
           /\ y.up = x.up /\ y.serving = x.serving /\ y.current = x.current
           /\ y.expectedFile = x.expectedFile /\ y.currentFile = x.currentFile
    BY Zenon, <1>1 DEF ProxyType
  <2>2. LET y == [x EXCEPT !.lead = TRUE] IN
           /\ y.up = x.up /\ y.serving = x.serving /\ y.current = x.current
           /\ y.expectedFile = x.expectedFile /\ y.currentFile = x.currentFile
    BY Zenon, <1>1 DEF ProxyType
  <2>3. \/ proxy' = [proxy EXCEPT ![p] = [x EXCEPT !.prev = NoMeta]]
        \/ proxy' = [proxy EXCEPT ![p] = [x EXCEPT !.prev = GetStatus(x)]]
        \/ proxy' = [proxy EXCEPT ![p] = [x EXCEPT !.lead = TRUE]]
    BY Zenon DEF Connect, SendStatus, UpdateLeaderElection
  <2> QED BY ZenonT(60), <2>1, <2>2, <2>3
<1> QED BY Zenon, <1>2, ProxyRests DEF RunningOf, SavedOf

LEMMA DownRefines ==
  ASSUME DeliveryInv, NEW p \in Pod, NEW y, proxy' = [proxy EXCEPT ![p] = y], ~ y.up,
         SavedOf(y) \in {None, SavedOf(proxy[p])}
  PROVE  Rollout!Next
<1>1. /\ Saved[p] = SavedOf(proxy[p]) /\ Running' = [Running EXCEPT ![p] = None] /\ Saved' = [Saved EXCEPT ![p] = SavedOf(y)]
  BY Zenon, ProxyMoves DEF RunningOf
<1>2. Saved = [q \in Pod |-> Saved[q]]
  BY Zenon DEF Saved
<1>3. Saved' \in {Saved, [Saved EXCEPT ![p] = None]}
  BY Zenon, <1>1, <1>2
<1>4. Rollout!GoDown(p)
  BY Zenon, <1>1, <1>3 DEF Rollout!GoDown
<1> QED BY Zenon, <1>4 DEF Rollout!Next

LEMMA CrashRefines ==
  ASSUME DeliveryInv, NEW p \in Pod, NEW keep \in BOOLEAN, CrashProxy(p, keep)
  PROVE  Rollout!Next
<1> DEFINE x == proxy[p]
           f == x.expectedFile
           k == x.currentFile
           z == [DownProxy EXCEPT !.expectedFile = f, !.currentFile = k]
           y == IF keep THEN z ELSE DownProxy
<1>1. f \in SpecType /\ k \in SpecType /\ f = x.expectedFile /\ k = x.currentFile /\ proxy' = [proxy EXCEPT ![p] = y]
  BY Zenon, PodFacts DEF ProxyType, CrashProxy
<1> HIDE DEF f, k
<1>2. z.up = DownProxy.up /\ z.expectedFile = f /\ z.currentFile = k
  BY Zenon, <1>1, DownProxyFields DEF ProxyType
<1> HIDE DEF z
<1>3. ~ y.up /\ SavedOf(y) \in {None, SavedOf(x)}
  BY Zenon, <1>1, <1>2, DownProxyFields DEF SavedOf
<1> QED BY Zenon, <1>1, <1>3, DownRefines

LEMMA NextRefines ==
  ASSUME Undisturbed, DeliveryInv, [Next]_vars
  PROVE  [Rollout!Next]_<<Running, Saved>>
<1>1. ASSUME UNCHANGED proxy PROVE UNCHANGED <<Running, Saved>>
  BY Zenon, <1>1 DEF Running, Saved
<1>2. ASSUME NEW p \in Pod, ClusterStep(p) PROVE [Rollout!Next]_<<Running, Saved>>
  <2>1. CASE StopContainers(p)
    BY Zenon, <2>1, DownRefines, DownProxyFields DEF StopContainers, SavedOf
  <2> QED BY Zenon, <1>1, <1>2, <2>1 DEF ClusterStep, CreatePod, RunPod, ReadyPod
<1>3. ASSUME NEW p \in Pod, ProxyActs(p) PROVE [Rollout!Next]_<<Running, Saved>>
  BY Zenon, <1>3, StartRefines, ConnectRefines, RecvRefines, LoadRefines DEF ProxyActs
<1>4. ASSUME NEW p \in Pod, Serve(p) \/ ServerReads(p) PROVE UNCHANGED <<Running, Saved>>
  BY Zenon, <1>1, <1>4 DEF Serve, ServerReads
<1>5. ASSUME Worker PROVE UNCHANGED <<Running, Saved>>
  BY Zenon, <1>1, <1>5 DEF Worker
<1>6. ASSUME Environment PROVE [Rollout!Next]_<<Running, Saved>>
  <2>1. ASSUME NEW p \in Pod, Crash(p) PROVE Rollout!Next
    BY Zenon, <2>1, CrashRefines DEF Crash
  <2>2. ASSUME NEW p \in Pod, Elect(p) PROVE UNCHANGED <<Running, Saved>>
    BY Zenon, <2>2, ConnectRefines DEF Elect
  <2> QED BY Zenon, <1>1, <1>6, <2>1, <2>2 DEF Environment, EditConfig, BreakStream, Unready, Relabel, FailDelete, RestartManager
<1>7. CASE UNCHANGED vars
  BY Zenon, <1>1, <1>7 DEF vars
<1> QED BY Zenon, <1>2, <1>3, <1>4, <1>5, <1>6, <1>7 DEF Next

(* The protocol implements SpecRollout: a proxy takes on its first spec    *)
(* only when every proxy that serves has that one, serves with no other    *)
(* one, and gives it up only by going down.                                *)
THEOREM RolloutRefined == Undisturbed => (DeliverySpec => RolloutSpec)
<1> SUFFICES ASSUME Undisturbed PROVE DeliverySpec => RolloutSpec
  BY Zenon
<1>1. Init => Rollout!Init
  BY ZenonT(60), DownProxyFields DEF Init, Rollout!Init, Running, Saved
<1>2. DeliveryInv /\ [Next]_vars => [Rollout!Next]_<<Running, Saved>>
  BY Zenon, NextRefines
<1> QED BY <1>1, <1>2, DeliveryInvariant, PTL DEF DeliverySpec, RolloutSpec, Rollout!Spec
=============================================================================
