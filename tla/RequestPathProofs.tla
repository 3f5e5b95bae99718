------------------------- MODULE RequestPathProofs --------------------------
(***************************************************************************)
(* Proofs about the reverse proxy and the request path, for any number of  *)
(* requests, any pool and any limits: buffers are never shared, no flush   *)
(* comes late, the gates are respected and the selector of the shard is in *)
(* every list and watch that runs.                                         *)
(***************************************************************************)
EXTENDS RequestPath, FiniteSetTheorems, TLAPS

-----------------------------------------------------------------------------
(* The reverse proxy.  A copy owns its buffer and its pending flush only   *)
(* while it runs; this is what makes the two invariants inductive.         *)
Transfer ==
    [pc : {"idle", "roundtrip", "copy", "upgraded", "done"}, asked : BOOLEAN, pooled : BOOLEAN,
     latency : {"now", "late"}, buffer : Buffers \cup {Nil}, held : Nat, left : Nat, pending : BOOLEAN,
     timer : {"off", "armed", "fired"}, cancelled : BOOLEAN, touched : BOOLEAN,
     copier : [Directions -> {"none", "run", "send", "gone"}], errc : {0, 1}, back : {"none", "open", "closed"}]

Orderly(t) == ~ t.touched /\ ((t.pending \/ t.buffer # Nil) => t.pc = "copy")

TransferInv ==
    /\ transfer \in [Request -> Transfer] /\ pool \in SUBSET Buffers
    /\ \A r \in Request : Orderly(transfer[r])
    /\ BuffersExclusive

(* The record a request starts with.                                       *)
LEMMA NoTransferFits == NoTransfer \in Transfer /\ Orderly(NoTransfer) /\ NoTransfer.buffer = Nil
  BY Zenon, PoolAssumption DEF NoTransfer, Transfer, Orderly, Directions

LEMMA BeginTransferFits ==
  ASSUME NEW asked \in BOOLEAN, NEW pooled \in BOOLEAN
  PROVE  LET t == BeginTransfer(asked, pooled) IN t \in Transfer /\ Orderly(t) /\ t.buffer = Nil
  BY ZenonT(60), NoTransferFits DEF BeginTransfer, NoTransfer, Transfer, Orderly, Directions

(* A pool that is empty leaves a buffer that nobody uses: there are more   *)
(* buffers than requests.                                                  *)
LEMMA SpareBuffer ==
  ASSUME TransferInv, pool = {}
  PROVE  \E c \in Buffers : c \notin InUse
<1> DEFINE T == {transfer[r].buffer : r \in Request}
           f == [r \in Request |-> transfer[r].buffer]
<1>1. SUFFICES ASSUME Buffers \subseteq T PROVE FALSE
  BY Zenon DEF InUse, Now
<1>2. f \in Surjection(Request, T)
  BY Zenon DEF Surjection
<1>3. IsFiniteSet(T) /\ Cardinality(T) <= Cardinality(Request)
  <2> HIDE DEF T, f
  <2> QED BY Zenon, <1>2, FS_Surjection, PoolAssumption
<1>4. Cardinality(Request) \in Nat /\ PoolSize \in Nat /\ PoolSize > 0
  BY PoolAssumption, FS_CardinalityType
<1>5. Cardinality(Buffers) = Cardinality(Request) + PoolSize
  BY <1>4, FS_Interval DEF Buffers
<1>6. Cardinality(Buffers) <= Cardinality(T)
  <2> HIDE DEF T
  <2> QED BY Zenon, <1>1, <1>3, FS_Subset
<1>7. Cardinality(T) \in Nat
  BY Zenon, <1>3, FS_CardinalityType
<1> QED BY <1>3, <1>4, <1>5, <1>6, <1>7

(* A step of one copy that keeps its buffer and leaves the pool alone.     *)
LEMMA KeepBuffer ==
  ASSUME TransferInv, NEW r \in Request, NEW t \in Transfer, Orderly(t), t.buffer = Now(r).buffer,
         Become(r, t), UNCHANGED pool
  PROVE  TransferInv'
<1>1. \A s \in Request : transfer'[s] = IF s = r THEN t ELSE transfer[s]
  BY Zenon DEF TransferInv, Become
<1>2. transfer' \in [Request -> Transfer]
  BY Zenon DEF TransferInv, Become
<1>3. \A s \in Request : transfer'[s].buffer = transfer[s].buffer
  BY Zenon, <1>1 DEF Now
<1>4. BuffersExclusive'
  BY Zenon, <1>3 DEF TransferInv, BuffersExclusive, Now
<1> QED BY Zenon, <1>1, <1>2, <1>4 DEF TransferInv

(* A step of one copy that takes a buffer out of the pool.                 *)
LEMMA TakeBuffer ==
  ASSUME TransferInv, NEW r \in Request, NEW t \in Transfer, Orderly(t), t.buffer # Nil, Get(t.buffer), Become(r, t)
  PROVE  TransferInv'
<1>1. \A s \in Request : transfer'[s] = IF s = r THEN t ELSE transfer[s]
  BY Zenon DEF TransferInv, Become
<1>2. transfer' \in [Request -> Transfer] /\ pool' \in SUBSET Buffers
  BY Zenon DEF TransferInv, Become, Get
<1>3. t.buffer \notin pool' /\ pool' \subseteq pool /\ \A s \in Request : transfer[s].buffer # t.buffer
  <2>1. CASE pool = {}
    <3>1. t.buffer \in Buffers \ InUse
      BY Zenon, <2>1, SpareBuffer DEF Get
    <3> QED BY Zenon, <2>1, <3>1 DEF Get, InUse, Now
  <2>2. CASE pool # {}
    BY Zenon, <2>2 DEF Get, TransferInv, BuffersExclusive, Now
  <2> QED BY Zenon, <2>1, <2>2
<1>4. BuffersExclusive'
  BY Zenon, <1>1, <1>3 DEF TransferInv, BuffersExclusive, Now
<1> QED BY Zenon, <1>1, <1>2, <1>4 DEF TransferInv

(* A step of one copy that puts its buffer back.                           *)
LEMMA DropBuffer ==
  ASSUME TransferInv, NEW r \in Request, NEW t \in Transfer, Orderly(t), t.buffer = Nil,
         pool' \subseteq pool \cup ({Now(r).buffer} \ {Nil}), Become(r, t)
  PROVE  TransferInv'
<1>1. \A s \in Request : transfer'[s] = IF s = r THEN t ELSE transfer[s]
  BY Zenon DEF TransferInv, Become
<1>2. transfer[r].buffer \in Buffers \cup {Nil}
  BY Zenon DEF TransferInv, Transfer
<1>3. transfer' \in [Request -> Transfer] /\ pool' \in SUBSET Buffers
  BY Zenon, <1>2 DEF TransferInv, Become, Now
<1>4. BuffersExclusive'
  BY ZenonT(60), <1>1 DEF TransferInv, BuffersExclusive, Now
<1> QED BY Zenon, <1>1, <1>3, <1>4 DEF TransferInv

(* Every step of a handler, its goroutines, its backend or its client.     *)
LEMMA TransferStep ==
  ASSUME TransferInv, NEW r \in Request, Goroutines(r) \/ Peers(r)
  PROVE  TransferInv'
<1> DEFINE t == transfer[r]
<1>1. t \in Transfer /\ Orderly(t)
  BY Zenon DEF TransferInv
<1> HIDE DEF t
<1>2. ASSUME NEW u \in Transfer, Orderly(u), u.buffer = t.buffer, Become(r, u), UNCHANGED pool PROVE TransferInv'
  BY Zenon, <1>2, KeepBuffer DEF Now, t
<1>3. CASE TimerFires(r)
  <2> DEFINE u == [t EXCEPT !.timer = "fired"]
  <2>1. u \in Transfer /\ Orderly(u) /\ u.buffer = t.buffer
    BY Zenon, <1>1 DEF Transfer, Orderly
  <2> QED BY Zenon, <1>2, <1>3, <2>1 DEF TimerFires, Now, t
<1>4. CASE DelayedFlush(r)
  <2>1. delayedFlush(t) \in Transfer /\ Orderly(delayedFlush(t)) /\ delayedFlush(t).buffer = t.buffer
    BY ZenonT(60), <1>1 DEF delayedFlush, Transfer, Orderly
  <2> QED BY Zenon, <1>2, <1>4, <2>1 DEF DelayedFlush, Now, t
<1>5. CASE CloseBackend(r)
  <2> DEFINE u == [t EXCEPT !.back = "closed"]
  <2>1. u \in Transfer /\ Orderly(u) /\ u.buffer = t.buffer
    BY Zenon, <1>1 DEF Transfer, Orderly
  <2> QED BY Zenon, <1>2, <1>5, <2>1 DEF CloseBackend, Now, t
<1>6. CASE EndUpgrade(r)
  <2> DEFINE u == [t EXCEPT !.pc = "done", !.errc = 0]
  <2>0. t.pc = "upgraded"
    BY Zenon, <1>6 DEF EndUpgrade, Now, t
  <2>1. u \in Transfer /\ Orderly(u) /\ u.buffer = t.buffer
    BY Zenon, <1>1, <2>0 DEF Transfer, Orderly
  <2> QED BY Zenon, <1>2, <1>6, <2>1 DEF EndUpgrade, Now, t
<1>7. CASE CopyFails(r) \/ FinishCopy(r)
  <2> DEFINE u == [stop(t) EXCEPT !.pc = "done", !.buffer = Nil, !.held = 0, !.left = 0]
  <2>1. u \in Transfer /\ Orderly(u) /\ u.buffer = Nil
    BY ZenonT(60), <1>1 DEF stop, Transfer, Orderly
  <2>2. Become(r, u) /\ Put(t.buffer)
    BY Zenon, <1>7 DEF CopyFails, FinishCopy, Now, t
  <2>3. pool' \subseteq pool \cup ({Now(r).buffer} \ {Nil})
    BY Zenon, <2>2 DEF Put, Now, t
  <2> QED BY Zenon, <2>1, <2>2, <2>3, DropBuffer
<1>8. CASE \E d \in Directions : CopierSends(r, d)
  <2> PICK d \in Directions : CopierSends(r, d)
    BY Zenon, <1>8
  <2> DEFINE u == [t EXCEPT !.copier[d] = "gone", !.errc = 1]
  <2>1. u \in Transfer /\ Orderly(u) /\ u.buffer = t.buffer
    BY Zenon, <1>1 DEF Transfer, Orderly
  <2> QED BY Zenon, <1>2, <2>1 DEF CopierSends, Now, t
<1>9. CASE \E d \in Directions : CopierEnds(r, d)
  <2> PICK d \in Directions : CopierEnds(r, d)
    BY Zenon, <1>9
  <2> DEFINE u == [t EXCEPT !.copier[d] = "send"]
  <2>1. u \in Transfer /\ Orderly(u) /\ u.buffer = t.buffer
    BY Zenon, <1>1 DEF Transfer, Orderly
  <2> QED BY Zenon, <1>2, <2>1 DEF CopierEnds, Now, t
<1>10. CASE CopyChunk(r)
  <2>0. t.pc = "copy" /\ t.left > 0
    BY Zenon, <1>10 DEF CopyChunk, Now, t
  <2>1. Write(t) \in Transfer /\ Orderly(Write(t)) /\ Write(t).buffer = t.buffer
    <3> DEFINE h == t.held + 1
               l == t.left - 1
               u == [t EXCEPT !.held = h, !.left = l]
    <3>0. h \in Nat /\ l \in Nat
      BY <1>1, <2>0 DEF Transfer
    <3>1. u \in Transfer /\ Orderly(u) /\ u.buffer = t.buffer /\ u.pc = "copy"
      <4> HIDE DEF h, l
      <4> QED BY Zenon, <1>1, <2>0, <3>0 DEF Transfer, Orderly
    <3> HIDE DEF u
    <3>2. [u EXCEPT !.held = 0] \in Transfer /\ Orderly([u EXCEPT !.held = 0]) /\ [u EXCEPT !.held = 0].buffer = u.buffer
      BY Zenon, <3>1 DEF Transfer, Orderly
    <3> DEFINE v == [u EXCEPT !.timer = "armed", !.pending = TRUE]
    <3>3. v \in Transfer /\ Orderly(v) /\ v.buffer = u.buffer
      BY Zenon, <3>1 DEF Transfer, Orderly
    <3>4. Write(t) \in {[u EXCEPT !.held = 0], u, v}
      BY Zenon DEF Write, u
    <3> HIDE DEF v
    <3> QED BY Zenon, <3>1, <3>2, <3>3, <3>4
  <2> QED BY Zenon, <1>2, <1>10, <2>1 DEF CopyChunk, Now, t
<1>11. CASE Unreachable(r)
  <2> DEFINE u == [t EXCEPT !.pc = "done"]
  <2>0. t.pc = "roundtrip"
    BY Zenon, <1>11 DEF Unreachable, Now, t
  <2>1. u \in Transfer /\ Orderly(u) /\ u.buffer = t.buffer
    BY Zenon, <1>1, <2>0 DEF Transfer, Orderly
  <2> QED BY Zenon, <1>2, <1>11, <2>1 DEF Unreachable, Now, t
<1>12. CASE Cancel(r)
  <2> DEFINE u == [t EXCEPT !.cancelled = TRUE]
  <2>1. u \in Transfer /\ Orderly(u) /\ u.buffer = t.buffer
    BY Zenon, <1>1 DEF Transfer, Orderly
  <2> QED BY Zenon, <1>2, <1>12, <2>1 DEF Cancel, Now, t
<1>13. CASE SwitchProtocols(r)
  <2> DEFINE u == [t EXCEPT !.pc = "upgraded", !.back = "open", !.copier = [d \in Directions |-> "run"]]
  <2>0. t.pc = "roundtrip"
    BY Zenon, <1>13 DEF SwitchProtocols, Now, t
  <2>1. u \in Transfer /\ Orderly(u) /\ u.buffer = t.buffer
    BY Zenon, <1>1, <2>0 DEF Transfer, Orderly
  <2> QED BY Zenon, <1>2, <1>13, <2>1 DEF SwitchProtocols, Now, t
<1>14. CASE RefuseSwitch(r)
  <2> DEFINE u == [t EXCEPT !.pc = "done", !.back = "open"]
  <2>0. t.pc = "roundtrip"
    BY Zenon, <1>14 DEF RefuseSwitch, Now, t
  <2>1. u \in Transfer /\ Orderly(u) /\ u.buffer = t.buffer
    BY Zenon, <1>1, <2>0 DEF Transfer, Orderly
  <2> QED BY Zenon, <1>2, <1>14, <2>1 DEF RefuseSwitch, Now, t
<1>15. CASE \E latency \in {"now", "late"}, chunks \in 0 .. MaxChunks : RespondHeader(r, latency, chunks)
  <2> PICK latency \in {"now", "late"}, chunks \in 0 .. MaxChunks : RespondHeader(r, latency, chunks)
    BY Zenon, <1>15
  <2> PICK b \in Buffers \cup {Nil} :
         /\ IF t.pooled THEN Get(b) ELSE b = Nil /\ UNCHANGED pool
         /\ Become(r, [t EXCEPT !.pc = "copy", !.latency = latency, !.buffer = b, !.held = 1,
                                !.left = chunks, !.pending = TRUE, !.timer = "armed"])
    BY Zenon DEF RespondHeader, Now, t
  <2> DEFINE u == [t EXCEPT !.pc = "copy", !.latency = latency, !.buffer = b, !.held = 1,
                            !.left = chunks, !.pending = TRUE, !.timer = "armed"]
  <2>0. chunks \in Nat
    BY PoolAssumption
  <2>1. u \in Transfer /\ Orderly(u) /\ u.buffer = b
    BY Zenon, <1>1, <2>0 DEF Transfer, Orderly
  <2>2. CASE b = Nil
    <3>1. t.buffer = Nil
      BY Zenon, <1>1 DEF RespondHeader, Now, Orderly, t
    <3>2. ~ t.pooled
      <4>1. SUFFICES ASSUME Get(Nil) PROVE FALSE
        BY Zenon, <2>2
      <4>2. Nil \notin Buffers
        BY Zenon, PoolAssumption DEF Buffers
      <4>3. CASE pool = {}
        BY Zenon, <4>1, <4>2, <4>3, SpareBuffer DEF Get
      <4>4. CASE pool # {}
        BY Zenon, <4>1, <4>2, <4>4 DEF Get, TransferInv
      <4> QED BY Zenon, <4>3, <4>4
    <3> QED BY Zenon, <1>2, <2>1, <2>2, <3>1, <3>2
  <2>3. CASE b # Nil
    <3>1. Get(b)
      BY Zenon, <1>1, <2>3 DEF Transfer
    <3> QED BY Zenon, <2>1, <2>3, <3>1, TakeBuffer
  <2> QED BY Zenon, <2>2, <2>3
<1> QED
  BY Zenon, <1>3, <1>4, <1>5, <1>6, <1>7, <1>8, <1>9, <1>10, <1>11, <1>12, <1>13, <1>14, <1>15 DEF Goroutines, Peers
-----------------------------------------------------------------------------
(* The request path.  What is known of a request at each point of its way: *)
(* the gates it has passed, and the selector it was sent with.             *)
Kinds == UNION {Arrivals[r] : r \in Request}

Selectors ==
    {k.selector : k \in Kinds} \cup {Nil}
        \cup {MergeLabelSelector(getObjectSelector(limits, k.resource), k.selector) : limits \in Limits, k \in Kinds}

Asked ==
    [pc : {"none", "api", "rest", "fault", "handler", "sent", "over"}, kind : Kinds \cup {Nil}, selector : Selectors,
     answers : SUBSET {"trim failed", "500", "400", "panic", "upgraded", "refused"},
     verdicts : SUBSET ({"fault", "intercept", "breaker"} \X {"allow", "refuse"})]

Passed(server) == {<<Gates(server)[i], "allow">> : i \in Enabled(server)}

GateInv(q) ==
    /\ q.pc \in {"none", "api", "rest"} => q.answers = {} /\ q.verdicts = {}
    /\ q.pc = "fault" => q.answers \subseteq {"trim failed"} /\ q.verdicts = {}
    /\ q.pc \in {"handler", "sent"} => q.answers \subseteq {"trim failed"} /\ q.verdicts = Passed(q.kind.server)
    /\ <<"fault", "refuse">> \in q.verdicts => <<"breaker", "allow">> \notin q.verdicts

SelectorInv(q, sp) ==
    q.pc = "sent" /\ q.kind.server = "api" /\ q.kind.lock = "none" /\ Limited(q.kind) =>
        /\ sp # Nil
        /\ LET shard == getObjectSelector(sp, q.kind.resource)
           IN  shard # Nil => q.selector = MergeLabelSelector(shard, q.kind.selector)

PathInv ==
    /\ TransferInv
    /\ spec \in Limits \cup {Nil} /\ req \in [Request -> Asked]
    /\ \A r \in Request : /\ req[r].pc # "none" => req[r].kind \in Arrivals[r]
                         /\ GateInv(req[r]) /\ SelectorInv(req[r], spec)

(* A step that changes one request: nothing is known of the others anew.   *)
LEMMA OneRequest ==
  ASSUME PathInv, TransferInv', NEW r \in Request, NEW q \in Asked, Ask(r, q), UNCHANGED spec,
         q.pc # "none" => q.kind \in Arrivals[r], GateInv(q), SelectorInv(q, spec)
  PROVE  PathInv'
<1>1. req' \in [Request -> Asked] /\ \A s \in Request : req'[s] = IF s = r THEN q ELSE req[s]
  BY Zenon DEF PathInv, Ask
<1> QED BY Zenon, <1>1 DEF PathInv

(* The answer to a request that has not been sent ends it.                 *)
LEMMA Answered ==
  ASSUME PathInv, UNCHANGED <<transfer, pool, spec>>, NEW r \in Request, req[r].pc \in {"rest", "handler"},
         NEW code \in {"500", "400", "panic", "upgraded"}, Answer(r, code)
  PROVE  PathInv'
<1> DEFINE q == [req[r] EXCEPT !.pc = "over", !.answers = @ \cup {code}]
<1>1. req[r] \in Asked /\ req[r].kind \in Arrivals[r] /\ GateInv(req[r])
  BY Zenon DEF PathInv
<1>2. q \in Asked /\ q.pc = "over" /\ q.kind = req[r].kind /\ q.verdicts = req[r].verdicts
  BY Zenon, <1>1 DEF Asked
<1>3. TransferInv'
  BY Zenon DEF PathInv, TransferInv, BuffersExclusive, Now
<1>4. Ask(r, q)
  BY Zenon DEF Answer
<1> HIDE DEF q
<1>5. GateInv(q) /\ SelectorInv(q, spec)
  BY Zenon, <1>1, <1>2 DEF GateInv, SelectorInv
<1> QED BY Zenon, <1>1, <1>2, <1>3, <1>4, <1>5, OneRequest

LEMMA PathInitInv == PathInit => PathInv
<1> SUFFICES ASSUME PathInit PROVE PathInv
  BY Zenon
<1>1. TransferInv
  BY Zenon, NoTransferFits DEF PathInit, ReverseInit, TransferInv, BuffersExclusive, Now
<1>2. NoRequest \in Asked
  BY DEF NoRequest, Asked, Selectors
<1>3. GateInv(NoRequest) /\ SelectorInv(NoRequest, spec) /\ NoRequest.pc = "none"
  BY Zenon DEF NoRequest, GateInv, SelectorInv
<1> QED BY Zenon, <1>1, <1>2, <1>3 DEF PathInit, PathInv
(* The verdict of the gates: a gate is asked only after the ones before it *)
(* let the request pass, and the fault injection comes before the breaker. *)
LEMMA GateOrder ==
  ASSUME NEW server \in {"api", "rest"}, NEW i \in DOMAIN Gates(server), Gates(server)[i] = "fault",
         NEW j \in DOMAIN Gates(server), j < i
  PROVE  Gates(server)[j] # "breaker"
  BY DEF Gates

LEMMA GateNames ==
  ASSUME NEW server \in {"api", "rest"}, NEW i \in DOMAIN Gates(server)
  PROVE  Gates(server)[i] \in {"fault", "intercept", "breaker"} /\ i \in Nat
  BY DEF Gates

LEMMA AskGatesInv ==
  ASSUME PathInv, NEW r \in Request, AskGates(r)
  PROVE  PathInv'
<1> DEFINE q == req[r]
           server == q.kind.server
           gate == Gates(server)
           enabled == Enabled(server)
<1>1. q \in Asked /\ q.kind \in Arrivals[r] /\ GateInv(q) /\ q.pc = "fault"
  BY Zenon DEF PathInv, AskGates
<1>2. server \in {"api", "rest"}
  BY Zenon, <1>1, PathAssumption
<1>3. TransferInv' /\ UNCHANGED spec
  BY Zenon DEF PathInv, TransferInv, BuffersExclusive, Now, AskGates
<1>4. \A i \in enabled : i \in DOMAIN gate /\ gate[i] \in {"fault", "intercept", "breaker"} /\ i \in Nat
  BY Zenon, <1>2, GateNames DEF Enabled
<1>5. CASE Ask(r, [q EXCEPT !.pc = "handler", !.verdicts = {<<gate[i], "allow">> : i \in enabled}])
  <2> DEFINE p == [q EXCEPT !.pc = "handler", !.verdicts = {<<gate[i], "allow">> : i \in enabled}]
  <2>1. {<<gate[i], "allow">> : i \in enabled} \in SUBSET ({"fault", "intercept", "breaker"} \X {"allow", "refuse"})
    BY <1>4
  <2>2. p \in Asked /\ p.pc = "handler" /\ p.kind = q.kind /\ p.answers = q.answers /\ p.verdicts = Passed(server)
    <3> HIDE DEF q
    <3> QED BY Zenon, <1>1, <2>1 DEF Asked, Passed
  <2>3. \A v \in p.verdicts : v[2] = "allow"
    BY <2>2 DEF Passed
  <2> HIDE DEF p, q
  <2>4. GateInv(p) /\ SelectorInv(p, spec)
    BY Zenon, <1>1, <2>2, <2>3 DEF GateInv, SelectorInv
  <2> QED BY Zenon, <1>1, <1>3, <1>5, <2>2, <2>4, OneRequest DEF p
<1>6. ASSUME NEW i \in enabled,
             Ask(r, [q EXCEPT !.pc = "over", !.answers = @ \cup {"refused"},
                              !.verdicts = {<<gate[j], "allow">> : j \in {e \in enabled : e < i}} \cup {<<gate[i], "refuse">>}])
      PROVE  PathInv'
  <2> DEFINE vs == {<<gate[j], "allow">> : j \in {e \in enabled : e < i}} \cup {<<gate[i], "refuse">>}
             p == [q EXCEPT !.pc = "over", !.answers = @ \cup {"refused"}, !.verdicts = vs]
  <2>1. vs \in SUBSET ({"fault", "intercept", "breaker"} \X {"allow", "refuse"})
    BY <1>4
  <2>2. <<"fault", "refuse">> \in vs => <<"breaker", "allow">> \notin vs
    BY Zenon, <1>2, <1>4, GateOrder
  <2>3. p \in Asked /\ p.pc = "over" /\ p.kind = q.kind /\ p.verdicts = vs
    <3> HIDE DEF q, vs
    <3> QED BY Zenon, <1>1, <2>1 DEF Asked
  <2> HIDE DEF p, q, vs
  <2>4. GateInv(p) /\ SelectorInv(p, spec)
    BY Zenon, <2>2, <2>3 DEF GateInv, SelectorInv
  <2> QED BY Zenon, <1>1, <1>3, <1>6, <2>3, <2>4, OneRequest DEF p, vs
<1> QED BY Zenon, <1>5, <1>6 DEF AskGates

(* The handler: what it sends on carries the merged selector.              *)
LEMMA ForwardInv ==
  ASSUME PathInv, NEW r \in Request, req[r].pc = "handler", NEW selector \in Selectors, Forward(r, selector),
         UNCHANGED <<pool, spec>>,
         LET k == req[r].kind IN
         k.server = "api" /\ k.lock = "none" /\ Limited(k) =>
             /\ spec # Nil
             /\ LET shard == getObjectSelector(spec, k.resource)
                IN  shard # Nil => selector = MergeLabelSelector(shard, k.selector)
  PROVE  PathInv'
<1> DEFINE q == req[r]
           p == [q EXCEPT !.pc = "sent", !.selector = selector]
           t == BeginTransfer(q.kind.upgrade, q.kind.server = "api")
<1>1. q \in Asked /\ q.kind \in Arrivals[r] /\ GateInv(q)
  BY Zenon DEF PathInv
<1>2. p \in Asked /\ p.pc = "sent" /\ p.kind = q.kind /\ p.selector = selector
        /\ p.answers = q.answers /\ p.verdicts = q.verdicts
  <2> HIDE DEF q
  <2> QED BY Zenon, <1>1 DEF Asked
<1>3. t \in Transfer /\ Orderly(t) /\ t.buffer = Nil
  BY Zenon, <1>1, PathAssumption, BeginTransferFits
<1>4. TransferInv'
  <2> HIDE DEF t
  <2> QED BY Zenon, <1>3, DropBuffer DEF PathInv, Forward, t
<1>5. GateInv(p) /\ SelectorInv(p, spec)
  <2> HIDE DEF p
  <2> QED BY Zenon, <1>1, <1>2 DEF GateInv, SelectorInv
<1> QED BY Zenon, <1>1, <1>2, <1>4, <1>5, OneRequest DEF Forward

LEMMA ServeHTTPInv ==
  ASSUME PathInv, NEW r \in Request, ServeHTTP(r)
  PROVE  PathInv'
<1> DEFINE k == req[r].kind
<1>1. req[r].pc = "handler" /\ k \in Arrivals[r] /\ UNCHANGED <<pool, spec>>
  BY Zenon DEF PathInv, ServeHTTP
<1>2. k.selector \in Selectors /\ (~ Panics(k) => injectSelector(k) \in Selectors)
  BY <1>1 DEF Selectors, Kinds, injectSelector, Injects, PathInv
<1>3. ASSUME NEW code \in {"500", "400", "panic", "upgraded"}, Answer(r, code), UNCHANGED transfer PROVE PathInv'
  BY Zenon, <1>1, <1>3, Answered
<1>4. CASE (k.server = "rest" \/ k.lock = "ours") /\ Forward(r, k.selector)
  BY Zenon, <1>1, <1>2, <1>4, ForwardInv
<1>5. CASE ~ Panics(k) /\ Forward(r, IF k.resource = Nil THEN k.selector ELSE injectSelector(k))
  BY Zenon, <1>1, <1>2, <1>5, ForwardInv DEF Panics, injectSelector, Injects, Limited
<1> QED BY Zenon, <1>3, <1>4, <1>5 DEF ServeHTTP, WithPanicRecovery
(* Every step of the proxy keeps the invariant.                            *)
LEMMA PathNextInv == PathInv /\ [PathNext]_pathVars => PathInv'
<1> SUFFICES ASSUME PathInv, [PathNext]_pathVars PROVE PathInv'
  BY Zenon
<1>1. ASSUME UNCHANGED <<transfer, pool, spec, req>> PROVE PathInv'
  BY Zenon, <1>1 DEF PathInv, TransferInv, BuffersExclusive, Now
<1>2. ASSUME UNCHANGED <<transfer, pool>> PROVE TransferInv'
  BY Zenon, <1>2 DEF PathInv, TransferInv, BuffersExclusive, Now
<1>3. ASSUME UNCHANGED <<transfer, pool, req>>, spec' \in Limits \cup {Nil}, spec # Nil => spec' = spec PROVE PathInv'
  <2>1. \A r \in Request : SelectorInv(req[r], spec) => SelectorInv(req[r], spec')
    BY Zenon, <1>3 DEF SelectorInv
  <2> QED BY Zenon, <1>2, <1>3, <2>1 DEF PathInv
<1>4. CASE Main
  BY Zenon, <1>3, <1>4 DEF Main, PathInv
<1>5. CASE LoadLimits
  BY Zenon, <1>3, <1>5 DEF LoadLimits, checkLoadable, PathInv
<1>6. CASE RestartProxy
  <2>1. TransferInv'
    BY Zenon, <1>6, NoTransferFits DEF RestartProxy, TransferInv, BuffersExclusive, Now
  <2>2. NoRequest \in Asked /\ GateInv(NoRequest) /\ SelectorInv(NoRequest, spec') /\ NoRequest.pc = "none"
    BY DEF NoRequest, Asked, Selectors, GateInv, SelectorInv
  <2> QED BY Zenon, <1>6, <2>1, <2>2 DEF RestartProxy, PathInv
<1>7. ASSUME NEW r \in Request, Arrive(r) PROVE PathInv'
  <2> PICK k \in Arrivals[r] : Ask(r, [NoRequest EXCEPT !.pc = k.server, !.kind = k])
    BY Zenon, <1>7 DEF Arrive
  <2> DEFINE q == [NoRequest EXCEPT !.pc = k.server, !.kind = k]
  <2>1. k.server \in {"api", "rest"} /\ k \in Kinds
    BY Zenon, PathAssumption DEF Kinds
  <2>2. q \in Asked /\ q.kind = k /\ GateInv(q) /\ SelectorInv(q, spec)
    <3>1. NoRequest \in Asked /\ NoRequest.answers = {} /\ NoRequest.verdicts = {}
      BY DEF NoRequest, Asked, Selectors
    <3>2. q \in Asked /\ q.pc = k.server /\ q.kind = k /\ q.answers = {} /\ q.verdicts = {}
      BY Zenon, <2>1, <3>1 DEF Asked
    <3> HIDE DEF q
    <3> QED BY Zenon, <2>1, <3>2 DEF GateInv, SelectorInv
  <2>3. TransferInv'
    BY Zenon, <1>7, NoTransferFits, DropBuffer DEF Arrive, PathInv
  <2> HIDE DEF q
  <2> QED BY Zenon, <1>7, <2>2, <2>3, OneRequest DEF Arrive, q
<1>8. ASSUME NEW r \in Request, WithRequestInfo(r) PROVE PathInv'
  <2> DEFINE q == req[r]
             p == IF q.kind.url = "bad" THEN [q EXCEPT !.pc = "over", !.answers = {"500"}]
                  ELSE [q EXCEPT !.pc = "fault", !.answers = IF q.kind.url = "unprefixed" THEN {"trim failed"} ELSE {}]
  <2>1. q \in Asked /\ q.kind \in Arrivals[r] /\ GateInv(q) /\ q.pc = "api"
    BY Zenon, <1>8 DEF PathInv, WithRequestInfo
  <2>2. Ask(r, p) /\ UNCHANGED <<transfer, pool, spec>>
    BY Zenon, <1>8 DEF WithRequestInfo
  <2> HIDE DEF q
  <2>3. p \in Asked /\ p.kind = q.kind /\ p.verdicts = q.verdicts
    BY Zenon, <2>1 DEF Asked
  <2>4. p.pc = "over" \/ (p.pc = "fault" /\ p.answers \subseteq {"trim failed"})
    BY Zenon, <2>1 DEF Asked
  <2> HIDE DEF p
  <2>5. GateInv(p) /\ SelectorInv(p, spec)
    BY Zenon, <2>1, <2>3, <2>4 DEF GateInv, SelectorInv
  <2> QED BY Zenon, <1>2, <2>1, <2>2, <2>3, <2>5, OneRequest
<1>9. ASSUME NEW r \in Request, RealEndpoint(r) PROVE PathInv'
  <2> DEFINE q == req[r]
             p == [q EXCEPT !.pc = "fault"]
  <2>1. q \in Asked /\ q.kind \in Arrivals[r] /\ GateInv(q) /\ q.pc = "rest" /\ UNCHANGED <<transfer, pool, spec>>
    BY Zenon, <1>9 DEF PathInv, RealEndpoint
  <2>2. CASE Answer(r, "500")
    BY Zenon, <2>1, <2>2, Answered
  <2>3. CASE Ask(r, p)
    <3> HIDE DEF q
    <3>1. p \in Asked /\ p.pc = "fault" /\ p.kind = q.kind /\ p.answers = q.answers /\ p.verdicts = q.verdicts
      BY Zenon, <2>1 DEF Asked
    <3> HIDE DEF p
    <3>2. GateInv(p) /\ SelectorInv(p, spec)
      BY Zenon, <2>1, <3>1 DEF GateInv, SelectorInv
    <3> QED BY Zenon, <1>2, <2>1, <2>3, <3>1, <3>2, OneRequest
  <2> QED BY Zenon, <1>9, <2>2, <2>3 DEF RealEndpoint
<1>10. ASSUME NEW r \in Request, Proxying(r), Goroutines(r) \/ Peers(r) PROVE PathInv'
  <2>1. TransferInv'
    BY Zenon, <1>10, TransferStep DEF PathInv
  <2> QED BY Zenon, <1>10, <2>1 DEF Proxying, PathInv
<1>11. CASE UNCHANGED pathVars
  BY Zenon, <1>1, <1>11 DEF pathVars
<1> QED
  BY Zenon, <1>4, <1>5, <1>6, <1>7, <1>8, <1>9, <1>10, <1>11, AskGatesInv, ServeHTTPInv DEF PathNext, Handling

LEMMA PathAlways == PathSpec => []PathInv
<1>1. PathInit => PathInv
  BY Zenon, PathInitInv
<1>2. PathInv /\ [PathNext]_pathVars => PathInv'
  BY Zenon, PathNextInv
<1> QED BY <1>1, <1>2, PTL DEF PathSpec

-----------------------------------------------------------------------------
(* bytesPool and copyResponse: however many requests, chunks, timers and   *)
(* failures interleave, no two copies share a buffer and none uses one     *)
(* that is back in the pool.                                               *)
THEOREM BuffersCorrect == PathSpec => []BuffersExclusive
<1>1. PathInv => BuffersExclusive
  BY Zenon DEF PathInv, TransferInv
<1> QED BY <1>1, PathAlways, PTL

(* maxLatencyWriter: the goroutine of the timer, however late it takes the *)
(* lock, does not flush a response whose handler has returned.             *)
THEOREM FlushesCorrect == PathSpec => []NoLateFlush
<1>1. PathInv => NoLateFlush
  BY Zenon DEF PathInv, TransferInv, Orderly, NoLateFlush, Now
<1> QED BY <1>1, PathAlways, PTL

(* The handler chain: no request reaches the backend past a gate that is   *)
(* switched on, and an injected fault is not counted by the breaker.       *)
THEOREM GatesCorrect == PathSpec => []GatesRespected
<1>1. PathInv => GatesRespected
  <2> SUFFICES ASSUME PathInv, NEW r \in Request
               PROVE  /\ req[r].pc = "sent" =>
                            /\ req[r].answers \subseteq {"trim failed"}
                            /\ \A i \in Enabled(req[r].kind.server) :
                                  <<Gates(req[r].kind.server)[i], "allow">> \in req[r].verdicts
                      /\ <<"fault", "refuse">> \in req[r].verdicts => <<"breaker", "allow">> \notin req[r].verdicts
    BY Zenon DEF GatesRespected
  <2>1. GateInv(req[r])
    BY Zenon DEF PathInv
  <2>2. \A i \in Enabled(req[r].kind.server) : <<Gates(req[r].kind.server)[i], "allow">> \in Passed(req[r].kind.server)
    BY Zenon DEF Passed
  <2> QED BY Zenon, <2>1, <2>2 DEF GateInv
<1> QED BY <1>1, PathAlways, PTL

(* util.MergeLabelSelector: two selectors that name no label with two      *)
(* values merge to one that selects what both select.                      *)
THEOREM MergeSelects ==
  ASSUME NEW a, NEW b, a # Nil, b # Nil, MergeLabelSelector(a, b) # Nil,
         \A x \in Label : a.matchLabels[x] = Nil \/ b.matchLabels[x] \in {Nil, a.matchLabels[x]},
         NEW o
  PROVE  Selects(MergeLabelSelector(a, b), o) <=> Selects(a, o) /\ Selects(b, o)
<1> DEFINE m == MergeLabelSelector(a, b)
<1>1. /\ m.matchExpressions = a.matchExpressions \cup b.matchExpressions
      /\ \A x \in Label : m.matchLabels[x] = IF b.matchLabels[x] # Nil THEN b.matchLabels[x] ELSE a.matchLabels[x]
  <2>1. m = [matchLabels |-> [x \in Label |-> IF b.matchLabels[x] # Nil THEN b.matchLabels[x] ELSE a.matchLabels[x]],
             matchExpressions |-> a.matchExpressions \cup b.matchExpressions]
    BY Zenon DEF MergeLabelSelector
  <2> HIDE DEF m
  <2> QED BY Zenon, <2>1
<1> HIDE DEF m
<1>2. m # Nil
  BY Zenon DEF m
<1>3. (\A x \in Label : m.matchLabels[x] # Nil => o[x] = m.matchLabels[x])
        <=> /\ \A x \in Label : a.matchLabels[x] # Nil => o[x] = a.matchLabels[x]
            /\ \A x \in Label : b.matchLabels[x] # Nil => o[x] = b.matchLabels[x]
  BY Zenon, <1>1
<1>4. (\A e \in m.matchExpressions : Holds(e, o))
        <=> (\A e \in a.matchExpressions : Holds(e, o)) /\ (\A e \in b.matchExpressions : Holds(e, o))
  BY Zenon, <1>1
<1> QED BY Zenon, <1>2, <1>3, <1>4 DEF Selects, m

(* The injector of the apiserver proxy: as long as clients do not ask for  *)
(* another value of a label that the shard's limits fix with matchLabels,  *)
(* every list and watch that runs shows what the shard and the client      *)
(* select and nothing else, across restarts and reloads of the spec.       *)
THEOREM IsolationCorrect == ClientsKeepOut => (PathSpec => []ShardIsolated)
<1> SUFFICES ASSUME ClientsKeepOut PROVE PathSpec => []ShardIsolated
  BY Zenon
<1>1. PathInv => ShardIsolated
  <2> SUFFICES ASSUME PathInv, NEW r \in Request, req[r].pc = "sent", req[r].kind.server = "api",
                      req[r].kind.lock = "none", Limited(req[r].kind)
               PROVE  LET k == req[r].kind
                          shard == getObjectSelector(spec, k.resource)
                      IN  /\ spec # Nil
                          /\ shard # Nil => \A o \in Object :
                                Selects(req[r].selector, o)
                                  <=> Selects(shard, o) /\ (k.selector # Nil => Selects(k.selector, o))
    BY Zenon DEF ShardIsolated
  <2> DEFINE k == req[r].kind
             shard == getObjectSelector(spec, k.resource)
  <2>1. k \in Arrivals[r] /\ spec \in Limits /\ spec # Nil
          /\ (shard # Nil => req[r].selector = MergeLabelSelector(shard, k.selector))
    BY Zenon DEF PathInv, SelectorInv
  <2>2. CASE k.selector = Nil
    BY Zenon, <2>1, <2>2 DEF MergeLabelSelector
  <2>3. CASE k.selector # Nil /\ shard # Nil
    <3>1. MergeLabelSelector(shard, k.selector) # Nil
      BY Zenon, <2>1, <2>3, PathAssumption
    <3>2. \A x \in Label : shard.matchLabels[x] = Nil \/ k.selector.matchLabels[x] \in {Nil, shard.matchLabels[x]}
      BY Zenon, <2>1, <2>3 DEF ClientsKeepOut
    <3> HIDE DEF k, shard
    <3>3. \A o \in Object : Selects(MergeLabelSelector(shard, k.selector), o) <=> Selects(shard, o) /\ Selects(k.selector, o)
      BY Zenon, <2>3, <3>1, <3>2, MergeSelects
    <3> QED BY Zenon, <2>1, <2>3, <3>3 DEF k, shard
  <2>4. CASE shard = Nil
    BY Zenon, <2>1, <2>4
  <2> QED BY Zenon, <2>2, <2>3, <2>4
<1> QED BY <1>1, PathAlways, PTL
=============================================================================
