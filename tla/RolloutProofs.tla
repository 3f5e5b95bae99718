--------------------------- MODULE RolloutProofs ---------------------------
(***************************************************************************)
(* Proofs about the rollout controller, for any StatefulSet, any grouping  *)
(* of its Pods into ShardingConfigs and any lag of the informers: shards   *)
(* are rolled one after another, the leader goes last, no recorded Pod is  *)
(* deleted again, and the label is dropped only when all are updated.      *)
(***************************************************************************)
EXTENDS Rollout, FiniteSetTheorems, TLAPS

PodVersion == [rev : Nat, phase : {"ready", "unready", "terminating", "gone"}]
StsType == [rev : Nat, roll : (SUBSET Configs) \cup {None}, onDelete : BOOLEAN, annotated : BOOLEAN,
            expected : [Labelled -> Nat] \cup {None}, upgraded : SUBSET Pods]

-----------------------------------------------------------------------------
(* The versions of a Pod p: the one the informer has, at position 0, and   *)
(* those on their way to it, at their position in the watch.               *)
Positions(w, p) == {0} \cup {i \in DOMAIN w : w[i][1] = p}
Told(w, s, p) == [i \in Positions(w, p) |-> IF i = 0 THEN s[p] ELSE w[i][2]]
Gone(v) == v.phase = "gone"

(* Along the versions h up to the API server's o, revisions only grow, and *)
(* a Pod keeps its revision until it is gone.                              *)
History(h, o, rev) ==
    /\ o.rev <= rev
    /\ \A i \in DOMAIN h :
          /\ h[i] \in PodVersion /\ h[i].rev <= rev
          /\ ~ Gone(h[i]) /\ ~ Gone(o) => h[i].rev <= o.rev
          /\ \A j \in DOMAIN h : i < j /\ ~ Gone(h[i]) /\ ~ Gone(h[j]) => h[i].rev <= h[j].rev
          /\ ~ Gone(h[i]) /\ (\A j \in DOMAIN h : i < j => ~ Gone(h[j])) => ~ Gone(o) /\ h[i].rev = o.rev
          /\ (\A j \in DOMAIN h : ~ (i < j)) => h[i] = o

(* Of a Pod that went or goes and is not recorded, all that the informer   *)
(* has and will be told before its end says that it is being deleted.      *)
Kept(h, o, p, recorded) ==
    /\ \A k \in DOMAIN h : 0 < k /\ Gone(h[k]) =>
          /\ o.phase # "terminating"
          /\ \A j \in DOMAIN h : k < j => h[j].phase \in {"ready", "unready"}
          /\ p \in recorded \/ \A i \in DOMAIN h : i < k => h[i].phase = "terminating"
    /\ o.phase = "terminating" => p \in recorded \/ \A i \in DOMAIN h : h[i].phase = "terminating"

(* From here on the Pod is gone or has revision r at least.                *)
Past(h, o, r) ==
    /\ Gone(o) \/ r <= o.rev
    /\ \A i \in DOMAIN h : Gone(h[i]) \/ r <= h[i].rev

(* It has not been ready at revision r.                                    *)
NotBack(h, o, r) ==
    /\ r <= o.rev => o.phase # "ready"
    /\ \A i \in DOMAIN h : r <= h[i].rev => h[i].phase # "ready"

HistoryOf(p) == Told(watch, seenPods, p)
PastNow(p, r) == Past(HistoryOf(p), pods[p], r)

Before(c, d) == \E i, j \in DOMAIN Order : i < j /\ Order[i] = c /\ Order[j] = d

(* The config of p is rolled, and those before it have been.               *)
InTurn(roll, p, r) ==
    roll # None => /\ ConfigOf[p] \in roll
                   /\ \A c \in roll : Before(c, ConfigOf[p]) => \A q \in Members(c) : PastNow(q, r)

StsInv ==
    /\ sts \in StsType /\ stsSeen \in StsType /\ current \in BOOLEAN
    /\ stsSeen.rev <= sts.rev /\ (current => stsSeen = sts)

HistoryInv ==
    /\ pods \in [Pods -> PodVersion] /\ seenPods \in [Pods -> PodVersion] /\ watch \in Seq(Pods \X PodVersion)
    /\ \A p \in Pods : History(HistoryOf(p), pods[p], sts.rev)

KeptInv ==
    \A p \in Pods : p \notin unrecorded => Kept(HistoryOf(p), pods[p], p, deleting)

(* Where the rollout the controller works on has been ended, nothing of it *)
(* is left to do.                                                          *)
EndedInv ==
    stsSeen.roll # None /\ stsSeen.onDelete /\ sts.roll # stsSeen.roll =>
        \A c \in stsSeen.roll : \A q \in Members(c) : PastNow(q, stsSeen.rev)

DownInv ==
    /\ down \in [Pods -> Nat]
    /\ \A p \in Pods : down[p] # 0 =>
          /\ down[p] <= stsSeen.rev
          /\ NotBack(HistoryOf(p), pods[p], down[p])
          /\ InTurn(sts.roll, p, down[p]) /\ InTurn(stsSeen.roll, p, down[p])

RolloutInv == StsInv /\ HistoryInv /\ KeptInv /\ EndedInv /\ DownInv /\ OneShardAtATime

-----------------------------------------------------------------------------
(* What happens to the versions of a Pod: one is added at the end, or the  *)
(* informer moves on to a later one.                                       *)
Adds(h, g, v) ==
    \E n \in Nat : /\ DOMAIN g = DOMAIN h \cup {n} /\ g[n] = v
                   /\ \A i \in DOMAIN h : i < n /\ g[i] = h[i]

MovesOn(h, g) ==
    \E f \in [DOMAIN g -> DOMAIN h] :
        /\ \A i \in DOMAIN g : g[i] = h[f[i]]
        /\ \A i, j \in DOMAIN g : i < j => f[i] < f[j]
        /\ \A i \in DOMAIN g : \A k \in DOMAIN h : f[i] < k => \E j \in DOMAIN g : f[j] = k /\ i < j

(* The versions of a Pod follow each other so.                             *)
Follows(a, b, rev) ==
    \/ a.phase = "gone" /\ b.phase = "unready" /\ b.rev = rev
    \/ a.phase = "terminating" /\ b.phase = "gone"
    \/ a.phase \in {"ready", "unready"} /\ b.phase \in {"ready", "unready", "terminating"} /\ b.rev = a.rev

LEMMA HistoryAdds ==
  ASSUME NEW h, NEW g, NEW o \in PodVersion, NEW v \in PodVersion, NEW rev \in Nat, DOMAIN h \subseteq Nat,
         History(h, o, rev), Adds(h, g, v), Follows(o, v, rev), v.rev <= rev
  PROVE  History(g, v, rev) /\ DOMAIN g \subseteq Nat
<1>1. PICK n \in Nat : /\ DOMAIN g = DOMAIN h \cup {n} /\ g[n] = v
                       /\ \A i \in DOMAIN h : i < n /\ g[i] = h[i]
  BY Zenon DEF Adds
<1>2. \A i \in DOMAIN h : ~ (n < i) /\ i \in Nat /\ h[i] \in PodVersion /\ h[i].rev \in Nat
  BY <1>1 DEF History, PodVersion
<1>3. o.rev \in Nat /\ v.rev \in Nat
  BY Zenon DEF PodVersion
<1>4. ASSUME NEW i \in DOMAIN g
      PROVE  /\ g[i] \in PodVersion /\ g[i].rev <= rev
             /\ ~ Gone(g[i]) /\ ~ Gone(v) => g[i].rev <= v.rev
    BY <1>1, <1>2, <1>3 DEF History, Follows, Gone
<1>5. ASSUME NEW i \in DOMAIN g, NEW j \in DOMAIN g, i < j, ~ Gone(g[i]), ~ Gone(g[j])
      PROVE  g[i].rev <= g[j].rev
  <2>1. i \in DOMAIN h
    BY <1>1, <1>2, <1>5
  <2>2. CASE j = n
    BY Zenon, <1>1, <1>4, <1>5, <2>2
  <2>3. CASE j # n
    BY Zenon, <1>1, <1>5, <2>1, <2>3 DEF History
  <2> QED BY Zenon, <2>2, <2>3
<1>6. ASSUME NEW i \in DOMAIN g, ~ Gone(g[i]), \A j \in DOMAIN g : i < j => ~ Gone(g[j])
      PROVE  ~ Gone(v) /\ g[i].rev = v.rev
  <2>1. CASE i = n
    BY Zenon, <1>1, <1>6, <2>1
  <2>2. CASE i # n
    <3>1. i \in DOMAIN h /\ ~ Gone(h[i]) /\ (\A j \in DOMAIN h : i < j => ~ Gone(h[j])) /\ ~ Gone(v)
      BY Zenon, <1>1, <1>6, <2>2
    <3>2. ~ Gone(o) /\ h[i].rev = o.rev
      BY Zenon, <3>1 DEF History
    <3> QED BY Zenon, <1>1, <3>1, <3>2 DEF Follows, Gone
  <2> QED BY Zenon, <2>1, <2>2
<1>7. ASSUME NEW i \in DOMAIN g, \A j \in DOMAIN g : ~ (i < j) PROVE g[i] = v
  BY Zenon, <1>1, <1>7
<1> QED BY Zenon, <1>1, <1>4, <1>5, <1>6, <1>7 DEF History

LEMMA KeptAdds ==
  ASSUME NEW h, NEW g, NEW o, NEW v, NEW rev, NEW p, NEW d, DOMAIN h \subseteq Nat,
         Kept(h, o, p, d), Adds(h, g, v), Follows(o, v, rev), v.phase # "terminating"
  PROVE  Kept(g, v, p, d)
<1>1. PICK n \in Nat : /\ DOMAIN g = DOMAIN h \cup {n} /\ g[n] = v
                       /\ \A i \in DOMAIN h : i < n /\ g[i] = h[i]
  BY Zenon DEF Adds
<1>2. ASSUME NEW k \in DOMAIN g, 0 < k, Gone(g[k])
      PROVE  /\ \A j \in DOMAIN g : k < j => g[j].phase \in {"ready", "unready"}
             /\ p \in d \/ \A i \in DOMAIN g : i < k => g[i].phase = "terminating"
  <2>1. CASE k = n
    <3>1. o.phase = "terminating"
      BY Zenon, <1>1, <1>2, <2>1 DEF Follows, Gone
    <3>2. p \in d \/ \A i \in DOMAIN h : h[i].phase = "terminating"
      BY Zenon, <3>1 DEF Kept
    <3> QED BY <1>1, <2>1, <3>2
  <2>2. CASE k # n
    <3>1. k \in DOMAIN h /\ Gone(h[k])
      BY Zenon, <1>1, <1>2, <2>2
    <3>2. /\ o.phase # "terminating"
          /\ \A j \in DOMAIN h : k < j => h[j].phase \in {"ready", "unready"}
          /\ p \in d \/ \A i \in DOMAIN h : i < k => h[i].phase = "terminating"
      BY Zenon, <1>2, <3>1 DEF Kept
    <3>3. v.phase \in {"ready", "unready"}
      BY Zenon, <3>2 DEF Follows
    <3> QED BY <1>1, <3>1, <3>2, <3>3
  <2> QED BY Zenon, <2>1, <2>2
<1> QED BY Zenon, <1>2 DEF Kept

LEMMA PastAdds ==
  ASSUME NEW h, NEW g, NEW o, NEW v, NEW rev, NEW r, Past(h, o, r), Adds(h, g, v), Follows(o, v, rev), r <= rev
  PROVE  Past(g, v, r)
  BY Zenon DEF Past, Adds, Follows, Gone

LEMMA NotBackAdds ==
  ASSUME NEW h, NEW g, NEW o, NEW v, NEW r, NotBack(h, o, r), Adds(h, g, v), v = o \/ v.phase # "ready"
  PROVE  NotBack(g, v, r)
  BY Zenon DEF NotBack, Adds

LEMMA HistoryMovesOn ==
  ASSUME NEW h, NEW g, NEW o, NEW rev, History(h, o, rev), MovesOn(h, g)
  PROVE  History(g, o, rev)
<1>1. PICK f \in [DOMAIN g -> DOMAIN h] :
        /\ \A i \in DOMAIN g : g[i] = h[f[i]]
        /\ \A i, j \in DOMAIN g : i < j => f[i] < f[j]
        /\ \A i \in DOMAIN g : \A k \in DOMAIN h : f[i] < k => \E j \in DOMAIN g : f[j] = k /\ i < j
  BY Zenon DEF MovesOn
<1>2. ASSUME NEW i \in DOMAIN g
      PROVE  /\ g[i] \in PodVersion /\ g[i].rev <= rev
             /\ ~ Gone(g[i]) /\ ~ Gone(o) => g[i].rev <= o.rev
             /\ \A j \in DOMAIN g : i < j /\ ~ Gone(g[i]) /\ ~ Gone(g[j]) => g[i].rev <= g[j].rev
             /\ ~ Gone(g[i]) /\ (\A j \in DOMAIN g : i < j => ~ Gone(g[j])) => ~ Gone(o) /\ g[i].rev = o.rev
             /\ (\A j \in DOMAIN g : ~ (i < j)) => g[i] = o
  <2>1. f[i] \in DOMAIN h /\ g[i] = h[f[i]]
    BY Zenon, <1>1
  <2>2. g[i] \in PodVersion /\ g[i].rev <= rev /\ (~ Gone(g[i]) /\ ~ Gone(o) => g[i].rev <= o.rev)
    BY Zenon, <2>1 DEF History
  <2>3. \A j \in DOMAIN g : i < j /\ ~ Gone(g[i]) /\ ~ Gone(g[j]) => g[i].rev <= g[j].rev
    BY Zenon, <1>1, <2>1 DEF History
  <2>4. ASSUME ~ Gone(g[i]), \A j \in DOMAIN g : i < j => ~ Gone(g[j]) PROVE ~ Gone(o) /\ g[i].rev = o.rev
    <3>1. \A k \in DOMAIN h : f[i] < k => ~ Gone(h[k])
      BY <1>1, <2>4
    <3> QED BY Zenon, <2>1, <2>4, <3>1 DEF History
  <2>5. ASSUME \A j \in DOMAIN g : ~ (i < j) PROVE g[i] = o
    <3>1. \A k \in DOMAIN h : ~ (f[i] < k)
      BY Zenon, <1>1, <2>5
    <3> QED BY Zenon, <2>1, <3>1 DEF History
  <2> QED BY Zenon, <2>2, <2>3, <2>4, <2>5
<1> QED BY Zenon, <1>2 DEF History

LEMMA PastMovesOn ==
  ASSUME NEW h, NEW g, NEW o, NEW r, MovesOn(h, g)
  PROVE  (Past(h, o, r) => Past(g, o, r)) /\ (NotBack(h, o, r) => NotBack(g, o, r))
  BY DEF Past, NotBack, MovesOn

LEMMA KeptMovesOn ==
  ASSUME NEW h, NEW g, NEW o, NEW p, NEW d, Kept(h, o, p, d), MovesOn(h, g), DOMAIN h \subseteq Nat, 0 \in DOMAIN g
  PROVE  Kept(g, o, p, d)
<1>1. PICK f \in [DOMAIN g -> DOMAIN h] :
        /\ \A i \in DOMAIN g : g[i] = h[f[i]]
        /\ \A i, j \in DOMAIN g : i < j => f[i] < f[j]
  BY Zenon DEF MovesOn
<1>2. ASSUME NEW k \in DOMAIN g, 0 < k, Gone(g[k])
      PROVE  /\ o.phase # "terminating"
             /\ \A j \in DOMAIN g : k < j => g[j].phase \in {"ready", "unready"}
             /\ p \in d \/ \A i \in DOMAIN g : i < k => g[i].phase = "terminating"
  <2>1. f[k] \in DOMAIN h /\ Gone(h[f[k]]) /\ 0 < f[k]
    <3>1. f[0] \in Nat /\ f[k] \in Nat /\ f[0] < f[k]
      BY Zenon, <1>1, <1>2
    <3> QED BY <1>1, <1>2, <3>1
  <2>2. /\ o.phase # "terminating"
        /\ \A j \in DOMAIN h : f[k] < j => h[j].phase \in {"ready", "unready"}
        /\ p \in d \/ \A i \in DOMAIN h : i < f[k] => h[i].phase = "terminating"
    BY Zenon, <2>1 DEF Kept
  <2> QED BY <1>1, <1>2, <2>2
<1>3. o.phase = "terminating" => p \in d \/ \A i \in DOMAIN g : g[i].phase = "terminating"
  BY <1>1 DEF Kept
<1> QED BY Zenon, <1>2, <1>3 DEF Kept

-----------------------------------------------------------------------------
(* The watch gains versions at its end and loses them at its head.         *)
LEMMA ToldTyped ==
  ASSUME NEW w \in Seq(Pods \X PodVersion), NEW s, NEW p
  PROVE  DOMAIN Told(w, s, p) \subseteq Nat /\ 0 \in DOMAIN Told(w, s, p) /\ Told(w, s, p)[0] = s[p]
  BY DEF Told, Positions

LEMMA ToldAppended ==
  ASSUME NEW w \in Seq(Pods \X PodVersion), NEW e \in Seq(Pods \X PodVersion), NEW s, NEW p
  PROVE  /\ (\A i \in DOMAIN e : e[i][1] # p) => Told(w \o e, s, p) = Told(w, s, p)
         /\ \A k \in DOMAIN e : e[k][1] = p /\ (\A i \in DOMAIN e : e[i][1] = p => i = k) =>
               Adds(Told(w, s, p), Told(w \o e, s, p), e[k][2])
<1>1. /\ w \o e \in Seq(Pods \X PodVersion) /\ Len(w \o e) = Len(w) + Len(e)
      /\ \A i \in 1 .. Len(w) : (w \o e)[i] = w[i]
      /\ \A i \in Len(w) + 1 .. Len(w) + Len(e) : (w \o e)[i] = e[i - Len(w)]
      /\ Len(w) \in Nat /\ Len(e) \in Nat /\ DOMAIN w = 1 .. Len(w) /\ DOMAIN e = 1 .. Len(e)
      /\ DOMAIN (w \o e) = 1 .. Len(w) + Len(e)
  OBVIOUS
<1> DEFINE u == w \o e
<1> HIDE DEF u
<1>2. ASSUME \A i \in DOMAIN e : e[i][1] # p PROVE Told(u, s, p) = Told(w, s, p)
  <2>1. Positions(u, p) = Positions(w, p)
    BY <1>1, <1>2 DEF Positions, u
  <2>2. \A i \in Positions(w, p) : i # 0 => u[i] = w[i]
    BY Zenon, <1>1 DEF Positions, u
  <2> QED BY Zenon, <2>1, <2>2 DEF Told
<1>3. ASSUME NEW k \in DOMAIN e, e[k][1] = p, \A i \in DOMAIN e : e[i][1] = p => i = k
      PROVE  Adds(Told(w, s, p), Told(u, s, p), e[k][2])
  <2> DEFINE n == Len(w) + k
  <2>1. n \in Nat /\ n # 0 /\ u[n] = e[k] /\ n \in 1 .. Len(w) + Len(e)
    BY <1>1 DEF u
  <2>2. \A i \in Positions(w, p) : i \in Nat /\ i < n /\ (i # 0 => u[i] = w[i])
    BY <1>1 DEF Positions, u
  <2>3. Positions(u, p) = Positions(w, p) \cup {n}
    <3>1. ASSUME NEW i \in Positions(u, p) PROVE i \in Positions(w, p) \cup {n}
      <4>1. CASE i = 0
        BY Zenon, <4>1 DEF Positions
      <4>2. CASE i # 0
        <5>1. i \in 1 .. Len(w) + Len(e) /\ u[i][1] = p
          BY Zenon, <1>1, <4>2 DEF Positions, u
        <5>2. CASE i \in 1 .. Len(w)
          BY Zenon, <1>1, <5>1, <5>2 DEF Positions, u
        <5>3. CASE i \notin 1 .. Len(w)
          <6>1. i - Len(w) \in DOMAIN e /\ e[i - Len(w)][1] = p
            BY <1>1, <5>1, <5>3 DEF u
          <6>2. i - Len(w) = k
            BY Zenon, <1>3, <6>1
          <6> QED BY <1>1, <5>1, <6>2
        <5> QED BY Zenon, <5>2, <5>3
      <4> QED BY Zenon, <4>1, <4>2
    <3>2. n \in Positions(u, p)
      BY Zenon, <1>1, <1>3, <2>1 DEF Positions, u
    <3>3. Positions(w, p) \subseteq Positions(u, p)
      BY <1>1 DEF Positions, u
    <3> QED BY Zenon, <3>1, <3>2, <3>3
  <2> HIDE DEF n
  <2>4. DOMAIN Told(u, s, p) = DOMAIN Told(w, s, p) \cup {n} /\ Told(u, s, p)[n] = e[k][2]
    BY Zenon, <2>1, <2>3 DEF Told
  <2>5. \A i \in DOMAIN Told(w, s, p) : i < n /\ Told(u, s, p)[i] = Told(w, s, p)[i]
    BY Zenon, <2>2, <2>3 DEF Told
  <2> QED BY Zenon, <2>1, <2>4, <2>5 DEF Adds
<1> QED BY Zenon, <1>2, <1>3 DEF u

(* The first version on its way to the informer, and what it makes of it.  *)
FirstDropped(h, g, v) ==
    /\ 1 \in DOMAIN h /\ h[1] = v
    /\ \A i \in DOMAIN g : i + 1 \in DOMAIN h /\ g[i] = h[i + 1]
TakesFirst(w, s, t) ==
    t[Head(w)[1]] = Head(w)[2] /\ \A x \in Pods : x # Head(w)[1] => t[x] = s[x]

LEMMA ToldPopped ==
  ASSUME NEW w \in Seq(Pods \X PodVersion), w # <<>>, NEW s \in [Pods -> PodVersion], NEW p \in Pods,
         NEW t, TakesFirst(w, s, t)
  PROVE  /\ MovesOn(Told(w, s, p), Told(Tail(w), t, p))
         /\ Head(w)[1] = p => FirstDropped(Told(w, s, p), Told(Tail(w), t, p), Head(w)[2])
<1>1. /\ Len(w) \in Nat /\ Len(w) # 0 /\ Head(w) = w[1] /\ Tail(w) \in Seq(Pods \X PodVersion)
      /\ Len(Tail(w)) = Len(w) - 1 /\ \A i \in 1 .. Len(w) - 1 : Tail(w)[i] = w[i + 1]
      /\ DOMAIN w = 1 .. Len(w) /\ DOMAIN Tail(w) = 1 .. Len(w) - 1
  OBVIOUS
<1>2. Head(w)[1] \in Pods
  BY <1>1
<1> DEFINE u == Tail(w)
           h == Told(w, s, p)
           g == Told(u, t, p)
<1> HIDE DEF u
<1>3. DOMAIN h = Positions(w, p) /\ DOMAIN g = Positions(u, p)
  BY Zenon DEF Told
<1>4. CASE Head(w)[1] = p
  <2>1. 1 \in Positions(w, p) /\ h[1] = w[1][2]
    BY <1>1, <1>4 DEF Positions, Told
  <2>2. \A i \in Positions(u, p) : i \in Nat /\ i + 1 \in Positions(w, p)
    BY <1>1, <1>4 DEF Positions, u
  <2>3. \A k \in Positions(w, p) : k \in Nat /\ (k # 0 => k - 1 \in Positions(u, p))
    BY <1>1, <1>4 DEF Positions, u
  <2>4. \A i \in Positions(u, p) : g[i] = h[i + 1]
    <3>1. t[p] = w[1][2]
      BY Zenon, <1>1, <1>4 DEF TakesFirst
    <3>2. \A i \in Positions(u, p) : i # 0 => u[i] = w[i + 1]
      BY Zenon, <1>1 DEF Positions, u
    <3> QED BY <1>1, <2>2, <3>1, <3>2 DEF Told
  <2> DEFINE f == [i \in DOMAIN g |-> i + 1]
  <2> HIDE DEF h, g
  <2>5. f \in [DOMAIN g -> DOMAIN h] /\ \A i \in DOMAIN g : f[i] = i + 1
    BY Zenon, <1>3, <2>2
  <2> HIDE DEF f
  <2>6. \A i \in DOMAIN g : g[i] = h[f[i]]
    BY Zenon, <1>3, <2>4, <2>5
  <2>7. \A i, j \in DOMAIN g : i < j => f[i] < f[j]
    BY <1>3, <2>2, <2>5
  <2>8. ASSUME NEW i \in DOMAIN g, NEW k \in DOMAIN h, f[i] < k PROVE \E j \in DOMAIN g : f[j] = k /\ i < j
    <3>1. k - 1 \in DOMAIN g /\ f[k - 1] = k /\ i < k - 1
      BY <1>3, <2>2, <2>3, <2>5, <2>8
    <3> QED BY Zenon, <3>1
  <2>9. MovesOn(h, g)
    BY Zenon, <2>5, <2>6, <2>7, <2>8 DEF MovesOn
  <2>10. FirstDropped(h, g, Head(w)[2])
    BY Zenon, <1>1, <1>3, <2>1, <2>2, <2>4 DEF FirstDropped
  <2> QED BY Zenon, <2>9, <2>10 DEF g, h, u
<1>5. CASE Head(w)[1] # p
  <2>1. \A i \in Positions(u, p) : i \in Nat /\ (i # 0 => i + 1 \in Positions(w, p))
    BY <1>1 DEF Positions, u
  <2>2. \A k \in Positions(w, p) : k \in Nat /\ (k # 0 => k - 1 # 0 /\ k - 1 \in Positions(u, p))
    BY <1>1, <1>5 DEF Positions, u
  <2>3. 0 \in Positions(u, p) /\ 0 \in Positions(w, p)
    BY Zenon DEF Positions
  <2>4. g[0] = h[0] /\ \A i \in Positions(u, p) : i # 0 => g[i] = h[i + 1]
    <3>1. t[p] = s[p]
      BY Zenon, <1>2, <1>5 DEF TakesFirst
    <3>2. \A i \in Positions(u, p) : i # 0 => u[i] = w[i + 1]
      BY Zenon, <1>1 DEF Positions, u
    <3> QED BY <1>1, <2>1, <2>3, <3>1, <3>2 DEF Told
  <2> DEFINE f == [i \in DOMAIN g |-> IF i = 0 THEN 0 ELSE i + 1]
  <2> HIDE DEF h, g
  <2>5. f \in [DOMAIN g -> DOMAIN h] /\ f[0] = 0 /\ \A i \in DOMAIN g : i # 0 => f[i] = i + 1
    BY Zenon, <1>3, <2>1, <2>3
  <2> HIDE DEF f
  <2>6. \A i \in DOMAIN g : g[i] = h[f[i]]
    BY Zenon, <1>3, <2>4, <2>5
  <2>7. \A i, j \in DOMAIN g : i < j => f[i] < f[j]
    BY <1>3, <2>1, <2>5
  <2>8. ASSUME NEW i \in DOMAIN g, NEW k \in DOMAIN h, f[i] < k PROVE \E j \in DOMAIN g : f[j] = k /\ i < j
    <3>0. k # 0
      BY <1>3, <2>1, <2>5, <2>8
    <3>1. k - 1 \in DOMAIN g /\ f[k - 1] = k
      BY <1>3, <2>2, <2>5, <3>0
    <3>2. i < k - 1
      <4>1. i \in Nat /\ k \in Nat /\ k - 1 # 0
        BY Zenon, <1>3, <2>1, <2>2, <3>0
      <4>2. CASE i = 0
        BY <3>0, <4>1, <4>2
      <4>3. CASE i # 0
        BY <2>5, <2>8, <4>1, <4>3
      <4> QED BY Zenon, <4>2, <4>3
    <3> QED BY Zenon, <3>1, <3>2
  <2>9. MovesOn(h, g)
    BY Zenon, <2>5, <2>6, <2>7, <2>8 DEF MovesOn
  <2> QED BY Zenon, <1>5, <2>9 DEF g, h, u
<1> QED BY Zenon, <1>4, <1>5

-----------------------------------------------------------------------------
(* Every step leaves the versions of a Pod alone, adds one, or moves the   *)
(* informer on: to the next one, or at once to the last.                   *)
Same(q) == HistoryOf(q)' = HistoryOf(q) /\ pods'[q] = pods[q]
Grows(q) ==
    /\ Adds(HistoryOf(q), HistoryOf(q)', pods'[q]) /\ Follows(pods[q], pods'[q], sts.rev)
    /\ pods'[q].rev <= sts.rev
Moves(q) == pods'[q] = pods[q] /\ MovesOn(HistoryOf(q), HistoryOf(q)')
Jumps(q) == pods'[q] = pods[q] /\ DOMAIN HistoryOf(q)' = {0} /\ HistoryOf(q)'[0] = pods[q]

Steps(q) == Same(q) \/ Grows(q) \/ Moves(q) \/ Jumps(q)

Typed ==
    /\ pods \in [Pods -> PodVersion] /\ seenPods \in [Pods -> PodVersion] /\ watch \in Seq(Pods \X PodVersion)

LEMMA HistoryTyped ==
  ASSUME Typed, NEW q \in Pods
  PROVE  DOMAIN HistoryOf(q) \subseteq Nat /\ 0 \in DOMAIN HistoryOf(q) /\ HistoryOf(q)[0] = seenPods[q]
  BY DEF Typed, HistoryOf, Told, Positions

LEMMA HistoryKept ==
  ASSUME HistoryInv, Typed', StsInv, StsInv', sts.rev <= sts'.rev, NEW q \in Pods, Steps(q)
  PROVE  History(HistoryOf(q)', pods'[q], sts'.rev)
<1>1. /\ pods[q] \in PodVersion /\ pods'[q] \in PodVersion /\ sts.rev \in Nat /\ sts'.rev \in Nat
      /\ DOMAIN HistoryOf(q) \subseteq Nat /\ History(HistoryOf(q), pods[q], sts.rev)
  BY Zenon, HistoryTyped DEF HistoryInv, Typed, StsInv, StsType
<1> DEFINE g == HistoryOf(q)'
           h == HistoryOf(q)
           v == pods'[q]
           o == pods[q]
<1>2. History(g, v, sts.rev)
  <2>1. CASE Same(q)
    BY Zenon, <1>1, <2>1 DEF Same
  <2>2. CASE Grows(q)
    <3>1. Adds(h, g, v) /\ Follows(o, v, sts.rev) /\ v.rev <= sts.rev
      BY Zenon, <2>2 DEF Grows
    <3> HIDE DEF g, h, v, o
    <3>2. o \in PodVersion /\ v \in PodVersion /\ DOMAIN h \subseteq Nat /\ History(h, o, sts.rev)
      BY Zenon, <1>1 DEF h, o, v
    <3> QED BY Zenon, <1>1, <3>1, <3>2, HistoryAdds
  <2>3. CASE Moves(q)
    <3>1. MovesOn(h, g) /\ v = o /\ History(h, o, sts.rev)
      BY Zenon, <1>1, <2>3 DEF Moves
    <3> HIDE DEF g, h, v, o
    <3> QED BY Zenon, <3>1, HistoryMovesOn
  <2>4. CASE Jumps(q)
    <3>1. DOMAIN g = {0} /\ g[0] = o /\ v = o /\ o \in PodVersion /\ o.rev <= sts.rev /\ o.rev \in Nat
      BY Zenon, <1>1, <2>4 DEF Jumps, History, PodVersion
    <3> HIDE DEF g, h, v, o
    <3> QED BY <3>1 DEF History
  <2> QED BY Zenon, <2>1, <2>2, <2>3, <2>4 DEF Steps
<1>3. o.rev \in Nat /\ v.rev \in Nat /\ \A i \in DOMAIN g : g[i] \in PodVersion /\ g[i].rev \in Nat
  BY Zenon, <1>1, <1>2 DEF History, PodVersion
<1> HIDE DEF g, h, v, o
<1>4. v.rev <= sts'.rev /\ \A i \in DOMAIN g : g[i].rev <= sts'.rev
  BY <1>1, <1>2, <1>3 DEF History
<1>5. History(g, v, sts'.rev)
  BY Zenon, <1>2, <1>4 DEF History
<1> QED BY Zenon, <1>5 DEF g, v

LEMMA PastKept ==
  ASSUME HistoryInv, NEW q \in Pods, Steps(q), NEW r, r <= sts.rev, PastNow(q, r)
  PROVE  PastNow(q, r)'
<1> DEFINE g == HistoryOf(q)'
           h == HistoryOf(q)
           v == pods'[q]
           o == pods[q]
<1>1. Past(h, o, r)
  BY Zenon DEF PastNow
<1>2. Past(g, v, r)
  <2>1. CASE Same(q)
    BY Zenon, <1>1, <2>1 DEF Same
  <2>2. CASE Grows(q)
    <3>1. Adds(h, g, v) /\ Follows(o, v, sts.rev)
      BY Zenon, <2>2 DEF Grows
    <3> HIDE DEF g, h, v, o
    <3> QED BY Zenon, <1>1, <3>1, PastAdds
  <2>3. CASE Moves(q)
    <3>1. MovesOn(h, g) /\ v = o
      BY Zenon, <2>3 DEF Moves
    <3> HIDE DEF g, h, v, o
    <3> QED BY Zenon, <1>1, <3>1, PastMovesOn
  <2>4. CASE Jumps(q)
    <3>1. DOMAIN g = {0} /\ g[0] = o /\ v = o
      BY Zenon, <2>4 DEF Jumps
    <3> HIDE DEF g, h, v, o
    <3> QED BY Zenon, <1>1, <3>1 DEF Past
  <2> QED BY Zenon, <2>1, <2>2, <2>3, <2>4 DEF Steps
<1> QED BY Zenon, <1>2 DEF PastNow

LEMMA NotBackKept ==
  ASSUME HistoryInv, NEW q \in Pods, Steps(q), pods'[q] = pods[q] \/ pods'[q].phase # "ready",
         NEW r, NotBack(HistoryOf(q), pods[q], r)
  PROVE  NotBack(HistoryOf(q), pods[q], r)'
<1> DEFINE g == HistoryOf(q)'
           h == HistoryOf(q)
           v == pods'[q]
           o == pods[q]
<1>1. NotBack(h, o, r)
  BY Zenon
<1>2. NotBack(g, v, r)
  <2>1. CASE Same(q)
    BY Zenon, <1>1, <2>1 DEF Same
  <2>2. CASE Grows(q)
    <3>1. Adds(h, g, v) /\ (v = o \/ v.phase # "ready")
      BY Zenon, <2>2 DEF Grows
    <3> HIDE DEF g, h, v, o
    <3> QED BY Zenon, <1>1, <3>1, NotBackAdds
  <2>3. CASE Moves(q)
    <3>1. MovesOn(h, g) /\ v = o
      BY Zenon, <2>3 DEF Moves
    <3> HIDE DEF g, h, v, o
    <3> QED BY Zenon, <1>1, <3>1, PastMovesOn
  <2>4. CASE Jumps(q)
    <3>1. DOMAIN g = {0} /\ g[0] = o /\ v = o
      BY Zenon, <2>4 DEF Jumps
    <3> HIDE DEF g, h, v, o
    <3> QED BY Zenon, <1>1, <3>1 DEF NotBack
  <2> QED BY Zenon, <2>1, <2>2, <2>3, <2>4 DEF Steps
<1> QED BY Zenon, <1>2

LEMMA KeptGrown ==
  ASSUME NEW h, NEW o, NEW p, NEW d, NEW d2, d \subseteq d2, Kept(h, o, p, d)
  PROVE  Kept(h, o, p, d2)
  BY Zenon DEF Kept

(* The Pods not recorded, as they step.                                    *)
LEMMA RecordKept ==
  ASSUME HistoryInv, Typed', NEW q \in Pods, Kept(HistoryOf(q), pods[q], q, deleting),
         Same(q) \/ Moves(q) \/ (Grows(q) /\ pods'[q].phase # "terminating"), deleting \subseteq deleting'
  PROVE  Kept(HistoryOf(q), pods[q], q, deleting)'
<1> DEFINE g == HistoryOf(q)'
           h == HistoryOf(q)
           v == pods'[q]
           o == pods[q]
           d == deleting
           d2 == deleting'
<1>1. Kept(h, o, q, d) /\ 0 \in DOMAIN g /\ DOMAIN h \subseteq Nat
  BY Zenon, HistoryTyped DEF HistoryInv, Typed, HistoryOf, Told, Positions
<1>2. Kept(g, v, q, d2)
  <2>1. CASE Same(q)
    <3>1. g = h /\ v = o /\ d \subseteq d2
      BY Zenon, <2>1 DEF Same
    <3> HIDE DEF g, h, v, o, d, d2
    <3> QED BY Zenon, <1>1, <3>1, KeptGrown
  <2>2. CASE Grows(q) /\ v.phase # "terminating"
    <3>1. Adds(h, g, v) /\ Follows(o, v, sts.rev) /\ d \subseteq d2 /\ v.phase # "terminating"
      BY Zenon, <2>2 DEF Grows
    <3> HIDE DEF g, h, v, o, d, d2
    <3>2. Kept(g, v, q, d)
      BY Zenon, <1>1, <3>1, KeptAdds
    <3> QED BY Zenon, <3>1, <3>2, KeptGrown
  <2>3. CASE Moves(q)
    <3>1. MovesOn(h, g) /\ v = o /\ d \subseteq d2
      BY Zenon, <2>3 DEF Moves
    <3> HIDE DEF g, h, v, o, d, d2
    <3>2. Kept(g, o, q, d)
      BY Zenon, <1>1, <3>1, KeptMovesOn
    <3> QED BY Zenon, <3>1, <3>2, KeptGrown
  <2> QED BY Zenon, <2>1, <2>2, <2>3
<1> QED BY Zenon, <1>2

-----------------------------------------------------------------------------
(* What the steps do to the versions, action by action.                    *)
Shape ==
    /\ Typed' /\ KeptInv'
    /\ \A q \in Pods : Steps(q) /\ (pods'[q] = pods[q] \/ pods'[q].phase # "ready" \/ down'[q] = 0)

LEMMA AddedShape ==
  ASSUME Typed, NEW e \in Seq(Pods \X PodVersion), watch' = watch \o e, seenPods' = seenPods,
         NEW q \in Pods
  PROVE  /\ (\A i \in DOMAIN e : e[i][1] # q) /\ pods'[q] = pods[q] => Same(q)
         /\ \A k \in DOMAIN e :
               /\ e[k][1] = q /\ e[k][2] = pods'[q]
               /\ \A i \in DOMAIN e : e[i][1] = q => i = k
               /\ Follows(pods[q], pods'[q], sts.rev) /\ pods'[q].rev <= sts.rev
               => Grows(q)
<1>1. watch \in Seq(Pods \X PodVersion)
  BY Zenon DEF Typed
<1>2. HistoryOf(q) = Told(watch, seenPods, q) /\ HistoryOf(q)' = Told(watch \o e, seenPods, q)
  BY Zenon DEF HistoryOf
<1>3. /\ (\A i \in DOMAIN e : e[i][1] # q) => Told(watch \o e, seenPods, q) = Told(watch, seenPods, q)
      /\ \A k \in DOMAIN e : e[k][1] = q /\ (\A i \in DOMAIN e : e[i][1] = q => i = k) =>
            Adds(Told(watch, seenPods, q), Told(watch \o e, seenPods, q), e[k][2])
  BY Zenon, <1>1, ToldAppended
<1>4. (\A i \in DOMAIN e : e[i][1] # q) /\ pods'[q] = pods[q] => Same(q)
  BY Zenon, <1>2, <1>3 DEF Same
<1>5. ASSUME NEW k \in DOMAIN e, e[k][1] = q, e[k][2] = pods'[q], \A i \in DOMAIN e : e[i][1] = q => i = k,
             Follows(pods[q], pods'[q], sts.rev), pods'[q].rev <= sts.rev
      PROVE  Grows(q)
  <2>1. Adds(HistoryOf(q), HistoryOf(q)', e[k][2])
    BY Zenon, <1>2, <1>3, <1>5
  <2> QED BY Zenon, <1>5, <2>1 DEF Grows
<1> QED BY Zenon, <1>4, <1>5

LEMMA AppendedOne ==
  ASSUME NEW S, NEW w \in Seq(S), NEW x \in S
  PROVE  <<x>> \in Seq(S) /\ Append(w, x) = w \o <<x>>
  OBVIOUS

LEMMA BecomesShape ==
  ASSUME StsInv, HistoryInv, KeptInv, NEW p \in Pods, NEW v \in PodVersion, PodBecomes(p, v),
         Follows(pods[p], v, sts.rev), v.rev <= sts.rev, v.phase # "terminating",
         v.phase = "ready" => down'[p] = 0, unrecorded' = unrecorded
  PROVE  Shape
<1> DEFINE e == <<<<p, v>>>>
<1>0. Typed /\ watch \in Seq(Pods \X PodVersion) /\ <<p, v>> \in Pods \X PodVersion
  BY Zenon DEF Typed, HistoryInv
<1>1. /\ Typed /\ e \in Seq(Pods \X PodVersion) /\ watch' = watch \o e /\ seenPods' = seenPods
      /\ pods' = [pods EXCEPT ![p] = v] /\ deleting' = deleting
  <2>1. /\ watch' = Append(watch, <<p, v>>) /\ seenPods' = seenPods
        /\ pods' = [pods EXCEPT ![p] = v] /\ deleting' = deleting
    BY Zenon DEF PodBecomes, managerVars
  <2>2. e \in Seq(Pods \X PodVersion) /\ Append(watch, <<p, v>>) = watch \o e
    BY <1>0, AppendedOne
  <2> QED BY Zenon, <1>0, <2>1, <2>2
<1>2. DOMAIN e = {1} /\ e[1][1] = p /\ e[1][2] = v
  OBVIOUS
<1> HIDE DEF e
<1>3. pods' \in [Pods -> PodVersion] /\ pods'[p] = v /\ \A q \in Pods : q # p => pods'[q] = pods[q]
  BY Zenon, <1>1 DEF Typed
<1>4. Typed'
  BY <1>1, <1>3 DEF Typed
<1>5. Grows(p)
  <2>1. /\ \A k \in DOMAIN e :
               /\ e[k][1] = p /\ e[k][2] = pods'[p]
               /\ \A i \in DOMAIN e : e[i][1] = p => i = k
               /\ Follows(pods[p], pods'[p], sts.rev) /\ pods'[p].rev <= sts.rev
               => Grows(p)
    BY Zenon, <1>1, AddedShape
  <2> QED BY Zenon, <1>2, <1>3, <2>1
<1>6. \A q \in Pods : q # p => Same(q)
  BY <1>1, <1>2, <1>3, AddedShape
<1>7. \A q \in Pods : Steps(q) /\ (pods'[q] = pods[q] \/ pods'[q].phase # "ready" \/ down'[q] = 0)
  BY Zenon, <1>3, <1>5, <1>6 DEF Steps
<1>8. KeptInv'
  <2> SUFFICES ASSUME NEW q \in Pods, q \notin unrecorded PROVE Kept(HistoryOf(q), pods[q], q, deleting)'
    BY Zenon DEF KeptInv
  <2>1. Kept(HistoryOf(q), pods[q], q, deleting)
    BY Zenon DEF KeptInv
  <2>2. Same(q) \/ (Grows(q) /\ pods'[q].phase # "terminating")
    BY Zenon, <1>3, <1>5, <1>6
  <2> QED BY Zenon, <1>1, <1>4, <2>1, <2>2, RecordKept
<1> QED BY Zenon, <1>4, <1>7, <1>8 DEF Shape

LEMMA SameShape ==
  ASSUME HistoryInv, KeptInv, pods' = pods, watch' = watch, seenPods' = seenPods,
         deleting' = deleting, unrecorded' = unrecorded
  PROVE  Shape
<1>1. Typed /\ Typed'
  BY Zenon DEF HistoryInv, Typed
<1>2. \A q \in Pods : Same(q)
  BY Zenon DEF HistoryOf, Same
<1>3. KeptInv'
  BY Zenon, <1>2 DEF KeptInv, Same
<1> QED BY Zenon, <1>1, <1>2, <1>3 DEF Shape, Steps

LEMMA JumpShape ==
  ASSUME HistoryInv, pods' = pods, watch' = <<>>, seenPods' = pods
  PROVE  Shape
<1>1. Typed'
  BY DEF HistoryInv, Typed
<1>2. ASSUME NEW q \in Pods PROVE Jumps(q) /\ Kept(HistoryOf(q), pods[q], q, deleting)'
  <2>1. DOMAIN HistoryOf(q)' = {0} /\ HistoryOf(q)'[0] = pods[q]
    BY DEF HistoryOf, Told, Positions
  <2>2. Kept(HistoryOf(q), pods[q], q, deleting)'
    BY <2>1 DEF Kept
  <2> QED BY Zenon, <2>1, <2>2 DEF Jumps
<1>3. KeptInv'
  BY Zenon, <1>2 DEF KeptInv
<1> QED BY Zenon, <1>1, <1>2, <1>3 DEF Shape, Steps

(* An informer that has caught up knows what it did not record.            *)
LEMMA CaughtUp ==
  ASSUME HistoryInv, Typed', watch' = <<>>, NEW q \in Pods, Moves(q)
  PROVE  Kept(HistoryOf(q), pods[q], q, deleting)'
<1> DEFINE g == HistoryOf(q)'
           h == HistoryOf(q)
           o == pods[q]
<1>1. History(h, o, sts.rev) /\ MovesOn(h, g) /\ pods'[q] = o
  BY Zenon DEF HistoryInv, Moves
<1>2. DOMAIN g = {0}
  BY DEF HistoryOf, Told, Positions
<1> HIDE DEF g, h, o
<1>3. History(g, o, sts.rev)
  BY Zenon, <1>1, HistoryMovesOn
<1>4. g[0] = o
  BY <1>2, <1>3 DEF History
<1>5. Kept(g, o, q, deleting')
  BY <1>2, <1>4 DEF Kept
<1> QED BY Zenon, <1>1, <1>5 DEF g, o

LEMMA PopShape ==
  ASSUME HistoryInv, KeptInv, WatchPods
  PROVE  Shape
<1> DEFINE p == Head(watch)[1]
           v == Head(watch)[2]
<1>1. Typed /\ watch # <<>> /\ watch' = Tail(watch) /\ seenPods' = [seenPods EXCEPT ![p] = v] /\ pods' = pods
  BY Zenon DEF HistoryInv, Typed, WatchPods
<1>2. Head(watch) \in Pods \X PodVersion /\ Tail(watch) \in Seq(Pods \X PodVersion)
  BY <1>1 DEF Typed
<1>3. p \in Pods /\ v \in PodVersion
  BY Zenon, <1>2
<1> HIDE DEF p, v
<1>4. Typed'
  BY Zenon, <1>1, <1>2, <1>3 DEF Typed
<1>5. ASSUME NEW q \in Pods
      PROVE  Moves(q) /\ (p = q => FirstDropped(HistoryOf(q), HistoryOf(q)', v))
  <2> DEFINE w == watch
             s == seenPods
             t == seenPods'
  <2>1. w \in Seq(Pods \X PodVersion) /\ w # <<>> /\ s \in [Pods -> PodVersion]
    BY Zenon, <1>1 DEF Typed
  <2>2. p = Head(w)[1] /\ v = Head(w)[2]
    BY Zenon DEF p, v
  <2>3. t[p] = v /\ \A x \in Pods : x # p => t[x] = s[x]
    BY Zenon, <1>1, <1>3, <2>1
  <2>4. HistoryOf(q) = Told(w, s, q) /\ HistoryOf(q)' = Told(Tail(w), t, q)
    BY Zenon, <1>1 DEF HistoryOf
  <2> HIDE DEF w, s, t
  <2>5. TakesFirst(w, s, t)
    BY Zenon, <2>2, <2>3 DEF TakesFirst
  <2>6. MovesOn(Told(w, s, q), Told(Tail(w), t, q))
        /\ (Head(w)[1] = q => FirstDropped(Told(w, s, q), Told(Tail(w), t, q), Head(w)[2]))
    BY Zenon, <2>1, <2>5, ToldPopped
  <2> QED BY Zenon, <1>1, <2>2, <2>4, <2>6 DEF Moves
<1>6. ASSUME NEW q \in Pods, q \notin unrecorded' PROVE Kept(HistoryOf(q), pods[q], q, deleting)'
  <2>1. CASE watch' = <<>>
    BY Zenon, <1>4, <1>5, <2>1, CaughtUp
  <2>2. CASE watch' # <<>>
    <3>1. Kept(HistoryOf(q), pods[q], q, deleting)
      BY Zenon, <1>6, <2>2 DEF WatchPods, KeptInv
    <3>2. CASE deleting' = deleting
      BY Zenon, <1>4, <1>5, <3>1, <3>2, RecordKept
    <3>3. CASE deleting' # deleting
      <4>1. v.phase = "gone" /\ deleting' = deleting \ {p}
        BY Zenon, <3>3 DEF WatchPods, DeleteExpectation, p, v
      <4> DEFINE g == HistoryOf(q)'
                 h == HistoryOf(q)
                 o == pods[q]
      <4>2. Kept(h, o, q, deleting) /\ DOMAIN h \subseteq Nat /\ 0 \in DOMAIN g /\ DOMAIN g \subseteq Nat
            /\ MovesOn(h, g) /\ pods'[q] = o
        <5>1. DOMAIN h \subseteq Nat
          BY Zenon, <1>1, HistoryTyped
        <5>2. 0 \in DOMAIN g /\ DOMAIN g \subseteq Nat
          BY <1>4 DEF Typed, HistoryOf, Told, Positions
        <5> QED BY Zenon, <1>5, <3>1, <5>1, <5>2 DEF Moves
      <4>3. CASE q = p
        <5>1. 1 \in DOMAIN h /\ Gone(h[1]) /\ \A i \in DOMAIN g : i + 1 \in DOMAIN h /\ g[i] = h[i + 1]
          BY Zenon, <1>5, <4>1, <4>3 DEF Gone, FirstDropped
        <5> HIDE DEF g, h, o
        <5>2. o.phase # "terminating" /\ \A j \in DOMAIN h : 1 < j => h[j].phase \in {"ready", "unready"}
          BY <4>2, <5>1 DEF Kept
        <5>3. \A k \in DOMAIN g : 0 < k => ~ Gone(g[k])
          BY <4>2, <5>1, <5>2 DEF Gone
        <5>4. Kept(g, o, q, deleting')
          BY Zenon, <5>2, <5>3 DEF Kept
        <5> QED BY Zenon, <4>2, <5>4 DEF g, o
      <4>4. CASE q # p
        <5> HIDE DEF g, h, o
        <5>1. Kept(g, o, q, deleting)
          BY Zenon, <4>2, KeptMovesOn
        <5>2. Kept(g, o, q, deleting')
          BY Zenon, <4>1, <4>4, <5>1 DEF Kept
        <5> QED BY Zenon, <4>2, <5>2 DEF g, o
      <4> QED BY Zenon, <4>3, <4>4
    <3> QED BY Zenon, <3>2, <3>3
  <2> QED BY Zenon, <2>1, <2>2
<1>7. KeptInv'
  BY Zenon, <1>6 DEF KeptInv
<1> QED BY Zenon, <1>1, <1>4, <1>5, <1>7 DEF Shape, Steps

(* Some order of the Pods of a set holds each of them once.                *)
LEMMA Ordered ==
  ASSUME NEW new \in SUBSET Pods, NEW order \in Injection(1 .. Cardinality(new), new)
  PROVE  /\ Cardinality(new) \in Nat /\ order \in [1 .. Cardinality(new) -> new]
         /\ \A i, j \in 1 .. Cardinality(new) : order[i] = order[j] => i = j
         /\ \A p \in new : \E i \in 1 .. Cardinality(new) : order[i] = p
<1>1. IsFiniteSet(new)
  BY Zenon, RolloutAssumption, FS_Subset
<1> DEFINE n == Cardinality(new)
<1>2. n \in Nat
  BY Zenon, <1>1, FS_CardinalityType
<1>3. order \in [1 .. n -> new] /\ \A i, j \in 1 .. n : order[i] = order[j] => i = j
  BY Zenon DEF Injection, IsInjective
<1>4. Cardinality(1 .. n) = n
  <2>1. Cardinality(1 .. n) = IF 1 > n THEN 0 ELSE n - 1 + 1
    <3> HIDE DEF n
    <3> QED BY <1>2, FS_Interval
  <2> HIDE DEF n
  <2> QED BY <1>2, <2>1
<1>5. order \in Injection(1 .. n, new)
  BY Zenon, <1>3 DEF Injection, IsInjective
<1>6. order \in Surjection(1 .. n, new)
  BY Zenon, <1>1, <1>4, <1>5, FS_Injection
<1> QED BY Zenon, <1>2, <1>3, <1>6 DEF Surjection

LEMMA DeleteShape ==
  ASSUME StsInv, HistoryInv, KeptInv, NEW D \in SUBSET Pods, \A p \in D : pods[p].phase # "gone",
         Delete(D), seenPods' = seenPods, deleting \subseteq deleting', unrecorded \subseteq unrecorded',
         \A p \in D : p \notin unrecorded' =>
            p \in deleting' /\ p \notin deleting /\ seenPods[p].phase # "terminating"
  PROVE  Shape
<1> DEFINE new == {p \in D : pods[p].phase # "terminating"}
<1>1. Typed /\ new \in SUBSET Pods /\ pods' = [p \in Pods |-> IF p \in new THEN Marked(p) ELSE pods[p]]
  BY Zenon DEF Typed, HistoryInv, Delete
<1>2. PICK order \in Injection(1 .. Cardinality(new), new) : watch' = watch \o [i \in DOMAIN order |-> <<order[i], Marked(order[i])>>]
  BY Zenon DEF Delete
<1>3. ASSUME NEW p \in new
      PROVE  /\ Marked(p) \in PodVersion /\ Marked(p).phase = "terminating"
             /\ Marked(p).rev <= sts.rev /\ Follows(pods[p], Marked(p), sts.rev)
  <2>1. pods[p] \in PodVersion /\ pods[p].rev <= sts.rev /\ pods[p].phase # "terminating" /\ pods[p].phase # "gone"
    BY Zenon, <1>1 DEF Typed, HistoryInv, History
  <2> QED BY Zenon, <2>1 DEF Marked, NewPod, PodVersion, Follows
<1> HIDE DEF new
<1> DEFINE n == Cardinality(new)
           e == [i \in DOMAIN order |-> <<order[i], Marked(order[i])>>]
<1>4. /\ n \in Nat /\ order \in [1 .. n -> new]
      /\ \A i, j \in 1 .. n : order[i] = order[j] => i = j
      /\ \A p \in new : \E i \in 1 .. n : order[i] = p
  BY Zenon, <1>1, Ordered
<1> HIDE DEF n
<1>5. /\ DOMAIN e = 1 .. n /\ e \in Seq(Pods \X PodVersion)
      /\ \A i \in 1 .. n : e[i][1] = order[i] /\ e[i][2] = Marked(order[i])
  BY <1>1, <1>3, <1>4
<1> HIDE DEF e
<1>6. watch' = watch \o e
  BY Zenon, <1>2 DEF e
<1>7. pods' \in [Pods -> PodVersion] /\ \A p \in Pods : pods'[p] = IF p \in new THEN Marked(p) ELSE pods[p]
  BY Zenon, <1>1, <1>3 DEF Typed
<1>8. Typed'
  BY <1>1, <1>5, <1>6, <1>7 DEF Typed
<1>9. ASSUME NEW q \in new PROVE Grows(q)
  <2>1. PICK k \in 1 .. n : order[k] = q
    BY Zenon, <1>4
  <2>2. /\ k \in DOMAIN e /\ e[k][1] = q /\ e[k][2] = pods'[q]
        /\ \A i \in DOMAIN e : e[i][1] = q => i = k
        /\ Follows(pods[q], pods'[q], sts.rev) /\ pods'[q].rev <= sts.rev
    BY <1>1, <1>3, <1>4, <1>5, <1>7, <2>1
  <2>3. /\ \A j \in DOMAIN e :
               /\ e[j][1] = q /\ e[j][2] = pods'[q]
               /\ \A i \in DOMAIN e : e[i][1] = q => i = j
               /\ Follows(pods[q], pods'[q], sts.rev) /\ pods'[q].rev <= sts.rev
               => Grows(q)
    BY Zenon, <1>1, <1>5, <1>6, AddedShape
  <2> QED BY Zenon, <2>2, <2>3
<1>10. ASSUME NEW q \in Pods \ new PROVE Same(q)
  <2>1. (\A i \in DOMAIN e : e[i][1] # q) /\ pods'[q] = pods[q]
    BY <1>4, <1>5, <1>7
  <2> QED BY Zenon, <1>1, <1>5, <1>6, <2>1, AddedShape
<1>11. \A q \in Pods : Steps(q) /\ (pods'[q] = pods[q] \/ pods'[q].phase # "ready" \/ down'[q] = 0)
  BY Zenon, <1>3, <1>7, <1>9, <1>10 DEF Steps
<1>12. ASSUME NEW q \in Pods, q \notin unrecorded' PROVE Kept(HistoryOf(q), pods[q], q, deleting)'
  <2>1. Kept(HistoryOf(q), pods[q], q, deleting)
    BY Zenon, <1>12 DEF KeptInv
  <2>2. CASE q \notin new
    BY Zenon, <1>8, <1>10, <2>1, <2>2, RecordKept
  <2>3. CASE q \in new
    <3> DEFINE g == HistoryOf(q)'
               h == HistoryOf(q)
               v == pods'[q]
    <3>1. Adds(h, g, v) /\ v.phase = "terminating" /\ q \in deleting' /\ q \notin deleting
      BY Zenon, <1>3, <1>7, <1>9, <1>12, <2>3 DEF Grows, new
    <3>2. 0 \in DOMAIN h /\ DOMAIN h \subseteq Nat /\ h[0].phase # "terminating" /\ Kept(h, pods[q], q, deleting)
      BY Zenon, <1>1, <1>12, <2>1, <2>3, HistoryTyped DEF new
    <3> HIDE DEF g, h, v
    <3>3. \A k \in DOMAIN h : 0 < k => ~ Gone(h[k])
      BY Zenon, <3>1, <3>2 DEF Kept
    <3>4. \A k \in DOMAIN g : 0 < k => ~ Gone(g[k])
      BY Zenon, <3>1, <3>3 DEF Adds, Gone
    <3>5. Kept(g, v, q, deleting')
      BY Zenon, <3>1, <3>4 DEF Kept
    <3> QED BY Zenon, <3>5 DEF g, v
  <2> QED BY Zenon, <2>2, <2>3
<1>13. KeptInv'
  BY Zenon, <1>12 DEF KeptInv
<1> QED BY Zenon, <1>8, <1>11, <1>13 DEF Shape

-----------------------------------------------------------------------------
(* The StatefulSet: what the controller writes keeps its revision.         *)
LEMMA AnnotationsTyped ==
  ASSUME StsInv, HistoryInv
  PROVE  /\ WithAnnotations \in StsType /\ WithAnnotations.rev = stsSeen.rev
         /\ WithAnnotations.roll = stsSeen.roll /\ WithAnnotations.onDelete = stsSeen.onDelete
<1>1. upgradedPods \in SUBSET Pods
  BY Zenon DEF upgradedPods, Labelled
<1>2. stsSeen \in StsType /\ stsSeen.rev \in Nat
  BY Zenon DEF StsInv, StsType
<1>3. \A p \in Labelled : seenPods[p].rev \in Nat
  BY Zenon DEF Labelled, HistoryInv, PodVersion
<1>4. expectedPodRevision \in [Labelled -> Nat]
  BY Zenon, <1>2, <1>3 DEF expectedPodRevision, recentRevision
<1> DEFINE x == expectedPodRevision
           u == upgradedPods
<1> HIDE DEF x, u
<1>5. WithAnnotations = [stsSeen EXCEPT !.annotated = TRUE, !.expected = x, !.upgraded = u]
  BY Zenon DEF WithAnnotations, x, u
<1>6. x \in [Labelled -> Nat] \cup {None} /\ u \in SUBSET Pods
  BY Zenon, <1>1, <1>4 DEF x, u
<1> QED BY Zenon, <1>2, <1>5, <1>6 DEF StsType

LEMMA FinishFacts ==
  ASSUME StsInv, NEW s \in StsType, s.rev = stsSeen.rev, NEW requeue, FinishReconcile(s, requeue),
         stsSeen' = stsSeen
  PROVE  StsInv' /\ sts'.rev = sts.rev /\ (sts' = sts \/ (sts' = s /\ stsSeen = sts))
  BY Zenon DEF StsInv, FinishReconcile, WriteSts

LEMMA AnnotateFacts ==
  ASSUME StsInv, HistoryInv, NEW requeue, FinishReconcile(WithAnnotations, requeue), stsSeen' = stsSeen
  PROVE  StsInv' /\ sts'.rev = sts.rev /\ sts'.roll = sts.roll
<1> DEFINE s == WithAnnotations
<1>1. s \in StsType /\ s.rev = stsSeen.rev /\ s.roll = stsSeen.roll
  BY Zenon, AnnotationsTyped
<1>2. FinishReconcile(s, requeue)
  BY Zenon
<1> HIDE DEF s
<1>3. StsInv' /\ sts'.rev = sts.rev /\ (sts' = sts \/ (sts' = s /\ stsSeen = sts))
  BY Zenon, <1>1, <1>2, FinishFacts
<1> QED BY Zenon, <1>1, <1>3

LEMMA EndFacts ==
  ASSUME StsInv, HistoryInv, FinishReconcile([WithAnnotations EXCEPT !.roll = None], FALSE), stsSeen' = stsSeen
  PROVE  StsInv' /\ sts'.rev = sts.rev /\ (sts'.roll = sts.roll \/ (sts'.roll = None /\ stsSeen = sts))
<1> DEFINE s == [WithAnnotations EXCEPT !.roll = None]
<1>1. s \in StsType /\ s.rev = stsSeen.rev /\ s.roll = None
  <2> DEFINE a == WithAnnotations
  <2>1. a \in StsType /\ a.rev = stsSeen.rev /\ s = [a EXCEPT !.roll = None]
    BY Zenon, AnnotationsTyped
  <2> HIDE DEF a, s
  <2> DEFINE R == (SUBSET Configs) \cup {None}
             E == [Labelled -> Nat] \cup {None}
             U == SUBSET Pods
  <2>2. None \in R
    BY Zenon
  <2>3. StsType = [rev : Nat, roll : R, onDelete : BOOLEAN, annotated : BOOLEAN, expected : E, upgraded : U]
    BY Zenon DEF StsType
  <2> HIDE DEF R, E, U
  <2> QED BY Zenon, <2>1, <2>2, <2>3
<1>2. FinishReconcile(s, FALSE)
  BY Zenon
<1> HIDE DEF s
<1>3. StsInv' /\ sts'.rev = sts.rev /\ (sts' = sts \/ (sts' = s /\ stsSeen = sts))
  BY Zenon, <1>1, <1>2, FinishFacts
<1> QED BY Zenon, <1>1, <1>3

-----------------------------------------------------------------------------
(* A config the controller finds finished is past.                         *)
LEMMA FinishedPast ==
  ASSUME StsInv, HistoryInv, Begin, NEW c, Finished(c), NEW q \in Members(c)
  PROVE  PastNow(q, stsSeen.rev) /\ seenPods[q].rev = stsSeen.rev /\ seenPods[q].phase = "ready"
<1>1. q \in Pods
  BY Zenon DEF Members
<1>2. seenPods[q].rev = stsSeen.rev
  BY Zenon DEF Finished, expectDeletePods, isUpdatedRevision, recentRevision
<1>3. seenPods[q].phase = "ready"
  BY Zenon, <1>2 DEF Finished, Waiting, isUpdatedRevision, recentRevision
<1> DEFINE h == HistoryOf(q)
           o == pods[q]
           r == stsSeen.rev
<1>4. /\ History(h, o, sts.rev) /\ 0 \in DOMAIN h /\ DOMAIN h \subseteq Nat /\ h[0].rev = r /\ ~ Gone(h[0])
      /\ r \in Nat /\ o \in PodVersion
  BY Zenon, <1>1, <1>2, <1>3, HistoryTyped DEF HistoryInv, Typed, Gone, StsInv, StsType
<1> HIDE DEF h, o, r
<1>5. Past(h, o, r)
  <2>1. Gone(o) \/ r <= o.rev
    BY Zenon, <1>4 DEF History
  <2>2. \A i \in DOMAIN h : Gone(h[i]) \/ r <= h[i].rev
    <3> SUFFICES ASSUME NEW i \in DOMAIN h, ~ Gone(h[i]) PROVE r <= h[i].rev
      BY Zenon
    <3>1. CASE i = 0
      BY <1>4, <3>1
    <3>2. CASE i # 0
      <4>1. 0 < i
        BY <1>4, <3>2
      <4> QED BY Zenon, <1>4, <4>1 DEF History
    <3> QED BY Zenon, <3>1, <3>2
  <2> QED BY Zenon, <2>1, <2>2 DEF Past
<1> QED BY Zenon, <1>2, <1>3, <1>5 DEF PastNow, h, o, r

(* Steps that take no Pod down.                                            *)
Quiet ==
    /\ Shape /\ StsInv' /\ sts.rev <= sts'.rev /\ stsSeen.rev <= stsSeen'.rev
    /\ down' \in [Pods -> Nat] /\ \A p \in Pods : down'[p] # 0 => down'[p] = down[p]
    /\ \/ \A p \in Pods : down'[p] = 0
       \/ sts'.roll \in {None, sts.roll, stsSeen.roll} /\ stsSeen'.roll \in {None, sts.roll, stsSeen.roll}

LEMMA ShapeHistory ==
  ASSUME StsInv, HistoryInv, Shape, StsInv', sts.rev <= sts'.rev
  PROVE  HistoryInv'
<1>1. Typed' /\ \A q \in Pods : History(HistoryOf(q)', pods'[q], sts'.rev)
  BY Zenon, HistoryKept DEF Shape
<1> QED BY Zenon, <1>1 DEF HistoryInv, Typed

(* The Pods that are down stay in turn.                                    *)
LEMMA DownKept ==
  ASSUME RolloutInv, Shape, NEW p \in Pods, down[p] # 0, down'[p] = down[p]
  PROVE  /\ NotBack(HistoryOf(p), pods[p], down[p])'
         /\ \A roll : InTurn(roll, p, down[p]) /\ roll # None =>
               /\ ConfigOf[p] \in roll
               /\ \A c \in roll : Before(c, ConfigOf[p]) => \A q \in Members(c) : PastNow(q, down[p])'
<1>0. PICK r : r = down[p]
  BY Zenon
<1>1. r \in Nat /\ r <= sts.rev /\ NotBack(HistoryOf(p), pods[p], r)
  <2>1. r \in Nat /\ r <= stsSeen.rev /\ NotBack(HistoryOf(p), pods[p], r)
    BY Zenon, <1>0 DEF RolloutInv, DownInv
  <2>2. stsSeen.rev \in Nat /\ sts.rev \in Nat /\ stsSeen.rev <= sts.rev
    BY Zenon DEF RolloutInv, StsInv, StsType
  <2> QED BY <2>1, <2>2
<1>2. Steps(p) /\ (pods'[p] = pods[p] \/ pods'[p].phase # "ready")
  BY Zenon DEF Shape
<1>3. NotBack(HistoryOf(p), pods[p], r)'
  BY Zenon, <1>1, <1>2, NotBackKept DEF RolloutInv
<1>4. \A q \in Pods : PastNow(q, r) => PastNow(q, r)'
  BY Zenon, <1>1, PastKept DEF RolloutInv, Shape
<1>5. \A c : \A q \in Members(c) : q \in Pods
  BY Zenon DEF Members
<1>6. NotBack(HistoryOf(p), pods[p], down[p])'
  BY Zenon, <1>0, <1>3
<1>7. ASSUME NEW roll, InTurn(roll, p, r), roll # None
      PROVE  /\ ConfigOf[p] \in roll
             /\ \A c \in roll : Before(c, ConfigOf[p]) => \A q \in Members(c) : PastNow(q, r)'
  BY Zenon, <1>4, <1>5, <1>7 DEF InTurn
<1>8. \A q : PastNow(q, down[p])' <=> PastNow(q, r)'
  BY Zenon, <1>0 DEF PastNow
<1> QED BY Zenon, <1>0, <1>6, <1>7, <1>8

LEMMA QuietInv ==
  ASSUME RolloutInv, Quiet, EndedInv'
  PROVE  RolloutInv'
<1>1. HistoryInv' /\ StsInv' /\ KeptInv'
  BY Zenon, ShapeHistory DEF RolloutInv, Quiet, Shape
<1>2. /\ stsSeen.rev \in Nat /\ stsSeen'.rev \in Nat /\ stsSeen.rev <= stsSeen'.rev
      /\ down \in [Pods -> Nat] /\ down' \in [Pods -> Nat]
  BY Zenon DEF RolloutInv, StsInv, StsType, Quiet, DownInv
<1>3. ASSUME NEW p \in Pods, down'[p] # 0
      PROVE  /\ down'[p] <= stsSeen'.rev /\ NotBack(HistoryOf(p), pods[p], down[p])'
             /\ InTurn(sts.roll, p, down[p])' /\ InTurn(stsSeen.roll, p, down[p])'
  <2>1. /\ down'[p] = down[p] /\ down[p] # 0
        /\ sts'.roll \in {None, sts.roll, stsSeen.roll} /\ stsSeen'.roll \in {None, sts.roll, stsSeen.roll}
    BY Zenon, <1>3 DEF Quiet
  <2>2. down[p] <= stsSeen.rev /\ InTurn(sts.roll, p, down[p]) /\ InTurn(stsSeen.roll, p, down[p])
    BY Zenon, <2>1 DEF RolloutInv, DownInv
  <2>3. /\ NotBack(HistoryOf(p), pods[p], down[p])'
        /\ \A roll : InTurn(roll, p, down[p]) /\ roll # None =>
              /\ ConfigOf[p] \in roll
              /\ \A c \in roll : Before(c, ConfigOf[p]) => \A q \in Members(c) : PastNow(q, down[p])'
    BY Zenon, <2>1, DownKept DEF Quiet
  <2>4. InTurn(sts.roll, p, down[p])'
    BY Zenon, <2>1, <2>2, <2>3 DEF InTurn, Members, Before, Pods
  <2>5. InTurn(stsSeen.roll, p, down[p])'
    BY Zenon, <2>1, <2>2, <2>3 DEF InTurn, Members, Before, Pods
  <2> QED BY <1>2, <2>1, <2>2, <2>3, <2>4, <2>5
<1>4. DownInv'
  BY Zenon, <1>2, <1>3 DEF DownInv
<1>5. OneShardAtATime'
  BY Zenon DEF RolloutInv, OneShardAtATime, Quiet
<1> QED BY Zenon, <1>1, <1>4, <1>5 DEF RolloutInv

(* What a rollout has ended stays ended.                                   *)
LEMMA EndedKept ==
  ASSUME RolloutInv, Shape, stsSeen' = stsSeen, sts'.roll = sts.roll \/ sts.roll # stsSeen.roll
  PROVE  EndedInv'
<1> SUFFICES ASSUME stsSeen.roll # None, stsSeen.onDelete, sts'.roll # stsSeen.roll,
                    NEW c \in stsSeen.roll, NEW q \in Members(c)
             PROVE  PastNow(q, stsSeen.rev)'
  BY Zenon DEF EndedInv, Members, Pods
<1>1. q \in Pods /\ PastNow(q, stsSeen.rev)
  BY Zenon DEF RolloutInv, EndedInv, Members
<1>2. PICK r : r = stsSeen.rev
  BY Zenon
<1>3. PastNow(q, r)'
  BY Zenon, <1>1, <1>2, PastKept DEF RolloutInv, StsInv, Shape
<1> QED BY Zenon, <1>2, <1>3 DEF PastNow

(* Pods are taken down in turn.                                            *)
LEMMA TakeDownInv ==
  ASSUME RolloutInv, NEW c, Upgrading(c), NEW D \in SUBSET expectDeletePods(c),
         \A p \in D : pods[p].phase # "gone", Delete(D),
         Shape, StsInv', sts'.rev = sts.rev, sts'.roll = sts.roll, stsSeen' = stsSeen
  PROVE  RolloutInv'
<1> DEFINE new == {p \in D : pods[p].phase # "terminating"}
           Counted(p) == p \in new /\ pods[p].rev < stsSeen.rev
<1>1. PICK r : r = stsSeen.rev
  BY Zenon
<1>2. r \in Nat /\ sts.rev \in Nat /\ r <= sts.rev /\ stsSeen.roll # None /\ stsSeen.onDelete /\ Begin
      /\ c \in stsSeen.roll /\ stsSeen.roll \subseteq Configs
  BY Zenon, <1>1 DEF RolloutInv, StsInv, StsType, Upgrading, SetExpectedRevision, Rolling
<1>3. HistoryInv' /\ KeptInv'
  BY <1>2, ShapeHistory DEF RolloutInv, Shape
<1>4. EndedInv'
  BY Zenon, EndedKept
<1>5. \A p \in D : p \in Pods /\ ConfigOf[p] = c
  BY Zenon DEF expectDeletePods, Members
<1>6. down \in [Pods -> Nat] /\ down' = [p \in Pods |-> IF Counted(p) THEN r ELSE down[p]]
  BY Zenon, <1>1 DEF RolloutInv, DownInv, Delete, recentRevision
<1>7. \A d \in stsSeen.roll : Before(d, c) => Finished(d)
  <2> SUFFICES ASSUME NEW d \in stsSeen.roll, Before(d, c) PROVE Finished(d)
    BY Zenon
  <2>1. PICK i \in DOMAIN Order : Order[i] = c /\ \A j \in 1 .. i - 1 : Order[j] \in stsSeen.roll => Finished(Order[j])
    BY Zenon DEF Upgrading
  <2>2. PICK j, k \in DOMAIN Order : j < k /\ Order[j] = d /\ Order[k] = c
    BY Zenon DEF Before
  <2>3. k = i /\ i \in Nat /\ j \in Nat /\ 1 <= j
    BY <2>1, <2>2, RolloutAssumption
  <2> QED BY <2>1, <2>2, <2>3
<1>8. \A d \in stsSeen.roll : Before(d, c) => \A q \in Members(d) :
         PastNow(q, r) /\ seenPods[q].rev = r /\ seenPods[q].phase = "ready"
  BY Zenon, <1>1, <1>2, <1>7, FinishedPast DEF RolloutInv
<1>9. ASSUME NEW p \in Pods, Counted(p)
      PROVE  ~ PastNow(p, r) /\ NotBack(HistoryOf(p), pods[p], r) /\ sts.roll = stsSeen.roll /\ ConfigOf[p] = c
  <2> DEFINE h == HistoryOf(p)
             o == pods[p]
  <2>1. History(h, o, sts.rev) /\ o \in PodVersion /\ ~ Gone(o) /\ o.rev < r /\ o.rev \in Nat
    BY Zenon, <1>1, <1>9 DEF RolloutInv, HistoryInv, Gone, PodVersion
  <2> HIDE DEF h, o
  <2>2. ~ Past(h, o, r)
    BY <1>2, <2>1 DEF Past
  <2>3. NotBack(h, o, r)
    <3>1. \A i \in DOMAIN h : h[i].rev \in Nat /\ (Gone(h[i]) \/ h[i].rev <= o.rev)
      BY Zenon, <2>1 DEF History, PodVersion
    <3> QED BY <1>2, <2>1, <3>1 DEF NotBack, Gone
  <2>4. ~ PastNow(p, r)
    BY Zenon, <2>2 DEF PastNow, h, o
  <2>5. ConfigOf[p] = c /\ p \in Members(c)
    BY Zenon, <1>5, <1>9 DEF Members
  <2>6. sts.roll = stsSeen.roll
    BY Zenon, <1>1, <1>2, <2>4, <2>5 DEF RolloutInv, EndedInv
  <2> QED BY Zenon, <2>3, <2>4, <2>5, <2>6 DEF h, o
<1> HIDE DEF Counted
<1>10. \A p \in Pods : down'[p] = IF Counted(p) THEN r ELSE down[p]
  BY Zenon, <1>6
<1>11. down' \in [Pods -> Nat]
  BY Zenon, <1>2, <1>6
<1>12. ASSUME NEW p \in Pods, down'[p] # 0
       PROVE  /\ down'[p] <= stsSeen'.rev /\ NotBack(HistoryOf(p), pods[p], down[p])'
              /\ InTurn(sts.roll, p, down[p])' /\ InTurn(stsSeen.roll, p, down[p])'
  <2>1. CASE Counted(p)
    <3>1. down'[p] = r /\ pods'[p].phase # "ready" /\ Steps(p)
      <4>1. p \in new
        BY Zenon, <2>1 DEF Counted
      <4> QED BY Zenon, <1>10, <2>1, <4>1 DEF Delete, Marked, NewPod, Shape
    <3>2. NotBack(HistoryOf(p), pods[p], r)'
      BY Zenon, <1>9, <2>1, <3>1, NotBackKept DEF RolloutInv
    <3>3. \A q \in Pods : PastNow(q, r) => PastNow(q, r)'
      BY Zenon, <1>2, PastKept DEF RolloutInv, Shape
    <3>4. \A d \in stsSeen.roll : Before(d, c) => \A q \in Members(d) : PastNow(q, r)'
      BY Zenon, <1>8, <3>3 DEF Members
    <3>5. \A q : PastNow(q, down[p])' <=> PastNow(q, r)'
      BY Zenon, <3>1 DEF PastNow
    <3>6. sts'.roll = stsSeen.roll /\ ConfigOf[p] = c
      BY Zenon, <1>9, <2>1
    <3>7. InTurn(sts.roll, p, down[p])'
      BY Zenon, <1>2, <3>4, <3>5, <3>6 DEF InTurn, Members, Before, Pods
    <3>8. InTurn(stsSeen.roll, p, down[p])'
      BY Zenon, <1>2, <3>4, <3>5, <3>6 DEF InTurn, Members, Before, Pods
    <3>9. NotBack(HistoryOf(p), pods[p], down[p])'
      BY Zenon, <3>1, <3>2
    <3> QED BY <1>1, <1>2, <3>1, <3>7, <3>8, <3>9
  <2>2. CASE ~ Counted(p)
    <3>1. down'[p] = down[p] /\ down[p] # 0
      BY Zenon, <1>10, <1>12, <2>2
    <3>2. down[p] <= stsSeen.rev /\ InTurn(sts.roll, p, down[p]) /\ InTurn(stsSeen.roll, p, down[p])
      BY Zenon, <3>1 DEF RolloutInv, DownInv
    <3>3. /\ NotBack(HistoryOf(p), pods[p], down[p])'
          /\ \A roll : InTurn(roll, p, down[p]) /\ roll # None =>
                /\ ConfigOf[p] \in roll
                /\ \A d \in roll : Before(d, ConfigOf[p]) => \A q \in Members(d) : PastNow(q, down[p])'
      BY Zenon, <3>1, DownKept
    <3>4. InTurn(sts.roll, p, down[p])'
      BY Zenon, <3>2, <3>3 DEF InTurn, Members, Before, Pods
    <3>5. InTurn(stsSeen.roll, p, down[p])'
      BY Zenon, <3>2, <3>3 DEF InTurn, Members, Before, Pods
    <3> QED BY Zenon, <3>1, <3>2, <3>3, <3>4, <3>5
  <2> QED BY Zenon, <2>1, <2>2
<1>13. DownInv'
  BY Zenon, <1>11, <1>12 DEF DownInv
<1>14. ASSUME NEW p \in Pods, NEW q \in Pods, Counted(p), ~ Counted(q), down[q] = r, r # 0 PROVE ConfigOf[q] = c
  <2>1. /\ NotBack(HistoryOf(q), pods[q], r) /\ ConfigOf[q] \in stsSeen.roll
        /\ \A d \in stsSeen.roll : Before(d, ConfigOf[q]) => \A x \in Members(d) : PastNow(x, r)
    BY Zenon, <1>2, <1>14 DEF RolloutInv, DownInv, InTurn
  <2>2. p \in Members(c) /\ q \in Members(ConfigOf[q]) /\ ~ PastNow(p, r)
    BY Zenon, <1>9, <1>14 DEF Members
  <2>3. ~ Before(c, ConfigOf[q])
    BY Zenon, <1>2, <2>1, <2>2
  <2>4. ~ Before(ConfigOf[q], c)
    <3> SUFFICES ASSUME Before(ConfigOf[q], c) PROVE FALSE
      BY Zenon
    <3>1. seenPods[q].rev = r /\ seenPods[q].phase = "ready"
      BY Zenon, <1>8, <2>1, <2>2
    <3>2. HistoryOf(q)[0] = seenPods[q] /\ 0 \in DOMAIN HistoryOf(q)
      BY Zenon, HistoryTyped DEF RolloutInv, HistoryInv, Typed
    <3> QED BY <1>2, <2>1, <3>1, <3>2 DEF NotBack
  <2>5. PICK i, j \in DOMAIN Order : Order[i] = c /\ Order[j] = ConfigOf[q]
    BY Zenon, <1>2, <2>1 DEF Configs
  <2>6. i \in Nat /\ j \in Nat
    BY RolloutAssumption
  <2>7. ~ (i < j) /\ ~ (j < i)
    BY Zenon, <2>3, <2>4, <2>5 DEF Before
  <2> QED BY <2>5, <2>6, <2>7
<1>15. OneShardAtATime'
  <2> SUFFICES ASSUME NEW p \in Pods, NEW q \in Pods, down'[p] # 0, down'[p] = down'[q]
               PROVE  ConfigOf[p] = ConfigOf[q]
    BY Zenon DEF OneShardAtATime
  <2>1. CASE Counted(p) /\ Counted(q)
    BY Zenon, <1>9, <2>1
  <2>2. CASE Counted(p) /\ ~ Counted(q)
    BY Zenon, <1>9, <1>10, <1>14, <2>2
  <2>3. CASE ~ Counted(p) /\ Counted(q)
    BY Zenon, <1>9, <1>10, <1>14, <2>3
  <2>4. CASE ~ Counted(p) /\ ~ Counted(q)
    BY Zenon, <1>10, <2>4 DEF RolloutInv, OneShardAtATime
  <2> QED BY Zenon, <2>1, <2>2, <2>3, <2>4
<1> QED BY Zenon, <1>3, <1>4, <1>13, <1>15 DEF RolloutInv

-----------------------------------------------------------------------------
(* The actions.                                                            *)
LEMMA DownTyped ==
  ASSUME RolloutInv
  PROVE  /\ down \in [Pods -> Nat] /\ sts.rev \in Nat /\ stsSeen.rev \in Nat /\ stsSeen.rev <= sts.rev
         /\ sts \in StsType /\ stsSeen \in StsType /\ pods \in [Pods -> PodVersion]
  BY Zenon DEF RolloutInv, DownInv, StsInv, StsType, HistoryInv

(* Steps of the cluster, in which the StatefulSet stays as it is.          *)
LEMMA ClusterInv ==
  ASSUME RolloutInv, Shape, sts' = sts, stsSeen' = stsSeen, current' = current,
         down' \in [Pods -> Nat], \A p \in Pods : down'[p] # 0 => down'[p] = down[p]
  PROVE  RolloutInv'
<1>1. StsInv' /\ sts.rev <= sts'.rev /\ stsSeen.rev <= stsSeen'.rev
  BY DownTyped DEF RolloutInv, StsInv
<1>2. EndedInv'
  BY Zenon, EndedKept
<1> QED BY Zenon, <1>1, <1>2, QuietInv DEF Quiet

LEMMA ClusterStepInv ==
  ASSUME RolloutInv, NEW p \in Pods, ClusterStep(p) \/ CrashPod(p)
  PROVE  RolloutInv'
<1>1. /\ down \in [Pods -> Nat] /\ sts.rev \in Nat /\ StsInv /\ HistoryInv /\ KeptInv
      /\ pods[p] \in PodVersion /\ pods[p].rev <= sts.rev
  BY Zenon, DownTyped DEF RolloutInv, HistoryInv, History
<1>2. CASE Terminated(p)
  <2>1. PodBecomes(p, NewPod(0, "gone")) /\ down' = down /\ unrecorded' = unrecorded
    BY Zenon, <1>2 DEF Terminated
  <2>2. NewPod(0, "gone") \in PodVersion /\ Follows(pods[p], NewPod(0, "gone"), sts.rev)
    BY Zenon, <1>2 DEF Terminated, PodVersion, NewPod, Follows
  <2>3. NewPod(0, "gone").rev <= sts.rev /\ NewPod(0, "gone").phase = "gone"
    BY <1>1 DEF NewPod
  <2>4. Shape
    BY Zenon, <1>1, <2>1, <2>2, <2>3, BecomesShape
  <2> QED BY Zenon, <1>1, <2>1, <2>4, ClusterInv DEF PodBecomes, managerVars
<1>3. CASE Recreate(p)
  <2>1. PodBecomes(p, NewPod(sts.rev, "unready")) /\ down' = down /\ unrecorded' = unrecorded
    BY Zenon, <1>3 DEF Recreate
  <2>2. NewPod(sts.rev, "unready") \in PodVersion /\ Follows(pods[p], NewPod(sts.rev, "unready"), sts.rev)
    BY Zenon, <1>1, <1>3 DEF Recreate, PodVersion, NewPod, Follows
  <2>3. NewPod(sts.rev, "unready").rev <= sts.rev /\ NewPod(sts.rev, "unready").phase = "unready"
    BY <1>1 DEF NewPod
  <2>4. Shape
    BY Zenon, <1>1, <2>1, <2>2, <2>3, BecomesShape
  <2> QED BY Zenon, <1>1, <2>1, <2>4, ClusterInv DEF PodBecomes, managerVars
<1>4. CASE BecomeReady(p)
  <2> DEFINE v == NewPod(pods[p].rev, "ready")
  <2>1. PodBecomes(p, v) /\ down' = [down EXCEPT ![p] = 0] /\ unrecorded' = unrecorded
    BY Zenon, <1>4 DEF BecomeReady
  <2>2. v \in PodVersion /\ Follows(pods[p], v, sts.rev) /\ v.rev <= sts.rev /\ v.phase = "ready"
    BY Zenon, <1>1, <1>4 DEF BecomeReady, PodVersion, NewPod, Follows
  <2>3. /\ down' \in [Pods -> Nat] /\ down'[p] = 0 /\ \A q \in Pods : down'[q] # 0 => down'[q] = down[q]
    BY Zenon, <1>1, <2>1
  <2> HIDE DEF v
  <2>4. Shape
    BY Zenon, <1>1, <2>1, <2>2, <2>3, BecomesShape
  <2> QED BY Zenon, <2>1, <2>3, <2>4, ClusterInv DEF PodBecomes, managerVars
<1>5. CASE CrashPod(p)
  <2> DEFINE v == NewPod(pods[p].rev, "unready")
  <2>1. PodBecomes(p, v) /\ down' = down /\ unrecorded' = unrecorded
    BY Zenon, <1>5 DEF CrashPod
  <2>2. v \in PodVersion /\ Follows(pods[p], v, sts.rev) /\ v.rev <= sts.rev /\ v.phase = "unready"
    BY Zenon, <1>1, <1>5 DEF CrashPod, PodVersion, NewPod, Follows
  <2> HIDE DEF v
  <2>3. Shape
    BY Zenon, <1>1, <2>1, <2>2, BecomesShape
  <2> QED BY Zenon, <1>1, <2>1, <2>3, ClusterInv DEF PodBecomes, managerVars
<1> QED BY Zenon, <1>2, <1>3, <1>4, <1>5 DEF ClusterStep

LEMMA ElectInv ==
  ASSUME RolloutInv, NEW p \in Pods, Elect(p)
  PROVE  RolloutInv'
<1>1. Shape
  BY Zenon, SameShape DEF RolloutInv, Elect, managerVars
<1> QED BY Zenon, <1>1, DownTyped, ClusterInv DEF Elect, managerVars

LEMMA WatchInv ==
  ASSUME RolloutInv, WatchPods \/ Relist
  PROVE  RolloutInv'
<1>1. CASE WatchPods
  <2>1. Shape
    BY Zenon, <1>1, PopShape DEF RolloutInv
  <2> QED BY Zenon, <1>1, <2>1, DownTyped, ClusterInv DEF WatchPods
<1>2. CASE Relist
  <2>1. Shape
    BY Zenon, <1>2, JumpShape DEF RolloutInv, Relist
  <2> QED BY Zenon, <1>2, <2>1, DownTyped, ClusterInv DEF Relist
<1> QED BY Zenon, <1>1, <1>2

(* Steps after which the controller knows the StatefulSet as it is.        *)
LEMMA KnownInv ==
  ASSUME RolloutInv, Shape, sts' \in StsType, stsSeen' = sts', current' = TRUE, sts'.rev = sts.rev,
         sts'.roll \in {sts.roll, stsSeen.roll}, down' = down
  PROVE  RolloutInv'
<1>1. StsInv' /\ sts.rev <= sts'.rev /\ stsSeen.rev <= stsSeen'.rev
  BY DownTyped DEF StsInv, StsType
<1>2. EndedInv'
  BY Zenon DEF EndedInv
<1> QED BY Zenon, <1>1, <1>2, DownTyped, QuietInv DEF Quiet

LEMMA WatchStsInv ==
  ASSUME RolloutInv, WatchSts
  PROVE  RolloutInv'
<1>1. Shape
  BY Zenon, SameShape DEF RolloutInv, WatchSts, clusterVars
<1> QED BY Zenon, <1>1, DownTyped, KnownInv DEF WatchSts

LEMMA RestartedInv ==
  ASSUME RolloutInv, RestartController \/ PanicOnAnnotations
  PROVE  RolloutInv'
<1>1. CASE RestartController
  <2>1. Shape
    BY Zenon, <1>1, JumpShape DEF RolloutInv, RestartController, Restarted
  <2> QED BY Zenon, <1>1, <2>1, DownTyped, KnownInv DEF RestartController, Restarted
<1>2. CASE PanicOnAnnotations
  <2>1. Shape
    BY Zenon, <1>2, JumpShape DEF RolloutInv, PanicOnAnnotations, Restarted
  <2>2. upgradedPods \in SUBSET Pods
    BY Zenon DEF upgradedPods, Labelled
  <2> DEFINE u == upgradedPods
             s == [stsSeen EXCEPT !.annotated = TRUE, !.upgraded = u]
  <2>3. sts' = (IF current THEN s ELSE sts) /\ stsSeen' = sts' /\ current' = TRUE /\ down' = down
    BY Zenon, <1>2 DEF PanicOnAnnotations, Restarted
  <2>4. s \in StsType /\ s.rev = stsSeen.rev /\ s.roll = stsSeen.roll
    <3> HIDE DEF u
    <3>1. u \in SUBSET Pods
      BY Zenon, <2>2 DEF u
    <3> QED BY Zenon, <3>1, DownTyped DEF StsType
  <2> HIDE DEF s
  <2>5. current => stsSeen = sts
    BY Zenon DEF RolloutInv, StsInv
  <2>6. sts' \in StsType /\ sts'.rev = sts.rev /\ sts'.roll \in {sts.roll, stsSeen.roll}
    BY Zenon, <2>3, <2>4, <2>5, DownTyped
  <2> QED BY Zenon, <2>1, <2>3, <2>6, KnownInv
<1> QED BY Zenon, <1>1, <1>2

(* Writes of the StatefulSet, the Pods and the controller's view the same. *)
Writes ==
    /\ clusterVars' = clusterVars /\ seenPods' = seenPods /\ deleting' = deleting /\ unrecorded' = unrecorded
    /\ stsSeen' = stsSeen

LEMMA WritesInv ==
  ASSUME RolloutInv, Writes, StsInv', sts.rev <= sts'.rev,
         \/ down' = down /\ sts'.roll = sts.roll
         \/ down' = down /\ sts'.roll = None /\ EndedInv'
         \/ down' = [p \in Pods |-> 0] /\ EndedInv'
  PROVE  RolloutInv'
<1>1. Shape
  BY Zenon, SameShape DEF RolloutInv, Writes, clusterVars
<1>2. EndedInv'
  BY Zenon, <1>1, EndedKept DEF Writes
<1>3. /\ down' \in [Pods -> Nat] /\ \A p \in Pods : down'[p] # 0 => down'[p] = down[p]
  BY DownTyped
<1>4. \/ \A p \in Pods : down'[p] = 0
      \/ sts'.roll \in {None, sts.roll, stsSeen.roll} /\ stsSeen'.roll \in {None, sts.roll, stsSeen.roll}
  BY Zenon DEF Writes
<1>5. stsSeen.rev <= stsSeen'.rev
  BY DownTyped DEF Writes
<1> QED BY Zenon, <1>1, <1>2, <1>3, <1>4, <1>5, QuietInv DEF Quiet

LEMMA WrittenTyped ==
  ASSUME RolloutInv, sts' \in StsType, sts.rev <= sts'.rev, current' = FALSE, stsSeen' = stsSeen
  PROVE  StsInv'
<1>1. /\ stsSeen \in StsType /\ stsSeen.rev \in Nat /\ sts.rev \in Nat /\ sts'.rev \in Nat
      /\ stsSeen.rev <= sts.rev
  BY Zenon, DownTyped DEF StsType
<1>2. stsSeen.rev <= sts'.rev
  BY <1>1
<1> QED BY Zenon, <1>1, <1>2 DEF StsInv

LEMMA UserInv ==
  ASSUME RolloutInv, EditTemplate \/ ChangeStrategy \/ \E configs \in RollTypes : StartRollout(configs)
  PROVE  RolloutInv'
<1>1. CASE EditTemplate
  <2>1. sts' = [sts EXCEPT !.rev = @ + 1] /\ current' = FALSE /\ Writes /\ down' = down
    BY Zenon, <1>1 DEF EditTemplate, WriteSts, Writes
  <2>2. sts' \in StsType /\ sts'.rev = sts.rev + 1 /\ sts'.roll = sts.roll
    BY <2>1, DownTyped DEF StsType
  <2>3. StsInv' /\ sts.rev <= sts'.rev
    <3>1. sts.rev <= sts'.rev
      BY <2>2, DownTyped
    <3> QED BY Zenon, <2>1, <2>2, <3>1, WrittenTyped DEF Writes
  <2> QED BY Zenon, <2>1, <2>2, <2>3, WritesInv
<1>2. CASE ChangeStrategy
  <2>1. sts' = [sts EXCEPT !.onDelete = FALSE] /\ current' = FALSE /\ Writes /\ down' = down
    BY Zenon, <1>2 DEF ChangeStrategy, WriteSts, Writes
  <2>2. sts' \in StsType /\ sts'.rev = sts.rev /\ sts'.roll = sts.roll
    BY Zenon, <2>1, DownTyped DEF StsType
  <2>3. StsInv' /\ sts.rev <= sts'.rev
    <3>1. sts.rev <= sts'.rev
      BY <2>2, DownTyped
    <3> QED BY Zenon, <2>1, <2>2, <3>1, WrittenTyped DEF Writes
  <2> QED BY Zenon, <2>1, <2>2, <2>3, WritesInv
<1>3. ASSUME NEW configs \in RollTypes, StartRollout(configs) PROVE RolloutInv'
  <2>1. /\ sts' = [sts EXCEPT !.roll = configs, !.onDelete = TRUE] /\ current' = FALSE /\ Writes
        /\ down' = [p \in Pods |-> 0] /\ sts.roll = None
    BY Zenon, <1>3 DEF StartRollout, WriteSts, Writes
  <2>2. sts' \in StsType /\ sts'.rev = sts.rev
    <3>1. configs \in (SUBSET Configs) \cup {None}
      BY Zenon, RolloutAssumption
    <3> QED BY Zenon, <2>1, <3>1, DownTyped DEF StsType
  <2>3. StsInv' /\ sts.rev <= sts'.rev
    <3>1. sts.rev <= sts'.rev
      BY <2>2, DownTyped
    <3> QED BY Zenon, <2>1, <2>2, <3>1, WrittenTyped DEF Writes
  <2>4. Shape
    BY Zenon, <2>1, SameShape DEF RolloutInv, Writes, clusterVars
  <2>5. CASE stsSeen.roll = None
    <3>1. EndedInv'
      BY Zenon, <2>1, <2>5 DEF EndedInv, Writes
    <3> QED BY Zenon, <2>1, <2>3, <3>1, WritesInv
  <2>6. CASE stsSeen.roll # None
    <3>1. EndedInv'
      BY Zenon, <2>1, <2>4, <2>6, EndedKept DEF Writes
    <3> QED BY Zenon, <2>1, <2>3, <3>1, WritesInv
  <2> QED BY Zenon, <2>5, <2>6
<1> QED BY Zenon, <1>1, <1>2, <1>3

LEMMA IdleInv ==
  ASSUME RolloutInv, NotRolling \/ DropLabel \/ FinishRollout \/ \E c \in Configs : WaitForPods(c) \/ WaitForHolder(c)
  PROVE  RolloutInv'
<1>0. StsInv /\ HistoryInv /\ sts.rev \in Nat
  BY Zenon, DownTyped DEF RolloutInv
<1>1. CASE NotRolling
  <2>1. sts' = sts /\ current' = current /\ Writes /\ down' = down
    BY Zenon, <1>1 DEF NotRolling, Writes
  <2>2. StsInv'
    BY Zenon, <1>0, <2>1 DEF StsInv, Writes
  <2> QED BY <1>0, <2>1, <2>2, WritesInv
<1>2. CASE DropLabel
  <2>1. sts' = [stsSeen EXCEPT !.roll = None] /\ current' = FALSE /\ Writes /\ down' = down /\ current /\ ~ stsSeen.onDelete
    BY Zenon, <1>2 DEF DropLabel, WriteSts, Writes
  <2>2. stsSeen = sts
    BY Zenon, <1>0, <2>1 DEF StsInv
  <2>3. sts' \in StsType /\ sts'.rev = sts.rev /\ sts'.roll = None
    BY Zenon, <2>1, <2>2, DownTyped DEF StsType
  <2>4. StsInv' /\ EndedInv'
    BY Zenon, <2>1, <2>2, <2>3, DownTyped DEF StsInv, EndedInv, Writes
  <2> QED BY <1>0, <2>1, <2>3, <2>4, WritesInv
<1>3. CASE FinishRollout
  <2>1. /\ FinishReconcile([WithAnnotations EXCEPT !.roll = None], FALSE) /\ Writes /\ down' = down
        /\ Begin /\ \A c \in stsSeen.roll : Finished(c)
    BY Zenon, <1>3 DEF FinishRollout, Writes, SetExpectedRevision, Rolling
  <2>2. StsInv' /\ sts'.rev = sts.rev /\ (sts'.roll = sts.roll \/ (sts'.roll = None /\ stsSeen = sts))
    BY Zenon, <1>0, <2>1, EndFacts DEF Writes
  <2>3. \A c \in stsSeen.roll : \A q \in Members(c) : PastNow(q, stsSeen.rev)
    BY Zenon, <1>0, <2>1, FinishedPast
  <2>4. \A q : PastNow(q, stsSeen.rev)' <=> PastNow(q, stsSeen.rev)
    BY Zenon, <2>1 DEF PastNow, HistoryOf, Writes, clusterVars
  <2>5. EndedInv'
    BY Zenon, <2>1, <2>3, <2>4 DEF EndedInv, Members, Pods, Writes
  <2> QED BY <1>0, <2>1, <2>2, <2>5, WritesInv
<1>4. ASSUME NEW c \in Configs, WaitForPods(c) \/ WaitForHolder(c) PROVE RolloutInv'
  <2>1. /\ FinishReconcile(WithAnnotations, FALSE) \/ FinishReconcile(WithAnnotations, TRUE)
        /\ Writes /\ down' = down
    BY Zenon, <1>4 DEF WaitForPods, WaitForHolder, Writes
  <2>2. StsInv' /\ sts'.rev = sts.rev /\ sts'.roll = sts.roll
    BY Zenon, <1>0, <2>1, AnnotateFacts DEF Writes
  <2> QED BY <1>0, <2>1, <2>2, WritesInv
<1> QED BY Zenon, <1>1, <1>2, <1>3, <1>4

LEMMA FollowersInv ==
  ASSUME RolloutInv, NEW c \in Configs, NEW refused, DeleteFollowers(c, refused)
  PROVE  RolloutInv'
<1> DEFINE followers == {p \in expectDeletePods(c) : ~ isLeader(p)}
           D == Accepted(followers, refused)
<1>1. /\ Upgrading(c) /\ ~ Waiting(c) /\ Delete(D) /\ deleting' = deleting \cup D
      /\ FinishReconcile(WithAnnotations, D # followers)
      /\ stsSeen' = stsSeen /\ seenPods' = seenPods /\ unrecorded' = unrecorded
  BY Zenon DEF DeleteFollowers, Record
<1>2. D \in SUBSET expectDeletePods(c) /\ D \in SUBSET Pods /\ \A p \in D : pods[p].phase # "gone" /\ p \in Members(c)
  BY Zenon DEF Accepted, expectDeletePods, Members
<1>3. StsInv' /\ sts'.rev = sts.rev /\ sts'.roll = sts.roll
  BY Zenon, <1>1, AnnotateFacts DEF RolloutInv
<1> HIDE DEF D
<1>4. \A p \in D : p \in deleting' /\ p \notin deleting /\ seenPods[p].phase # "terminating"
  BY Zenon, <1>1, <1>2 DEF Waiting, Terminating, GetExpectation
<1>5. Shape
  BY Zenon, <1>1, <1>2, <1>4, DeleteShape DEF RolloutInv
<1> QED BY Zenon, <1>1, <1>2, <1>3, <1>5, TakeDownInv

LEMMA LeaderInv ==
  ASSUME RolloutInv, NEW c \in Configs, NEW p \in Members(c), DeleteLeader(c, p)
  PROVE  RolloutInv'
<1> DEFINE D == Accepted({p}, {})
<1>1. /\ Upgrading(c) /\ Delete(D) /\ deleting' = deleting /\ p \in expectDeletePods(c)
      /\ FinishReconcile(WithAnnotations, TRUE)
      /\ stsSeen' = stsSeen /\ seenPods' = seenPods /\ unrecorded' = unrecorded \cup {p}
  BY Zenon DEF DeleteLeader
<1>2. D \in SUBSET expectDeletePods(c) /\ D \in SUBSET Pods /\ \A q \in D : pods[q].phase # "gone" /\ q = p
  BY Zenon, <1>1 DEF Accepted, expectDeletePods, Members
<1>3. StsInv' /\ sts'.rev = sts.rev /\ sts'.roll = sts.roll
  BY Zenon, <1>1, AnnotateFacts DEF RolloutInv
<1> HIDE DEF D
<1>4. \A q \in D : q \in unrecorded'
  BY Zenon, <1>1, <1>2
<1>5. Shape
  BY Zenon, <1>1, <1>2, <1>4, DeleteShape DEF RolloutInv
<1> QED BY Zenon, <1>1, <1>2, <1>3, <1>5, TakeDownInv

-----------------------------------------------------------------------------
LEMMA RolloutInitInv ==
  ASSUME RolloutInit
  PROVE  RolloutInv
<1>1. /\ sts \in StsType /\ sts.rev = 2 /\ stsSeen = sts /\ current = TRUE
  <2>1. sts \in [rev : {2}, roll : {Configs}, onDelete : {TRUE}, annotated : {FALSE}, expected : {None}, upgraded : {{}}]
    BY Zenon DEF RolloutInit
  <2>2. sts \in StsType
    <3> DEFINE R == (SUBSET Configs) \cup {None}
               E == [Labelled -> Nat] \cup {None}
               U == SUBSET Pods
    <3>1. Configs \in R /\ None \in E /\ {} \in U
      BY Zenon
    <3>2. StsType = [rev : Nat, roll : R, onDelete : BOOLEAN, annotated : BOOLEAN, expected : E, upgraded : U]
      BY Zenon DEF StsType
    <3> DEFINE C == Configs
               e == {}
    <3>3. /\ sts \in [rev : {2}, roll : {C}, onDelete : {TRUE}, annotated : {FALSE}, expected : {None}, upgraded : {e}]
          /\ C \in R /\ None \in E /\ e \in U
      BY Zenon, <2>1, <3>1
    <3> HIDE DEF R, E, U, C, e
    <3>4. sts = [rev |-> 2, roll |-> C, onDelete |-> TRUE, annotated |-> FALSE, expected |-> None, upgraded |-> e]
      BY Zenon, <3>3
    <3> QED BY Zenon, <3>2, <3>3, <3>4
  <2> QED BY Zenon, <2>1, <2>2 DEF RolloutInit
<1>2. StsInv
  BY <1>1 DEF StsInv, StsType
<1>3. /\ pods = [p \in Pods |-> NewPod(1, "ready")] /\ seenPods = pods /\ watch = <<>>
      /\ down = [p \in Pods |-> 0]
  BY Zenon DEF RolloutInit
<1>4. NewPod(1, "ready") \in PodVersion /\ NewPod(1, "ready").rev = 1 /\ NewPod(1, "ready").phase = "ready"
  BY Zenon DEF NewPod, PodVersion
<1>5. Typed
  BY <1>3, <1>4 DEF Typed
<1>6. ASSUME NEW p \in Pods
      PROVE  DOMAIN HistoryOf(p) = {0} /\ HistoryOf(p)[0] = pods[p] /\ pods[p] = NewPod(1, "ready")
  BY <1>3 DEF HistoryOf, Told, Positions
<1>7. ASSUME NEW p \in Pods PROVE History(HistoryOf(p), pods[p], sts.rev) /\ Kept(HistoryOf(p), pods[p], p, deleting)
  <2> DEFINE h == HistoryOf(p)
             o == pods[p]
  <2>1. DOMAIN h = {0} /\ h[0] = o /\ o \in PodVersion /\ o.rev = 1 /\ o.phase = "ready"
    BY Zenon, <1>4, <1>6
  <2> HIDE DEF h, o
  <2>2. History(h, o, sts.rev) /\ Kept(h, o, p, deleting)
    BY <1>1, <2>1 DEF History, Kept, Gone
  <2> QED BY Zenon, <2>2 DEF h, o
<1>8. HistoryInv /\ KeptInv
  BY Zenon, <1>5, <1>7 DEF HistoryInv, KeptInv, Typed
<1>9. EndedInv
  BY Zenon, <1>1 DEF EndedInv
<1>10. DownInv /\ OneShardAtATime
  BY Zenon, <1>3 DEF DownInv, OneShardAtATime
<1> QED BY Zenon, <1>2, <1>8, <1>9, <1>10 DEF RolloutInv

LEMMA RolloutNextInv ==
  ASSUME RolloutInv, [RolloutNext]_rolloutVars
  PROVE  RolloutInv'
<1>1. CASE UNCHANGED rolloutVars
  BY Zenon, <1>1 DEF rolloutVars, clusterVars, managerVars, RolloutInv, StsInv, HistoryInv, KeptInv, EndedInv, DownInv,
       OneShardAtATime, HistoryOf, PastNow, InTurn
<1>2. CASE RolloutNext
  <2>1. CASE NotRolling \/ DropLabel \/ FinishRollout \/ \E c \in Configs : WaitForPods(c) \/ WaitForHolder(c)
    BY Zenon, <2>1, IdleInv
  <2>2. CASE PanicOnAnnotations \/ RestartController
    BY Zenon, <2>2, RestartedInv
  <2>3. CASE \E c \in Configs : \E refused \in SUBSET Members(c) : DeleteFollowers(c, refused)
    BY Zenon, <2>3, FollowersInv
  <2>4. CASE \E c \in Configs : \E p \in Members(c) : DeleteLeader(c, p)
    BY Zenon, <2>4, LeaderInv
  <2>5. CASE WatchSts
    BY Zenon, <2>5, WatchStsInv
  <2>6. CASE WatchPods \/ Relist
    BY Zenon, <2>6, WatchInv
  <2>7. CASE EditTemplate \/ ChangeStrategy \/ \E configs \in RollTypes : StartRollout(configs)
    BY Zenon, <2>7, UserInv
  <2>8. CASE \E p \in Pods : ClusterStep(p) \/ CrashPod(p)
    BY Zenon, <2>8, ClusterStepInv
  <2>9. CASE \E p \in Pods : Elect(p)
    BY Zenon, <2>9, ElectInv
  <2> QED BY Zenon, <1>2, <2>1, <2>2, <2>3, <2>4, <2>5, <2>6, <2>7, <2>8, <2>9 DEF RolloutNext, RollingStep
<1> QED BY Zenon, <1>1, <1>2

LEMMA RolloutInvariant == RolloutSpec => []RolloutInv
<1>1. RolloutInit => RolloutInv
  BY Zenon, RolloutInitInv
<1>2. RolloutInv /\ [RolloutNext]_rolloutVars => RolloutInv'
  BY Zenon, RolloutNextInv
<1> QED BY <1>1, <1>2, PTL DEF RolloutSpec

(* Shards are rolled one after another: the Pods that Reconcile took down  *)
(* for one revision, and that are not back, are of one ShardingConfig,     *)
(* for any number of Pods and configs and however far the informers lag.   *)
THEOREM OneShardCorrect == RolloutSpec => []OneShardAtATime
<1>1. RolloutInv => OneShardAtATime
  BY Zenon DEF RolloutInv
<1> QED BY <1>1, RolloutInvariant, PTL

(* Only upgrade's two deletions take a Pod down.                           *)
LEMMA TakenDownBy ==
  ASSUME RolloutInv, RolloutNext, NEW p \in Pods, TakenDown(p)
  PROVE  \E c \in Configs :
            /\ Begin /\ ~ Waiting(c) /\ p \in expectDeletePods(c)
            /\ ~ isLeader(p) \/ \A q \in expectDeletePods(c) : isLeader(q)
<1>0. pods \in [Pods -> PodVersion] /\ pods'[p] # pods[p] /\ pods'[p].phase = "terminating"
  BY Zenon, DownTyped DEF TakenDown
<1>1. ~ (ClusterStep(p) \/ CrashPod(p))
  BY <1>0 DEF ClusterStep, Terminated, Recreate, BecomeReady, CrashPod, PodBecomes, NewPod
<1>2. \A q \in Pods : q # p => ~ (ClusterStep(q) \/ CrashPod(q))
  BY Zenon, <1>0 DEF ClusterStep, Terminated, Recreate, BecomeReady, CrashPod, PodBecomes
<1>3. \A q \in Pods : ~ Elect(q)
  BY Zenon, <1>0 DEF Elect
<1>4. ~ (WatchSts \/ WatchPods \/ Relist \/ RestartController \/ PanicOnAnnotations)
  BY Zenon, <1>0 DEF WatchSts, WatchPods, Relist, RestartController, PanicOnAnnotations, Restarted, clusterVars
<1>5. ~ (EditTemplate \/ ChangeStrategy \/ \E configs \in RollTypes : StartRollout(configs))
  BY Zenon, <1>0 DEF EditTemplate, ChangeStrategy, StartRollout, clusterVars
<1>6. ~ (NotRolling \/ DropLabel \/ FinishRollout \/ \E c \in Configs : WaitForPods(c) \/ WaitForHolder(c))
  BY Zenon, <1>0 DEF NotRolling, DropLabel, FinishRollout, WaitForPods, WaitForHolder, clusterVars
<1>7. ASSUME NEW D, Delete(D) PROVE p \in D
  BY Zenon, <1>0, <1>7 DEF Delete
<1>8. ASSUME NEW c \in Configs, NEW refused, DeleteFollowers(c, refused)
      PROVE  Begin /\ ~ Waiting(c) /\ p \in expectDeletePods(c) /\ ~ isLeader(p)
  <2> DEFINE followers == {q \in expectDeletePods(c) : ~ isLeader(q)}
             D == Accepted(followers, refused)
  <2>1. Delete(D) /\ Upgrading(c) /\ ~ Waiting(c)
    BY Zenon, <1>8 DEF DeleteFollowers
  <2>2. p \in D
    <3> HIDE DEF D
    <3> QED BY Zenon, <1>7, <2>1
  <2> QED BY Zenon, <2>1, <2>2 DEF Accepted, Upgrading, SetExpectedRevision, Rolling
<1>9. ASSUME NEW c \in Configs, NEW x \in Members(c), DeleteLeader(c, x)
      PROVE  /\ Begin /\ ~ Waiting(c) /\ p \in expectDeletePods(c)
             /\ \A q \in expectDeletePods(c) : isLeader(q)
  <2> DEFINE D == Accepted({x}, {})
  <2>1. Delete(D) /\ Upgrading(c) /\ ~ Waiting(c) /\ x \in expectDeletePods(c) /\ \A q \in expectDeletePods(c) : isLeader(q)
    BY Zenon, <1>9 DEF DeleteLeader
  <2>2. p \in D
    <3> HIDE DEF D
    <3> QED BY Zenon, <1>7, <2>1
  <2>3. p = x
    BY Zenon, <2>2 DEF Accepted
  <2> QED BY Zenon, <2>1, <2>3 DEF Upgrading, SetExpectedRevision, Rolling
<1> QED BY Zenon, <1>1, <1>2, <1>3, <1>4, <1>5, <1>6, <1>8, <1>9 DEF RolloutNext, RollingStep

(* A Pod already at the revision that is rolled out is not deleted again,  *)
(* though podEventHandler may still have to report its predecessor's end:  *)
(* what rollingDeleteExpectation records, or the informer shows, keeps     *)
(* upgrade from it.                                                        *)
THEOREM UpdatedKeptCorrect == RolloutSpec => UpdatedKept
<1>1. ASSUME RolloutInv, RolloutNext, NEW p \in Pods, TakenDown(p), p \notin unrecorded
      PROVE  pods[p].rev # stsSeen.rev
  <2>1. PICK c \in Configs : Begin /\ ~ Waiting(c) /\ p \in expectDeletePods(c)
    BY Zenon, <1>1, TakenDownBy
  <2>2. /\ seenPods[p].rev # stsSeen.rev /\ p \notin deleting /\ seenPods[p].phase # "terminating"
        /\ seenPods[p].phase # "gone"
    BY Zenon, <2>1 DEF expectDeletePods, isUpdatedRevision, recentRevision, Waiting, Terminating, GetExpectation, Begin
  <2> DEFINE h == HistoryOf(p)
             o == pods[p]
  <2>3. /\ History(h, o, sts.rev) /\ Kept(h, o, p, deleting)
        /\ 0 \in DOMAIN h /\ DOMAIN h \subseteq Nat /\ h[0] = seenPods[p]
    BY Zenon, <1>1, HistoryTyped DEF RolloutInv, HistoryInv, KeptInv, Typed
  <2> HIDE DEF h, o
  <2>4. \A k \in DOMAIN h : 0 < k => ~ Gone(h[k])
    BY Zenon, <2>2, <2>3 DEF Kept
  <2>5. h[0].rev = o.rev
    BY Zenon, <2>2, <2>3, <2>4 DEF History, Gone
  <2> QED BY Zenon, <2>2, <2>3, <2>5 DEF o
<1>2. RolloutInv /\ [RolloutNext]_rolloutVars =>
         [\A p \in Pods : TakenDown(p) /\ p \notin unrecorded => pods[p].rev # stsSeen.rev]_rolloutVars
  BY Zenon, <1>1
<1> QED BY <1>2, RolloutInvariant, PTL DEF RolloutSpec, UpdatedKept

(* The leader goes last: isLeader lets the holder of the lease be deleted  *)
(* only when all its config's other Pods that exist have the new revision, *)
(* but for those whose name is a prefix of the holder's.                   *)
THEOREM LeaderLastCorrect == RolloutSpec => LeaderLast
<1>1. ASSUME RolloutInv, RolloutNext, NEW p \in Pods, TakenDown(p), leader[ConfigOf[p]] = p,
             NEW q \in Members(ConfigOf[p]) \ {p}
      PROVE  pods[q].phase = "gone" \/ pods[q].rev >= stsSeen.rev \/ <<q, p>> \in SamePrefix
  <2>1. PICK c \in Configs : /\ Begin /\ p \in expectDeletePods(c)
                             /\ ~ isLeader(p) \/ \A x \in expectDeletePods(c) : isLeader(x)
    BY Zenon, <1>1, TakenDownBy
  <2>2. q \in Pods /\ ConfigOf[q] = ConfigOf[p] /\ ConfigOf[p] = c
    BY Zenon, <2>1 DEF expectDeletePods, Members
  <2>3. CASE q \in expectDeletePods(c)
    BY Zenon, <1>1, <2>1, <2>2, <2>3 DEF isLeader
  <2>4. CASE q \notin expectDeletePods(c)
    <3>1. seenPods[q].rev = stsSeen.rev /\ seenPods[q].phase # "gone"
      BY Zenon, <2>1, <2>2, <2>4 DEF expectDeletePods, Members, isUpdatedRevision, recentRevision, Begin
    <3> DEFINE h == HistoryOf(q)
               o == pods[q]
    <3>2. /\ History(h, o, sts.rev) /\ 0 \in DOMAIN h /\ h[0] = seenPods[q] /\ o.rev \in Nat /\ stsSeen.rev \in Nat
      BY Zenon, <1>1, <2>2, HistoryTyped, DownTyped DEF RolloutInv, HistoryInv, Typed, PodVersion
    <3> HIDE DEF h, o
    <3>3. Gone(o) \/ stsSeen.rev <= o.rev
      BY Zenon, <3>1, <3>2 DEF History, Gone
    <3> QED BY Zenon, <3>2, <3>3 DEF Gone, o
  <2> QED BY Zenon, <2>3, <2>4
<1>2. RolloutInv /\ [RolloutNext]_rolloutVars =>
         [\A p \in Pods : TakenDown(p) /\ leader[ConfigOf[p]] = p =>
             \A q \in Members(ConfigOf[p]) \ {p} :
                 pods[q].phase = "gone" \/ pods[q].rev >= stsSeen.rev \/ <<q, p>> \in SamePrefix]_rolloutVars
  BY Zenon, <1>1
<1> QED BY <1>2, RolloutInvariant, PTL DEF RolloutSpec, LeaderLast

(* Reconcile drops the rolling label, while the strategy stays, only once  *)
(* no Pod of the configs it names is left at an old revision.              *)
THEOREM FinishedCorrect == RolloutSpec => FinishedMeansUpdated
<1>1. ASSUME RolloutInv, RolloutNext, sts.roll # None, sts'.roll = None, sts.onDelete,
             NEW p \in Pods, ConfigOf[p] \in sts.roll
      PROVE  pods[p].phase = "gone" \/ pods[p].rev = sts.rev
  <2>0. StsInv /\ HistoryInv /\ sts \in StsType /\ stsSeen \in StsType
    BY Zenon, <1>1, DownTyped DEF RolloutInv
  <2>1. CASE FinishRollout
    <3>1. /\ FinishReconcile([WithAnnotations EXCEPT !.roll = None], FALSE) /\ stsSeen' = stsSeen
          /\ Begin /\ \A c \in stsSeen.roll : Finished(c)
      BY Zenon, <2>1 DEF FinishRollout, SetExpectedRevision, Rolling
    <3>2. stsSeen = sts
      BY Zenon, <1>1, <2>0, <3>1, EndFacts
    <3>3. p \in Members(ConfigOf[p])
      BY Zenon DEF Members
    <3>4. PastNow(p, sts.rev)
      BY Zenon, <1>1, <2>0, <3>1, <3>2, <3>3, FinishedPast
    <3>5. Gone(pods[p]) \/ sts.rev <= pods[p].rev
      BY Zenon, <3>4 DEF PastNow, Past
    <3>6. pods[p].rev \in Nat /\ sts.rev \in Nat /\ pods[p].rev <= sts.rev
      BY Zenon, <2>0 DEF HistoryInv, History, PodVersion, StsType
    <3> QED BY <3>5, <3>6 DEF Gone
  <2>2. ~ DropLabel
    BY Zenon, <1>1, <2>0 DEF DropLabel, StsInv
  <2>3. ~ (NotRolling \/ WatchSts \/ WatchPods \/ Relist \/ RestartController)
    BY Zenon, <1>1 DEF NotRolling, WatchSts, WatchPods, Relist, RestartController, Restarted
  <2>4. ~ PanicOnAnnotations
    <3> SUFFICES ASSUME PanicOnAnnotations PROVE FALSE
      BY Zenon
    <3> DEFINE u == upgradedPods
               s == [stsSeen EXCEPT !.annotated = TRUE, !.upgraded = u]
    <3>1. sts' = (IF current THEN s ELSE sts)
      BY Zenon DEF PanicOnAnnotations, Restarted
    <3>2. s.roll = stsSeen.roll
      <4> HIDE DEF u
      <4> QED BY Zenon, <2>0 DEF StsType
    <3> HIDE DEF s
    <3> QED BY Zenon, <1>1, <2>0, <3>1, <3>2 DEF StsInv
  <2>5. ~ (EditTemplate \/ ChangeStrategy \/ \E configs \in RollTypes : StartRollout(configs))
    <3>1. [sts EXCEPT !.rev = @ + 1].roll = sts.roll /\ [sts EXCEPT !.onDelete = FALSE].roll = sts.roll
      BY Zenon, <2>0 DEF StsType
    <3>2. ~ EditTemplate
      BY Zenon, <1>1, <3>1 DEF EditTemplate, WriteSts
    <3>3. ~ ChangeStrategy
      BY Zenon, <1>1, <3>1 DEF ChangeStrategy, WriteSts
    <3> QED BY Zenon, <1>1, <3>2, <3>3 DEF StartRollout
  <2>6. \A q \in Pods : ~ (ClusterStep(q) \/ Elect(q) \/ CrashPod(q))
    BY Zenon, <1>1 DEF ClusterStep, Terminated, Recreate, BecomeReady, CrashPod, PodBecomes, Elect
  <2>7. ASSUME NEW requeue, FinishReconcile(WithAnnotations, requeue), stsSeen' = stsSeen PROVE FALSE
    BY Zenon, <1>1, <2>0, <2>7, AnnotateFacts
  <2>8. \A c \in Configs : ~ (WaitForPods(c) \/ WaitForHolder(c))
    BY Zenon, <2>7 DEF WaitForPods, WaitForHolder
  <2>9. \A c \in Configs : \A refused \in SUBSET Members(c) : ~ DeleteFollowers(c, refused)
    BY Zenon, <2>7 DEF DeleteFollowers
  <2>10. \A c \in Configs : \A q \in Members(c) : ~ DeleteLeader(c, q)
    BY Zenon, <2>7 DEF DeleteLeader
  <2> QED BY Zenon, <1>1, <2>1, <2>2, <2>3, <2>4, <2>5, <2>6, <2>8, <2>9, <2>10 DEF RolloutNext, RollingStep
<1>2. RolloutInv /\ [RolloutNext]_rolloutVars =>
         [sts.roll # None /\ sts'.roll = None /\ sts.onDelete =>
             \A p \in Pods : ConfigOf[p] \in sts.roll => pods[p].phase = "gone" \/ pods[p].rev = sts.rev]_rolloutVars
  BY Zenon, <1>1
<1> QED BY <1>2, RolloutInvariant, PTL DEF RolloutSpec, FinishedMeansUpdated
=============================================================================
