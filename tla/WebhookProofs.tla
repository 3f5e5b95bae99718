---------------------------- MODULE WebhookProofs ----------------------------
(***************************************************************************)
(* Proofs about the webhooks.  Their certificates, for any number of       *)
(* managers, runs of cert-generator and disturbances: a directory never    *)
(* shows a half-written certificate, and no server uses a certificate that *)
(* the webhook configurations do not trust unless the CA itself was lost.  *)
(* And the shard labels that they and the runnable of the manager write,   *)
(* for any namespaces and objects: the runnable misses none.               *)
(***************************************************************************)
EXTENDS WebhookCerts, ShardLabels, FiniteSetTheorems, TLAPS

-----------------------------------------------------------------------------
(* One directory and its writer.  What makes DirWhole inductive: the       *)
(* directory that is being filled, and the one that is being removed, are  *)
(* never the one that ..data leads to.                                     *)
Busy == {"begin", "payload", "links", "symlink", "rename", "cleanup"}

Dir == [links : BOOLEAN, data : Stamp \cup {Nil}, dataTmp : Stamp \cup {Nil}, stamps : [Stamp -> Cert \cup {Nil, Partial}]]
Writer == [pc : Busy \cup {"idle", "written", "failed"}, cert : Cert \cup {Nil}, stamp : Stamp \cup {Nil}, old : Stamp \cup {Nil}]

DirOk(d, w) ==
    /\ d.data # Nil => d.links /\ d.stamps[d.data] \in Cert
    /\ w.pc \in Busy => w.cert \in Cert
    /\ w.pc \in {"payload", "links", "symlink", "rename"} => w.stamp \in Stamp /\ w.stamp # d.data /\ w.old = d.data
    /\ w.pc \in {"links", "symlink", "rename"} => d.stamps[w.stamp] = w.cert
    /\ w.pc \in {"symlink", "rename"} => d.links
    /\ w.pc = "rename" => d.dataTmp = w.stamp
    /\ w.pc = "cleanup" => w.old # d.data
    /\ w.pc \in {"cleanup", "written"} => d.data # Nil

(* What a step of the writer does to everything else that is known: the    *)
(* certificate stays, the directory has no other certificate than before   *)
(* or the one that is written, and ..data does not go away.                *)
DirStep(d, w, d2, w2) ==
    /\ d2 \in Dir /\ w2 \in Writer /\ DirOk(d2, w2)
    /\ w2.cert = w.cert
    /\ d.data # Nil => d2.data # Nil
    /\ \A s \in Stamp : d2.stamps[s] \in {d.stamps[s], w.cert, Nil, Partial}

LEMMA EmptyDirFits == EmptyDir \in Dir /\ Idle \in Writer /\ DirOk(EmptyDir, Idle)
  BY Zenon, NilAssumption DEF EmptyDir, Idle, Dir, Writer, DirOk, Busy

LEMMA WriteStepOk ==
  ASSUME NEW p \in Process, dir \in [Process -> Dir], writer \in [Process -> Writer], DirOk(dir[p], writer[p]),
         WriteStep(p) \/ WriteFails(p)
  PROVE  \E d \in Dir, w \in Writer :
            /\ dir' = [dir EXCEPT ![p] = d] /\ writer' = [writer EXCEPT ![p] = w]
            /\ DirStep(dir[p], writer[p], d, w)
<1> DEFINE d == dir[p]
           w == writer[p]
<1>1. d \in Dir /\ w \in Writer /\ DirOk(d, w)
  BY Zenon
<1>2. dir = [dir EXCEPT ![p] = d]
  BY Zenon
<1>3. \A pc : To(p, pc) => writer' = [writer EXCEPT ![p] = [w EXCEPT !.pc = pc]]
  BY Zenon DEF To
<1>4. ASSUME NEW d2 \in Dir, NEW w2 \in Writer, dir' = [dir EXCEPT ![p] = d2], writer' = [writer EXCEPT ![p] = w2],
             DirStep(d, w, d2, w2)
      PROVE  \E e \in Dir, v \in Writer :
                /\ dir' = [dir EXCEPT ![p] = e] /\ writer' = [writer EXCEPT ![p] = v]
                /\ DirStep(dir[p], writer[p], e, v)
  BY Zenon, <1>4
<1>5. CASE BeginWrite(p)
  <2>1. CASE newTimestampDir(p)
    <3> DEFINE s == CHOOSE s \in Stamp : d.stamps[s] = Nil
               d2 == [d EXCEPT !.stamps = [d.stamps EXCEPT ![s] = Partial]]
               w2 == [w EXCEPT !.pc = "payload", !.stamp = s, !.old = d.data]
    <3>1. s \in Stamp /\ d.stamps[s] = Nil
      BY Zenon, <2>1 DEF newTimestampDir
    <3>2. dir' = [dir EXCEPT ![p] = d2] /\ writer' = [writer EXCEPT ![p] = w2]
      BY Zenon, <2>1 DEF newTimestampDir, Change
    <3> HIDE DEF s, d, w
    <3>3. d2 \in Dir /\ w2 \in Writer
      BY Zenon, <1>1, <3>1 DEF Dir, Writer, Busy
    <3>4. /\ w2.pc = "payload" /\ w2.stamp = s /\ w2.old = d.data /\ w2.cert = w.cert
          /\ d2.links = d.links /\ d2.data = d.data
          /\ \A x \in Stamp : d2.stamps[x] = IF x = s THEN Partial ELSE d.stamps[x]
      BY Zenon, <1>1, <3>1 DEF Dir, Writer
    <3>5. w.pc = "begin"
      BY Zenon, <1>5 DEF BeginWrite, At, w
    <3> HIDE DEF d2, w2
    <3>6. DirStep(d, w, d2, w2)
      BY <1>1, <3>1, <3>3, <3>4, <3>5, NilAssumption DEF DirStep, DirOk, Busy, Dir
    <3> QED BY Zenon, <1>4, <3>2, <3>3, <3>6
  <2>2. CASE d.data # Nil /\ To(p, "written") /\ UNCHANGED dir
    <3> DEFINE w2 == [w EXCEPT !.pc = "written"]
    <3>1. w2 \in Writer /\ w2.pc = "written" /\ w2.cert = w.cert
      BY Zenon, <1>1 DEF Writer
    <3>2. writer' = [writer EXCEPT ![p] = w2] /\ dir' = [dir EXCEPT ![p] = d]
      BY Zenon, <1>2, <1>3, <2>2
    <3> HIDE DEF d, w, w2
    <3>3. DirStep(d, w, d, w2)
      BY Zenon, <1>1, <2>2, <3>1 DEF DirStep, DirOk, Busy
    <3> QED BY Zenon, <1>1, <1>4, <3>1, <3>2, <3>3
  <2> QED BY Zenon, <1>5, <2>1, <2>2 DEF BeginWrite
<1>6. CASE writePayloadToDir(p)
  <2> DEFINE d2 == [d EXCEPT !.stamps = [d.stamps EXCEPT ![w.stamp] = w.cert]]
             w2 == [w EXCEPT !.pc = "links"]
  <2>1. w.pc = "payload" /\ dir' = [dir EXCEPT ![p] = d2] /\ writer' = [writer EXCEPT ![p] = w2]
    BY Zenon, <1>3, <1>6 DEF writePayloadToDir, At, Change
  <2> HIDE DEF d, w
  <2>2. w.stamp \in Stamp /\ w.cert \in Cert
    BY Zenon, <1>1, <2>1 DEF DirOk, Busy
  <2>3. d2 \in Dir /\ w2 \in Writer
    BY Zenon, <1>1, <2>2 DEF Dir, Writer, Busy
  <2>4. /\ w2.pc = "links" /\ w2.stamp = w.stamp /\ w2.old = w.old /\ w2.cert = w.cert
        /\ d2.links = d.links /\ d2.data = d.data
        /\ \A x \in Stamp : d2.stamps[x] = IF x = w.stamp THEN w.cert ELSE d.stamps[x]
    BY Zenon, <1>1, <2>2 DEF Dir, Writer
  <2> HIDE DEF d2, w2
  <2>5. DirStep(d, w, d2, w2)
    BY ZenonT(60), <1>1, <2>1, <2>2, <2>3, <2>4, NilAssumption DEF DirStep, DirOk, Busy, Dir
  <2> QED BY Zenon, <1>4, <2>1, <2>3, <2>5
<1>7. CASE createUserVisibleFiles(p)
  <2> DEFINE d2 == [d EXCEPT !.links = TRUE]
             w2 == [w EXCEPT !.pc = "symlink"]
  <2>1. w.pc = "links" /\ dir' = [dir EXCEPT ![p] = d2] /\ writer' = [writer EXCEPT ![p] = w2]
    BY Zenon, <1>3, <1>7 DEF createUserVisibleFiles, At, Change
  <2> HIDE DEF d, w
  <2>2. d2 \in Dir /\ w2 \in Writer
    BY Zenon, <1>1 DEF Dir, Writer, Busy
  <2>3. /\ w2.pc = "symlink" /\ w2.stamp = w.stamp /\ w2.old = w.old /\ w2.cert = w.cert
        /\ d2.links /\ d2.data = d.data /\ d2.stamps = d.stamps
    BY Zenon, <1>1 DEF Dir, Writer
  <2> HIDE DEF d2, w2
  <2>4. DirStep(d, w, d2, w2)
    BY Zenon, <1>1, <2>1, <2>2, <2>3 DEF DirStep, DirOk, Busy
  <2> QED BY Zenon, <1>4, <2>1, <2>2, <2>4
<1>8. ASSUME NEW tmp \in Stamp \cup {Nil}, w.pc \in {"symlink", "rename"},
             Change(p, [d EXCEPT !.stamps = [d.stamps EXCEPT ![w.stamp] = Nil], !.dataTmp = tmp]), To(p, "failed")
      PROVE  \E e \in Dir, v \in Writer :
                /\ dir' = [dir EXCEPT ![p] = e] /\ writer' = [writer EXCEPT ![p] = v]
                /\ DirStep(dir[p], writer[p], e, v)
  <2> DEFINE d2 == [d EXCEPT !.stamps = [d.stamps EXCEPT ![w.stamp] = Nil], !.dataTmp = tmp]
             w2 == [w EXCEPT !.pc = "failed"]
  <2>1. dir' = [dir EXCEPT ![p] = d2] /\ writer' = [writer EXCEPT ![p] = w2]
    BY Zenon, <1>3, <1>8 DEF Change
  <2> HIDE DEF d, w
  <2>2. w.stamp \in Stamp /\ w.stamp # d.data
    BY Zenon, <1>1, <1>8 DEF DirOk
  <2>3. d2 \in Dir /\ w2 \in Writer
    BY Zenon, <1>1, <2>2 DEF Dir, Writer, Busy
  <2>4. /\ w2.pc = "failed" /\ w2.cert = w.cert
        /\ d2.links = d.links /\ d2.data = d.data
        /\ \A x \in Stamp : d2.stamps[x] = IF x = w.stamp THEN Nil ELSE d.stamps[x]
    BY Zenon, <1>1, <2>2 DEF Dir, Writer
  <2> HIDE DEF d2, w2
  <2>5. DirStep(d, w, d2, w2)
    BY ZenonT(60), <1>1, <2>2, <2>3, <2>4, NilAssumption DEF DirStep, DirOk, Busy, Dir
  <2> QED BY Zenon, <1>4, <2>1, <2>3, <2>5
<1>9. CASE SymlinkTmp(p)
  <2>1. CASE d.dataTmp # Nil
    <3>1. [d EXCEPT !.stamps = [d.stamps EXCEPT ![w.stamp] = Nil]]
            = [d EXCEPT !.stamps = [d.stamps EXCEPT ![w.stamp] = Nil], !.dataTmp = d.dataTmp]
      <4> HIDE DEF d, w
      <4> QED BY Zenon, <1>1 DEF Dir
    <3>2. d.dataTmp \in Stamp \cup {Nil}
      BY Zenon, <1>1 DEF Dir
    <3> QED BY Zenon, <1>8, <1>9, <2>1, <3>1, <3>2 DEF SymlinkTmp, At
  <2>2. CASE d.dataTmp = Nil
    <3> DEFINE d2 == [d EXCEPT !.dataTmp = w.stamp]
               w2 == [w EXCEPT !.pc = "rename"]
    <3>1. w.pc = "symlink" /\ dir' = [dir EXCEPT ![p] = d2] /\ writer' = [writer EXCEPT ![p] = w2]
      BY Zenon, <1>3, <1>9, <2>2 DEF SymlinkTmp, At, Change
    <3> HIDE DEF d, w
    <3>2. d2 \in Dir /\ w2 \in Writer
      BY Zenon, <1>1 DEF Dir, Writer, Busy
    <3>3. /\ w2.pc = "rename" /\ w2.stamp = w.stamp /\ w2.old = w.old /\ w2.cert = w.cert
          /\ d2.links = d.links /\ d2.data = d.data /\ d2.stamps = d.stamps /\ d2.dataTmp = w.stamp
      BY Zenon, <1>1 DEF Dir, Writer
    <3> HIDE DEF d2, w2
    <3>4. DirStep(d, w, d2, w2)
      BY Zenon, <1>1, <3>1, <3>2, <3>3 DEF DirStep, DirOk, Busy
    <3> QED BY Zenon, <1>4, <3>1, <3>2, <3>4
  <2> QED BY Zenon, <2>1, <2>2
<1>10. CASE Rename(p)
  <2> DEFINE d2 == [d EXCEPT !.data = d.dataTmp, !.dataTmp = Nil]
             w2 == [w EXCEPT !.pc = "cleanup"]
  <2>1. w.pc = "rename" /\ dir' = [dir EXCEPT ![p] = d2] /\ writer' = [writer EXCEPT ![p] = w2]
    BY Zenon, <1>3, <1>10 DEF Rename, At, Change
  <2> HIDE DEF d, w
  <2>2. d2 \in Dir /\ w2 \in Writer
    BY Zenon, <1>1 DEF Dir, Writer, Busy
  <2>3. /\ w2.pc = "cleanup" /\ w2.stamp = w.stamp /\ w2.old = w.old /\ w2.cert = w.cert
        /\ d2.links = d.links /\ d2.data = d.dataTmp /\ d2.stamps = d.stamps
    BY Zenon, <1>1 DEF Dir, Writer
  <2> HIDE DEF d2, w2
  <2>4. DirStep(d, w, d2, w2)
    BY Zenon, <1>1, <2>1, <2>2, <2>3, NilAssumption DEF DirStep, DirOk, Busy
  <2> QED BY Zenon, <1>4, <2>1, <2>2, <2>4
<1>11. CASE RemoveOld(p)
  <2> DEFINE d2 == IF w.old = Nil THEN d ELSE [d EXCEPT !.stamps = [d.stamps EXCEPT ![w.old] = Nil]]
             w2 == [w EXCEPT !.pc = "written"]
  <2>1. w.pc = "cleanup" /\ dir' = [dir EXCEPT ![p] = d2] /\ writer' = [writer EXCEPT ![p] = w2]
    BY Zenon, <1>3, <1>11 DEF RemoveOld, At, Change
  <2> HIDE DEF d, w
  <2>2. d2 \in Dir /\ w2 \in Writer
    BY Zenon, <1>1 DEF Dir, Writer, Busy
  <2>3. /\ w2.pc = "written" /\ w2.cert = w.cert
        /\ d2.links = d.links /\ d2.data = d.data
        /\ \A x \in Stamp : d2.stamps[x] = IF x = w.old THEN Nil ELSE d.stamps[x]
    BY Zenon, <1>1, NilAssumption DEF Dir, Writer
  <2> HIDE DEF d2, w2
  <2>4. DirStep(d, w, d2, w2)
    BY ZenonT(60), <1>1, <2>1, <2>2, <2>3, NilAssumption DEF DirStep, DirOk, Busy, Dir
  <2> QED BY Zenon, <1>4, <2>1, <2>2, <2>4
<1>12. CASE WriteFails(p)
  <2>1. CASE w.pc = "symlink"
    <3>1. [d EXCEPT !.stamps = [d.stamps EXCEPT ![w.stamp] = Nil]]
            = [d EXCEPT !.stamps = [d.stamps EXCEPT ![w.stamp] = Nil], !.dataTmp = d.dataTmp]
      <4> HIDE DEF d, w
      <4> QED BY Zenon, <1>1 DEF Dir
    <3>2. d.dataTmp \in Stamp \cup {Nil}
      BY Zenon, <1>1 DEF Dir
    <3>3. To(p, "failed") /\ Change(p, [d EXCEPT !.stamps = [d.stamps EXCEPT ![w.stamp] = Nil]])
      BY Zenon, <1>12, <2>1 DEF WriteFails, At
    <3> QED BY Zenon, <1>8, <2>1, <3>1, <3>2, <3>3
  <2>2. CASE w.pc = "rename"
    <3>1. To(p, "failed") /\ Change(p, [d EXCEPT !.stamps = [d.stamps EXCEPT ![w.stamp] = Nil], !.dataTmp = Nil])
      BY Zenon, <1>12, <2>2 DEF WriteFails, At
    <3> QED BY Zenon, <1>8, <2>2, <3>1
  <2>3. CASE w.pc \notin {"symlink", "rename"}
    <3> DEFINE w2 == [w EXCEPT !.pc = "failed"]
    <3>1. dir' = [dir EXCEPT ![p] = d] /\ writer' = [writer EXCEPT ![p] = w2]
      BY Zenon, <1>3, <1>12, <2>3 DEF WriteFails, At, Change
    <3> HIDE DEF d, w
    <3>2. w2 \in Writer /\ w2.pc = "failed" /\ w2.cert = w.cert
      BY Zenon, <1>1 DEF Writer
    <3> HIDE DEF w2
    <3>3. DirStep(d, w, d, w2)
      BY Zenon, <1>1, <3>2 DEF DirStep, DirOk, Busy
    <3> QED BY Zenon, <1>1, <1>4, <3>1, <3>2, <3>3
  <2> QED BY Zenon, <2>1, <2>2, <2>3
<1> QED BY Zenon, <1>5, <1>6, <1>7, <1>9, <1>10, <1>11, <1>12 DEF WriteStep
-----------------------------------------------------------------------------
(* The processes.                                                          *)
Secret == [cert : Cert \cup {Nil}, version : Nat]
CAs == [Config -> Nat \cup {Nil}]
Mgr == [pc : {"idle", "create", "reread", "overwrite", "write", "configs", "mutating", "validating", "absent", "exited"},
        read : Secret, seen : CAs \cup {Nil}, queued : BOOLEAN, up : BOOLEAN, main : {"setup", "waiting", "ready"},
        checker : Nat \cup {Nil}, torn : BOOLEAN]

CertType ==
    /\ dir \in [Process -> Dir] /\ writer \in [Process -> Writer] /\ mgr \in [Process -> Mgr]
    /\ served \in [Process -> Cert \cup {Nil}]
    /\ secret \in Secret /\ ca \in CAs /\ made \in Nat /\ rotated \in BOOLEAN

(* How far the webhook controller of p is, and what it has by then.        *)
CtrlOk(p, d, w, g, v) ==
    /\ DirOk(d, w)
    /\ g.pc \in {"create", "reread", "overwrite", "configs", "mutating", "validating"} \/ g.main # "setup" \/ v # Nil
          => p \in Manager
    /\ g.pc = "overwrite" => g.read.cert \in Cert
    /\ g.pc \in {"write", "configs", "mutating", "validating"} => w.cert \in Cert
    /\ g.pc \in {"configs", "mutating", "validating"} \/ g.main # "setup" => d.data # Nil
    /\ g.pc \in {"mutating", "validating"} => g.seen \in CAs

(* Every certificate a manager has is of the CA of the Secret, and what it *)
(* has put into the configurations, or saw there, is still there.          *)
Known(x, sec) == x \in Cert => sec.cert \in Cert /\ x.ca = sec.cert.ca

TrustOk(d, w, g, v, sec, cas) ==
    /\ Known(w.cert, sec) /\ Known(v, sec) /\ Known(g.read.cert, sec) /\ \A s \in Stamp : Known(d.stamps[s], sec)
    /\ g.pc \in {"mutating", "validating"} => \A c \in Config : g.seen[c] \in {Nil, cas[c]}
    /\ g.pc = "validating" => cas["mutating"] # Nil
    /\ g.main # "setup" => \A c \in Config : cas[c] # Nil
    /\ v # Nil => g.main # "setup"

Bundles(sec, cas) == \A c \in Config : cas[c] # Nil => sec.cert \in Cert /\ cas[c] = sec.cert.ca

CertInv ==
    /\ CertType
    /\ \A p \in Process : CtrlOk(p, dir[p], writer[p], mgr[p], served[p])
    /\ ~ rotated =>
          /\ \A n \in Nat : ValidCACert(n)
          /\ Bundles(secret, ca)
          /\ \A p \in Manager : TrustOk(dir[p], writer[p], mgr[p], served[p], secret, ca)

(* A step of one process that changes neither Secret nor configurations.   *)
LEMMA OneProcess ==
  ASSUME CertInv, NEW p \in Process, NEW d \in Dir, NEW w \in Writer, NEW g \in Mgr, NEW v \in Cert \cup {Nil},
         dir' = [dir EXCEPT ![p] = d], writer' = [writer EXCEPT ![p] = w], mgr' = [mgr EXCEPT ![p] = g],
         served' = [served EXCEPT ![p] = v], UNCHANGED <<secret, ca, expired, rotated>>, made' \in Nat,
         CtrlOk(p, d, w, g, v), ~ rotated /\ p \in Manager => TrustOk(d, w, g, v, secret, ca)
  PROVE  CertInv'
<1>1. CertType'
  BY Zenon DEF CertInv, CertType
<1>2. \A q \in Process :
         /\ dir'[q] = (IF q = p THEN d ELSE dir[q])
         /\ writer'[q] = (IF q = p THEN w ELSE writer[q])
         /\ mgr'[q] = (IF q = p THEN g ELSE mgr[q])
         /\ served'[q] = (IF q = p THEN v ELSE served[q])
  BY Zenon DEF CertInv, CertType
<1>3. \A q \in Process : CtrlOk(q, dir'[q], writer'[q], mgr'[q], served'[q])
  BY ZenonT(60), <1>2 DEF CertInv
<1>4. ~ rotated => \A q \in Manager : TrustOk(dir'[q], writer'[q], mgr'[q], served'[q], secret, ca)
  BY <1>2, ProcessAssumption DEF CertInv
<1>5. \A n \in Nat : ValidCACert(n) <=> ValidCACert(n)'
  BY Zenon DEF ValidCACert
<1> QED BY Zenon, <1>1, <1>3, <1>4, <1>5 DEF CertInv

(* What is not changed, in the form the lemma above wants it.              *)
LEMMA Unmoved ==
  ASSUME CertInv, NEW p \in Process
  PROVE  /\ dir = [dir EXCEPT ![p] = dir[p]] /\ writer = [writer EXCEPT ![p] = writer[p]]
         /\ mgr = [mgr EXCEPT ![p] = mgr[p]] /\ served = [served EXCEPT ![p] = served[p]]
         /\ dir[p] \in Dir /\ writer[p] \in Writer /\ mgr[p] \in Mgr /\ served[p] \in Cert \cup {Nil}
         /\ made \in Nat /\ secret \in Secret /\ ca \in CAs
         /\ CtrlOk(p, dir[p], writer[p], mgr[p], served[p])
         /\ ~ rotated => Bundles(secret, ca)
         /\ ~ rotated /\ p \in Manager => TrustOk(dir[p], writer[p], mgr[p], served[p], secret, ca)
  BY Zenon DEF CertInv, CertType

(* A step that changes only the record of the controller of p.             *)
LEMMA OnlyMgr ==
  ASSUME CertInv, NEW p \in Process, NEW g \in Mgr, mgr' = [mgr EXCEPT ![p] = g],
         UNCHANGED <<dir, writer, served, secret, ca, expired, rotated>>, made' \in Nat,
         CtrlOk(p, dir[p], writer[p], g, served[p]),
         ~ rotated /\ p \in Manager => TrustOk(dir[p], writer[p], g, served[p], secret, ca)
  PROVE  CertInv'
<1>1. /\ dir' = [dir EXCEPT ![p] = dir[p]] /\ writer' = [writer EXCEPT ![p] = writer[p]]
      /\ served' = [served EXCEPT ![p] = served[p]]
      /\ dir[p] \in Dir /\ writer[p] \in Writer /\ served[p] \in Cert \cup {Nil}
  BY Zenon, Unmoved
<1> QED BY Zenon, <1>1, OneProcess

(* A failed sync is put back into the queue.                               *)
LEMMA FailInv ==
  ASSUME CertInv, NEW m \in Process, Set(m, Fail(m)), UNCHANGED <<dir, writer, served, secret, ca, expired, rotated>>,
         made' \in Nat
  PROVE  CertInv'
<1> DEFINE g == mgr[m]
           n == Fail(m)
<1>1. g \in Mgr /\ CtrlOk(m, dir[m], writer[m], g, served[m])
        /\ (~ rotated /\ m \in Manager => TrustOk(dir[m], writer[m], g, served[m], secret, ca))
  BY Zenon, Unmoved
<1>2. n \in Mgr /\ n.pc = "idle" /\ n.main = g.main /\ n.read = g.read
  BY Zenon, <1>1 DEF Fail, Mgr
<1> HIDE DEF g, n
<1>3. CtrlOk(m, dir[m], writer[m], n, served[m])
  BY Zenon, <1>1, <1>2 DEF CtrlOk
<1>4. ~ rotated /\ m \in Manager => TrustOk(dir[m], writer[m], n, served[m], secret, ca)
  BY Zenon, <1>1, <1>2 DEF TrustOk
<1> QED BY Zenon, <1>2, <1>3, <1>4, OnlyMgr DEF Set, n

(* A change of the record of the controller of p that keeps what it has.   *)
LEMMA SameView ==
  ASSUME NEW p, NEW d, NEW w, NEW g, NEW h, NEW v, NEW sec, NEW cas,
         h.pc = g.pc, h.main = g.main, h.read = g.read, h.seen = g.seen
  PROVE  /\ CtrlOk(p, d, w, g, v) => CtrlOk(p, d, w, h, v)
         /\ TrustOk(d, w, g, v, sec, cas) => TrustOk(d, w, h, v, sec, cas)
  BY Zenon DEF CtrlOk, TrustOk

(* A Secret or a configuration that gets a value keeps what was known.     *)
LEMMA TrustGrows ==
  ASSUME NEW d, NEW w, NEW g, NEW v, NEW sec, NEW cas, NEW sec2, NEW cas2, TrustOk(d, w, g, v, sec, cas),
         sec.cert \in Cert => sec2.cert \in Cert /\ sec2.cert.ca = sec.cert.ca,
         \A c \in Config : cas[c] # Nil => cas2[c] = cas[c]
  PROVE  TrustOk(d, w, g, v, sec2, cas2)
<1>1. \A x : Known(x, sec) => Known(x, sec2)
  BY Zenon DEF Known
<1> QED BY Zenon, <1>1 DEF TrustOk, Config

(* EnsureCert.                                                             *)
LEMMA ReadSecretInv ==
  ASSUME CertInv, NEW m \in Process, ReadSecret(m)
  PROVE  CertInv'
<1> DEFINE d == dir[m]
           w == writer[m]
           g == mgr[m]
           v == served[m]
           q == [g EXCEPT !.queued = IF g.pc = "idle" THEN FALSE ELSE @, !.read = secret]
<1>1. /\ m \in Manager /\ g.pc \in {"idle", "reread"}
      /\ UNCHANGED <<dir, secret, ca, served, expired, made, rotated>> /\ made \in Nat /\ secret \in Secret
  BY Zenon, Unmoved DEF ReadSecret
<1>2. /\ d \in Dir /\ w \in Writer /\ g \in Mgr /\ v \in Cert \cup {Nil} /\ CtrlOk(m, d, w, g, v)
      /\ ~ rotated => TrustOk(d, w, g, v, secret, ca)
  BY Zenon, <1>1, Unmoved
<1> HIDE DEF d, w, g, v
<1>3. q \in Mgr /\ q.pc = g.pc /\ q.main = g.main /\ q.read = secret /\ q.seen = g.seen
  BY Zenon, <1>1, <1>2 DEF Mgr
<1>4. Known(secret.cert, secret)
  BY Zenon DEF Known
<1> HIDE DEF q
<1>5. ASSUME NEW pc \in {"create", "overwrite"}, pc = "overwrite" => secret.cert \in Cert,
             Set(m, [q EXCEPT !.pc = pc]), UNCHANGED writer
      PROVE  CertInv'
  <2> DEFINE n == [q EXCEPT !.pc = pc]
  <2>1. n \in Mgr /\ n.pc = pc /\ n.main = g.main /\ n.read = secret
    BY Zenon, <1>3, <1>5 DEF Mgr
  <2>2. mgr' = [mgr EXCEPT ![m] = n]
    BY Zenon, <1>5 DEF Set
  <2> HIDE DEF n
  <2>3. CtrlOk(m, d, w, n, v) /\ (~ rotated => TrustOk(d, w, n, v, secret, ca))
    BY Zenon, <1>1, <1>2, <1>4, <1>5, <2>1 DEF CtrlOk, TrustOk
  <2> QED BY Zenon, <1>1, <1>5, <2>1, <2>2, <2>3, OnlyMgr DEF d, w, g, v
<1>6. CASE Set(m, Fail(m)) /\ UNCHANGED writer
  BY Zenon, <1>1, <1>6, FailInv
<1>7. CASE validCert(secret.cert) /\ Set(m, [q EXCEPT !.pc = "write"]) /\ StartWriting(m, secret.cert)
  <2> DEFINE n == [q EXCEPT !.pc = "write"]
             u == [Idle EXCEPT !.pc = "begin", !.cert = secret.cert]
  <2>1. n \in Mgr /\ n.pc = "write" /\ n.main = g.main /\ n.read = secret
    BY Zenon, <1>3 DEF Mgr
  <2>2. secret.cert \in Cert
    BY Zenon, <1>1, <1>7 DEF validCert, Secret
  <2>3. u \in Writer /\ u.pc = "begin" /\ u.cert = secret.cert
    BY Zenon, <2>2, EmptyDirFits DEF Idle, Writer, Busy
  <2>4. mgr' = [mgr EXCEPT ![m] = n] /\ writer' = [writer EXCEPT ![m] = u]
    BY Zenon, <1>7 DEF Set, StartWriting
  <2> HIDE DEF n, u
  <2>5. CtrlOk(m, d, u, n, v) /\ (~ rotated => TrustOk(d, u, n, v, secret, ca))
    BY Zenon, <1>1, <1>2, <1>4, <2>1, <2>2, <2>3 DEF CtrlOk, TrustOk, DirOk, Busy
  <2>6. dir' = [dir EXCEPT ![m] = d] /\ served' = [served EXCEPT ![m] = v]
    BY Zenon, <1>1, Unmoved DEF d, v
  <2> QED BY Zenon, <1>1, <1>2, <2>1, <2>3, <2>4, <2>5, <2>6, OneProcess
<1>8. secret.cert # Nil => secret.cert \in Cert
  BY Zenon, <1>1 DEF Secret
<1> QED BY Zenon, <1>5, <1>6, <1>7, <1>8 DEF ReadSecret, q, g

(* WriteCertsToDir, and its failures.                                      *)
LEMMA WriteInv ==
  ASSUME CertInv, NEW p \in Process, WriteStep(p) \/ WriteFails(p),
         UNCHANGED <<secret, ca, mgr, served, expired, made, rotated>>
  PROVE  CertInv'
<1>1. DirOk(dir[p], writer[p]) /\ dir \in [Process -> Dir] /\ writer \in [Process -> Writer]
  BY Zenon DEF CertInv, CertType, CtrlOk
<1>2. PICK d \in Dir, w \in Writer :
         /\ dir' = [dir EXCEPT ![p] = d] /\ writer' = [writer EXCEPT ![p] = w]
         /\ DirStep(dir[p], writer[p], d, w)
  BY Zenon, <1>1, WriteStepOk
<1>3. /\ mgr' = [mgr EXCEPT ![p] = mgr[p]] /\ served' = [served EXCEPT ![p] = served[p]]
      /\ mgr[p] \in Mgr /\ served[p] \in Cert \cup {Nil} /\ made' \in Nat
      /\ CtrlOk(p, dir[p], writer[p], mgr[p], served[p])
      /\ ~ rotated /\ p \in Manager => TrustOk(dir[p], writer[p], mgr[p], served[p], secret, ca)
  BY Zenon, Unmoved
<1>4. CtrlOk(p, d, w, mgr[p], served[p])
  BY Zenon, <1>2, <1>3 DEF CtrlOk, DirStep
<1>5. ASSUME ~ rotated, p \in Manager PROVE TrustOk(d, w, mgr[p], served[p], secret, ca)
  <2>1. TrustOk(dir[p], writer[p], mgr[p], served[p], secret, ca)
    BY Zenon, <1>3, <1>5
  <2>2. \A s \in Stamp : Known(d.stamps[s], secret)
    BY Zenon, <1>2, <2>1, NilAssumption DEF DirStep, TrustOk, Known
  <2> QED BY Zenon, <1>2, <2>1, <2>2 DEF TrustOk, DirStep
<1> QED BY Zenon, <1>2, <1>3, <1>4, <1>5, OneProcess

LEMMA WokenFits ==
  ASSUME CertInv
  PROVE  /\ Woken \in [Process -> Mgr]
         /\ \A p \in Process : /\ Woken[p].pc = mgr[p].pc /\ Woken[p].main = mgr[p].main
                               /\ Woken[p].read = mgr[p].read /\ Woken[p].seen = mgr[p].seen
                               /\ Woken[p].up = mgr[p].up
<1> SUFFICES ASSUME NEW p \in Process
             PROVE  /\ Woken[p] \in Mgr /\ Woken[p].pc = mgr[p].pc /\ Woken[p].main = mgr[p].main
                    /\ Woken[p].read = mgr[p].read /\ Woken[p].seen = mgr[p].seen
                    /\ Woken[p].up = mgr[p].up
  BY Zenon DEF Woken
<1> DEFINE g == mgr[p]
           b == g.queued \/ (p \in Manager /\ g.up)
<1>1. Woken[p] = [g EXCEPT !.queued = b]
  BY Zenon DEF Woken
<1>2. b \in BOOLEAN /\ g \in Mgr
  BY Zenon, Unmoved
<1> HIDE DEF g, b
<1>3. /\ [g EXCEPT !.queued = b] \in Mgr /\ [g EXCEPT !.queued = b].pc = g.pc /\ [g EXCEPT !.queued = b].main = g.main
      /\ [g EXCEPT !.queued = b].read = g.read /\ [g EXCEPT !.queued = b].seen = g.seen
      /\ [g EXCEPT !.queued = b].up = g.up
  BY Zenon, <1>2 DEF Mgr
<1> QED BY Zenon, <1>1, <1>3 DEF g

(* A manager writes a new certificate to the Secret.  Unless the CA was    *)
(* lost it is of the CA of the one before, if there was one.               *)
LEMMA NewSecret ==
  ASSUME CertInv, NEW m \in Manager, NEW c \in Cert, secret' = certsToSecret(c),
         mgr' = [Woken EXCEPT ![m].pc = "write"], StartWriting(m, c), made' = made + 1,
         UNCHANGED <<dir, ca, served, expired, rotated>>,
         ~ rotated /\ secret.cert \in Cert => c.ca = secret.cert.ca
  PROVE  CertInv'
<1> DEFINE h == Woken[m]
           n == [h EXCEPT !.pc = "write"]
           u == [Idle EXCEPT !.pc = "begin", !.cert = c]
<1>0. m \in Process
  BY Zenon, ProcessAssumption
<1>1. /\ \A q \in Process : /\ Woken[q] \in Mgr /\ Woken[q].pc = mgr[q].pc /\ Woken[q].main = mgr[q].main
                            /\ Woken[q].read = mgr[q].read /\ Woken[q].seen = mgr[q].seen
      /\ Woken \in [Process -> Mgr]
  BY Zenon, WokenFits
<1>2. n \in Mgr /\ n.pc = "write" /\ n.main = mgr[m].main /\ n.read = mgr[m].read
  <2>1. h \in Mgr /\ h.main = mgr[m].main /\ h.read = mgr[m].read
    BY Zenon, <1>0, <1>1
  <2> HIDE DEF h
  <2> QED BY Zenon, <2>1 DEF Mgr
<1>3. u \in Writer /\ u.pc = "begin" /\ u.cert = c
  BY Zenon, EmptyDirFits DEF Idle, Writer, Busy
<1>4. made \in Nat /\ made' \in Nat /\ secret' \in Secret /\ secret'.cert = c
  BY <1>0, Unmoved DEF certsToSecret, Secret
<1>5. mgr' = [Woken EXCEPT ![m] = n] /\ writer' = [writer EXCEPT ![m] = u]
  BY Zenon DEF StartWriting
<1> HIDE DEF n, u, h
<1>6. \A q \in Process : /\ mgr'[q] = IF q = m THEN n ELSE Woken[q]
                         /\ writer'[q] = IF q = m THEN u ELSE writer[q]
  BY Zenon, <1>1, <1>5 DEF CertInv, CertType
<1>7. CertType'
  BY Zenon, <1>0, <1>1, <1>2, <1>3, <1>4, <1>5 DEF CertInv, CertType
<1>8. \A q \in Process : CtrlOk(q, dir'[q], writer'[q], mgr'[q], served'[q])
  <2> SUFFICES ASSUME NEW q \in Process PROVE CtrlOk(q, dir[q], writer'[q], mgr'[q], served[q])
    BY Zenon
  <2>1. CtrlOk(q, dir[q], writer[q], mgr[q], served[q])
    BY Zenon DEF CertInv
  <2>2. CASE q = m
    BY Zenon, <1>2, <1>3, <1>6, <2>1, <2>2 DEF CtrlOk, DirOk, Busy
  <2>3. CASE q # m
    BY Zenon, <1>1, <1>6, <2>1, <2>3, SameView
  <2> QED BY Zenon, <2>2, <2>3
<1>9. ASSUME ~ rotated
      PROVE  /\ \A k \in Nat : ValidCACert(k)' /\ Bundles(secret', ca')
             /\ \A q \in Manager : TrustOk(dir'[q], writer'[q], mgr'[q], served'[q], secret', ca')
  <2>1. \A k \in Nat : ValidCACert(k)'
    BY Zenon, <1>9 DEF CertInv, ValidCACert
  <2>2. Bundles(secret', ca')
    BY Zenon, <1>4, <1>9 DEF CertInv, Bundles
  <2>3. ASSUME NEW q \in Manager PROVE TrustOk(dir[q], writer'[q], mgr'[q], served[q], secret', ca)
    <3>1. TrustOk(dir[q], writer[q], mgr[q], served[q], secret, ca)
      BY Zenon, <1>9 DEF CertInv
    <3>2. TrustOk(dir[q], writer[q], mgr[q], served[q], secret', ca)
      BY Zenon, <1>4, <1>9, <3>1, TrustGrows
    <3>3. CASE q = m
      <4>1. Known(c, secret')
        BY Zenon, <1>4 DEF Known
      <4>2. writer'[q] = u /\ mgr'[q] = n
        BY Zenon, <1>0, <1>6, <3>3
      <4>3. TrustOk(dir[q], u, n, served[q], secret', ca)
        BY Zenon, <1>2, <1>3, <3>2, <3>3, <4>1 DEF TrustOk
      <4> QED BY Zenon, <4>2, <4>3
    <3>4. CASE q # m
      BY Zenon, <1>1, <1>6, <3>2, <3>4, SameView, ProcessAssumption
    <3> QED BY Zenon, <3>3, <3>4
  <2> QED BY Zenon, <2>1, <2>2, <2>3
<1> QED BY Zenon, <1>7, <1>8, <1>9 DEF CertInv

LEMMA CreateSecretInv ==
  ASSUME CertInv, NEW m \in Process, CreateSecret(m)
  PROVE  CertInv'
<1>1. /\ mgr[m] \in Mgr /\ made \in Nat /\ mgr[m].pc = "create" /\ CtrlOk(m, dir[m], writer[m], mgr[m], served[m])
      /\ ~ rotated /\ m \in Manager => TrustOk(dir[m], writer[m], mgr[m], served[m], secret, ca)
      /\ UNCHANGED <<dir, ca, served, expired, rotated>>
  BY Zenon, Unmoved DEF CreateSecret
<1>2. m \in Manager
  BY Zenon, <1>1 DEF CtrlOk
<1>3. CASE GoTo(m, "reread") /\ UNCHANGED <<secret, writer, made>>
  <2> DEFINE g == mgr[m]
             n == [g EXCEPT !.pc = "reread"]
  <2>1. mgr' = [mgr EXCEPT ![m] = n]
    BY Zenon, <1>3 DEF GoTo, Set
  <2> HIDE DEF g
  <2>2. n \in Mgr /\ n.pc = "reread" /\ n.main = g.main /\ n.read = g.read
    BY Zenon, <1>1 DEF Mgr, g
  <2> HIDE DEF n
  <2>3. CtrlOk(m, dir[m], writer[m], n, served[m]) /\ (~ rotated => TrustOk(dir[m], writer[m], n, served[m], secret, ca))
    BY Zenon, <1>1, <1>2, <2>2 DEF CtrlOk, TrustOk, g
  <2>4. made' \in Nat
    BY Zenon, <1>1, <1>3
  <2> QED BY Zenon, <1>1, <1>3, <2>1, <2>2, <2>3, <2>4, OnlyMgr
<1>4. CASE /\ secret.cert = Nil /\ secret' = certsToSecret(Generate(Nil)) /\ made' = made + 1
           /\ mgr' = [Woken EXCEPT ![m].pc = "write"] /\ StartWriting(m, Generate(Nil))
  <2>1. Generate(Nil) \in Cert
    BY <1>1 DEF Generate, NewSignedCert, Cert
  <2> QED BY Zenon, <1>1, <1>2, <1>4, <2>1, NewSecret, NilAssumption
<1> QED BY Zenon, <1>3, <1>4 DEF CreateSecret

LEMMA OverwriteSecretInv ==
  ASSUME CertInv, NEW m \in Process, OverwriteSecret(m)
  PROVE  CertInv'
<1> DEFINE old == mgr[m].read.cert
           c == Generate(old)
<1>1. /\ made \in Nat /\ mgr[m].pc = "overwrite" /\ CtrlOk(m, dir[m], writer[m], mgr[m], served[m])
      /\ ~ rotated /\ m \in Manager => TrustOk(dir[m], writer[m], mgr[m], served[m], secret, ca)
      /\ UNCHANGED <<dir, ca, served, expired, rotated>>
  BY Zenon, Unmoved DEF OverwriteSecret
<1>2. m \in Manager /\ old \in Cert
  BY Zenon, <1>1 DEF CtrlOk
<1>3. CASE Set(m, Fail(m)) /\ UNCHANGED <<secret, writer, made>>
  BY <1>1, <1>3, FailInv
<1>4. CASE /\ secret' = certsToSecret(c) /\ made' = made + 1
           /\ mgr' = [Woken EXCEPT ![m].pc = "write"] /\ StartWriting(m, c)
  <2> HIDE DEF old
  <2>1. c \in Cert /\ (~ rotated => c.ca = old.ca)
    <3>1. old # Nil /\ old.ca \in Nat
      BY Zenon, <1>2, NilAssumption DEF Cert
    <3>2. ~ rotated => ValidCACert(old.ca)
      BY Zenon, <3>1 DEF CertInv
    <3> QED BY <1>1, <3>1, <3>2 DEF Generate, NewSignedCert, Cert
  <2>2. ~ rotated /\ secret.cert \in Cert => old.ca = secret.cert.ca
    BY Zenon, <1>1, <1>2 DEF TrustOk, Known, old
  <2> HIDE DEF c
  <2> QED BY Zenon, <1>1, <1>2, <1>4, <2>1, <2>2, NewSecret
<1> QED BY Zenon, <1>3, <1>4 DEF OverwriteSecret

LEMMA WriteDirEndsInv ==
  ASSUME CertInv, NEW m \in Process, WriteDirEnds(m)
  PROVE  CertInv'
<1> DEFINE d == dir[m]
           w == writer[m]
           g == mgr[m]
           v == served[m]
           u == [Idle EXCEPT !.cert = w.cert]
           n == IF w.pc = "written" THEN [g EXCEPT !.pc = "configs"] ELSE Fail(m)
<1>1. /\ m \in Manager /\ g.pc = "write" /\ w.pc \in {"written", "failed"}
      /\ writer' = [writer EXCEPT ![m] = u] /\ mgr' = [mgr EXCEPT ![m] = n]
      /\ UNCHANGED <<dir, secret, ca, served, expired, made, rotated>>
  BY Zenon DEF WriteDirEnds, Set
<1>2. /\ d \in Dir /\ w \in Writer /\ g \in Mgr /\ v \in Cert \cup {Nil} /\ made' \in Nat /\ CtrlOk(m, d, w, g, v)
      /\ ~ rotated => TrustOk(d, w, g, v, secret, ca)
      /\ dir' = [dir EXCEPT ![m] = d] /\ served' = [served EXCEPT ![m] = v]
  BY Zenon, <1>1, Unmoved
<1>3. u \in Writer /\ u.pc = "idle" /\ u.cert = w.cert
  <2> HIDE DEF w
  <2> QED BY Zenon, <1>2, EmptyDirFits DEF Idle, Writer
<1>4. n \in Mgr /\ n.main = g.main /\ n.read = g.read /\ n.pc = IF w.pc = "written" THEN "configs" ELSE "idle"
  <2> HIDE DEF w
  <2> QED BY Zenon, <1>2 DEF Fail, Mgr
<1> HIDE DEF d, w, g, v, u, n
<1>5. CtrlOk(m, d, u, n, v) /\ (~ rotated => TrustOk(d, u, n, v, secret, ca))
  BY Zenon, <1>1, <1>2, <1>3, <1>4 DEF CtrlOk, TrustOk, DirOk, Busy
<1> QED BY Zenon, <1>1, <1>2, <1>3, <1>4, <1>5, OneProcess

LEMMA GetConfigurationsInv ==
  ASSUME CertInv, NEW m \in Process, GetConfigurations(m)
  PROVE  CertInv'
<1> DEFINE g == mgr[m]
           n == [g EXCEPT !.pc = "mutating", !.seen = ca]
<1>1. /\ g.pc = "configs" /\ mgr' = [mgr EXCEPT ![m] = n]
      /\ UNCHANGED <<dir, writer, secret, ca, served, expired, made, rotated>>
  BY Zenon DEF GetConfigurations, Set
<1>2. /\ g \in Mgr /\ made' \in Nat /\ ca \in CAs /\ CtrlOk(m, dir[m], writer[m], g, served[m])
      /\ ~ rotated /\ m \in Manager => TrustOk(dir[m], writer[m], g, served[m], secret, ca)
  BY Zenon, <1>1, Unmoved
<1> HIDE DEF g
<1>3. n \in Mgr /\ n.pc = "mutating" /\ n.main = g.main /\ n.read = g.read /\ n.seen = ca
  BY Zenon, <1>2 DEF Mgr
<1> HIDE DEF n
<1>4. /\ CtrlOk(m, dir[m], writer[m], n, served[m])
      /\ ~ rotated /\ m \in Manager => TrustOk(dir[m], writer[m], n, served[m], secret, ca)
  BY Zenon, <1>1, <1>2, <1>3 DEF CtrlOk, TrustOk
<1> QED BY Zenon, <1>1, <1>2, <1>3, <1>4, OnlyMgr

(* ensureConfigurations: as long as the CA was not lost a configuration    *)
(* gets no other CA than the one it has.                                   *)
LEMMA EnsureConfigurationInv ==
  ASSUME CertInv, NEW m \in Process, NEW c \in Config, EnsureConfiguration(m, c)
  PROVE  CertInv'
<1> DEFINE bundle == writer[m].cert.ca
           seen == mgr[m].seen[c]
           next == IF seen = bundle THEN mgr ELSE Woken
           h == next[m]
           n == [h EXCEPT !.pc = IF c = "mutating" THEN "validating" ELSE "idle",
                          !.seen = IF c = "mutating" THEN @ ELSE Nil,
                          !.main = IF c = "validating" /\ @ = "setup" THEN SetUp(m) ELSE @]
           cas == IF seen = bundle THEN ca ELSE [ca EXCEPT ![c] = bundle]
<1>1. /\ mgr[m].pc = c /\ c \in {"mutating", "validating"} /\ UNCHANGED <<dir, writer, secret, served, expired, made, rotated>>
      /\ made' \in Nat
  BY Zenon, Unmoved DEF EnsureConfiguration, Config
<1>2. CASE Set(m, Fail(m)) /\ UNCHANGED ca
  BY Zenon, <1>1, <1>2, FailInv
<1>3. CASE ca' = cas /\ mgr' = [next EXCEPT ![m] = n] /\ (seen = bundle \/ seen = ca[c])
  <2>1. /\ mgr[m] \in Mgr /\ CtrlOk(m, dir[m], writer[m], mgr[m], served[m]) /\ ca \in CAs /\ writer[m] \in Writer
        /\ ~ rotated /\ m \in Manager => TrustOk(dir[m], writer[m], mgr[m], served[m], secret, ca)
    BY Zenon, Unmoved
  <2>2. m \in Manager /\ bundle \in Nat /\ writer[m].cert \in Cert /\ bundle # Nil
    BY Zenon, <1>1, <2>1, NilAssumption DEF CtrlOk, Cert
  <2>3. /\ next \in [Process -> Mgr]
        /\ \A q \in Process : /\ next[q].pc = mgr[q].pc /\ next[q].main = mgr[q].main
                              /\ next[q].read = mgr[q].read /\ next[q].seen = mgr[q].seen
    BY Zenon, WokenFits DEF CertInv, CertType
  <2>4. cas \in CAs
    BY Zenon, <2>1, <2>2 DEF CAs
  <2>5. /\ n \in Mgr /\ n.read = mgr[m].read
        /\ n.pc = IF c = "mutating" THEN "validating" ELSE "idle"
        /\ c = "mutating" => n.main = mgr[m].main /\ n.seen = mgr[m].seen
    <3>1. h \in Mgr /\ h.main = mgr[m].main /\ h.read = mgr[m].read /\ h.seen = mgr[m].seen
      BY Zenon, <2>3
    <3> HIDE DEF h
    <3> QED BY Zenon, <1>1, <3>1 DEF Mgr, SetUp
  <2> HIDE DEF next, n, h
  <2>6. \A q \in Process : mgr'[q] = IF q = m THEN n ELSE next[q]
    BY Zenon, <1>3, <2>3
  <2>7. CertType'
    BY Zenon, <1>1, <1>3, <2>3, <2>4, <2>5 DEF CertInv, CertType
  <2>8. \A q \in Process : CtrlOk(q, dir'[q], writer'[q], mgr'[q], served'[q])
    <3> SUFFICES ASSUME NEW q \in Process PROVE CtrlOk(q, dir[q], writer[q], mgr'[q], served[q])
      BY Zenon, <1>1
    <3>1. CtrlOk(q, dir[q], writer[q], mgr[q], served[q])
      BY Zenon DEF CertInv
    <3>2. CASE q = m
      BY Zenon, <1>1, <2>2, <2>5, <2>6, <3>1, <3>2 DEF CtrlOk
    <3>3. CASE q # m
      BY Zenon, <2>3, <2>6, <3>1, <3>3, SameView
    <3> QED BY Zenon, <3>2, <3>3
  <2>9. ASSUME ~ rotated
        PROVE  /\ \A k \in Nat : ValidCACert(k)' /\ Bundles(secret', ca')
               /\ \A q \in Manager : TrustOk(dir'[q], writer'[q], mgr'[q], served'[q], secret', ca')
    <3>1. TrustOk(dir[m], writer[m], mgr[m], served[m], secret, ca) /\ Bundles(secret, ca)
      BY Zenon, <2>2, <2>9 DEF CertInv
    <3>2. secret.cert \in Cert /\ bundle = secret.cert.ca
      BY Zenon, <2>2, <3>1 DEF TrustOk, Known
    <3>3. seen \in {Nil, ca[c]}
      BY Zenon, <1>1, <3>1 DEF TrustOk
    <3>4. cas[c] = bundle /\ \A x \in Config : x # c => cas[x] = ca[x]
      BY <2>1, <2>2, <3>3 DEF CAs
    <3>5. ca[c] # Nil => ca[c] = bundle
      BY Zenon, <3>1, <3>2 DEF Bundles
    <3> HIDE DEF cas
    <3>6. \A k \in Nat : ValidCACert(k)'
      BY Zenon, <1>1, <2>9 DEF CertInv, ValidCACert
    <3>7. Bundles(secret', ca')
      BY Zenon, <1>1, <1>3, <3>1, <3>2, <3>4 DEF Bundles
    <3>8. \A x \in Config : ca[x] # Nil => cas[x] = ca[x]
      BY Zenon, <3>4, <3>5
    <3>9. ASSUME NEW q \in Manager PROVE TrustOk(dir[q], writer[q], mgr'[q], served[q], secret, cas)
      <4>1. TrustOk(dir[q], writer[q], mgr[q], served[q], secret, ca)
        BY Zenon, <2>9 DEF CertInv
      <4>2. TrustOk(dir[q], writer[q], mgr[q], served[q], secret, cas)
        BY Zenon, <3>8, <4>1, TrustGrows
      <4>3. CASE q = m
        <5>1. mgr'[q] = n
          BY Zenon, <2>6, <4>3
        <5>2. CASE c = "mutating"
          BY Zenon, <1>1, <2>2, <2>5, <3>4, <4>2, <4>3, <5>1, <5>2 DEF TrustOk
        <5>3. CASE c = "validating"
          <6>1. ca["mutating"] # Nil
            BY Zenon, <1>1, <3>1, <5>3 DEF TrustOk
          <6>2. \A x \in Config : cas[x] # Nil
            BY Zenon, <2>2, <3>4, <5>3, <6>1 DEF Config
          <6>3. served[q] # Nil => n.main # "setup"
            <7>1. n.main # "setup"
              BY Zenon, <2>3, <5>3 DEF n, h, SetUp, Mgr
            <7> QED BY Zenon, <7>1
          <6> QED BY Zenon, <2>5, <4>2, <4>3, <5>1, <5>3, <6>2, <6>3 DEF TrustOk
        <5> QED BY Zenon, <1>1, <5>2, <5>3
      <4>4. CASE q # m
        BY Zenon, <2>3, <2>6, <4>2, <4>4, SameView, ProcessAssumption
      <4> QED BY Zenon, <4>3, <4>4
    <3> QED BY Zenon, <1>1, <1>3, <3>6, <3>7, <3>9
  <2> QED BY Zenon, <2>7, <2>8, <2>9, <1>1 DEF CertInv
<1> QED BY ZenonT(60), <1>2, <1>3 DEF EnsureConfiguration

(* The server, the readiness check and the end of a process.               *)
LEMMA ReloadInv ==
  ASSUME CertInv, NEW m \in Process, Reload(m)
  PROVE  CertInv'
<1> DEFINE d == dir[m]
           w == writer[m]
           g == mgr[m]
           v == Visible(m)
<1>1. /\ m \in Manager /\ g.main # "setup" /\ served' = [served EXCEPT ![m] = v]
      /\ UNCHANGED <<dir, writer, secret, ca, mgr, expired, made, rotated>>
  BY Zenon DEF Reload
<1>2. /\ d \in Dir /\ w \in Writer /\ g \in Mgr /\ made' \in Nat /\ CtrlOk(m, d, w, g, served[m])
      /\ ~ rotated => TrustOk(d, w, g, served[m], secret, ca)
      /\ dir' = [dir EXCEPT ![m] = d] /\ writer' = [writer EXCEPT ![m] = w] /\ mgr' = [mgr EXCEPT ![m] = g]
  BY Zenon, <1>1, Unmoved
<1>3. v = d.stamps[d.data] /\ d.data \in Stamp /\ v \in Cert
  BY Zenon, <1>1, <1>2 DEF Visible, CtrlOk, DirOk, Dir
<1> HIDE DEF d, w, g, v
<1>4. CtrlOk(m, d, w, g, v) /\ (~ rotated => TrustOk(d, w, g, v, secret, ca))
  BY Zenon, <1>1, <1>2, <1>3 DEF CtrlOk, TrustOk
<1> QED BY ZenonT(60), <1>1, <1>2, <1>3, <1>4, OneProcess

LEMMA ExitInv ==
  ASSUME CertInv, NEW p \in Process, Exit(p), UNCHANGED <<secret, ca, expired, made, rotated>>
  PROVE  CertInv'
<1> DEFINE b == p \in Generator /\ dir[p].dataTmp # Nil
           n == [Resting EXCEPT !.up = FALSE, !.torn = b]
           d == IF p \in Generator THEN dir[p] ELSE EmptyDir
<1>1. /\ mgr' = [mgr EXCEPT ![p] = n] /\ dir' = [dir EXCEPT ![p] = d]
      /\ writer' = [writer EXCEPT ![p] = Idle] /\ served' = [served EXCEPT ![p] = Nil]
  BY Zenon DEF Exit, Set
<1>2. b \in BOOLEAN
  BY Zenon
<1> HIDE DEF b
<1>3. n \in Mgr /\ n.pc = "idle" /\ n.main = "setup" /\ n.read.cert = Nil
  BY Zenon, <1>2 DEF Resting, NoSecret, Mgr, Secret
<1> HIDE DEF n
<1>4. d \in Dir /\ Idle \in Writer /\ made' \in Nat /\ CtrlOk(p, dir[p], writer[p], mgr[p], served[p])
  BY Zenon, Unmoved, EmptyDirFits
<1>5. DirOk(d, Idle)
  BY Zenon, <1>4, EmptyDirFits DEF CtrlOk, DirOk, Idle, Busy
<1>6. CtrlOk(p, d, Idle, n, Nil)
  BY Zenon, <1>3, <1>5 DEF CtrlOk
<1>7. ASSUME p \in Manager PROVE TrustOk(d, Idle, n, Nil, secret, ca)
  <2>1. d = EmptyDir
    BY Zenon, <1>7, ProcessAssumption
  <2> QED BY <1>3, <2>1, NilAssumption DEF TrustOk, Known, EmptyDir, Idle
<1> HIDE DEF d
<1> QED BY Zenon, <1>1, <1>3, <1>4, <1>6, <1>7, OneProcess

LEMMA WaitReadyInv ==
  ASSUME CertInv, NEW m \in Process, WaitReady(m)
  PROVE  CertInv'
<1> DEFINE g == mgr[m]
<1>1. m \in Manager /\ g.main = "waiting" /\ UNCHANGED <<secret, ca, expired, made, rotated>>
  BY Zenon DEF WaitReady
<1>2. /\ g \in Mgr /\ made' \in Nat /\ dir[m] \in Dir /\ CtrlOk(m, dir[m], writer[m], g, served[m])
      /\ ~ rotated => TrustOk(dir[m], writer[m], g, served[m], secret, ca)
  BY Zenon, <1>1, Unmoved
<1>3. ASSUME NEW n \in Mgr, n.pc = g.pc, n.read = g.read, n.seen = g.seen, n.main # "setup", mgr' = [mgr EXCEPT ![m] = n],
             UNCHANGED <<dir, writer, served>>
      PROVE  CertInv'
  <2> HIDE DEF g
  <2>1. CtrlOk(m, dir[m], writer[m], n, served[m]) /\ (~ rotated => TrustOk(dir[m], writer[m], n, served[m], secret, ca))
    BY Zenon, <1>1, <1>2, <1>3 DEF CtrlOk, TrustOk
  <2> QED BY Zenon, <1>1, <1>2, <1>3, <2>1, OnlyMgr
<1>4. CASE mgr' = [mgr EXCEPT ![m] = [g EXCEPT !.checker = Nil, !.main = "ready"]] /\ UNCHANGED <<dir, writer, served>>
  <2> DEFINE n == [g EXCEPT !.checker = Nil, !.main = "ready"]
  <2>1. n \in Mgr /\ n.pc = g.pc /\ n.read = g.read /\ n.seen = g.seen /\ n.main = "ready"
    <3> HIDE DEF g
    <3> QED BY Zenon, <1>2 DEF Mgr
  <2> QED BY Zenon, <1>3, <1>4, <2>1
<1>5. CASE mgr' = [mgr EXCEPT ![m] = [g EXCEPT !.checker = Checker(m)]] /\ UNCHANGED <<dir, writer, served>>
  <2> DEFINE k == Checker(m)
             n == [g EXCEPT !.checker = k]
  <2>1. k \in Nat \cup {Nil}
    <3>1. Visible(m) \in Cert
      BY Zenon, <1>1, <1>2 DEF Visible, CtrlOk, DirOk, Dir
    <3>2. g.checker \in Nat \cup {Nil}
      BY Zenon, <1>2 DEF Mgr
    <3> QED BY Zenon, <3>1, <3>2 DEF Checker, Cert
  <2>2. n \in Mgr /\ n.pc = g.pc /\ n.read = g.read /\ n.seen = g.seen /\ n.main = g.main
    <3> HIDE DEF g, k
    <3> QED BY Zenon, <1>2, <2>1 DEF Mgr
  <2> QED BY Zenon, <1>1, <1>3, <1>5, <2>2
<1>6. CASE Exit(m)
  BY Zenon, <1>1, <1>6, ExitInv
<1> QED BY Zenon, <1>4, <1>5, <1>6 DEF WaitReady, Set

(* cert-generator.                                                         *)
LEMMA RunGeneratorInv ==
  ASSUME CertInv, NEW p \in Process, RunGenerator(p)
  PROVE  CertInv'
<1> DEFINE g == mgr[p]
<1>1. /\ p \notin Manager /\ g.pc = "idle" /\ made \in Nat
      /\ UNCHANGED <<dir, secret, ca, served, expired, rotated>>
      /\ g \in Mgr /\ CtrlOk(p, dir[p], writer[p], g, served[p])
  BY Zenon, Unmoved, ProcessAssumption DEF RunGenerator
<1>2. CASE mgr' = [mgr EXCEPT ![p] = [g EXCEPT !.pc = "exited", !.queued = FALSE]] /\ UNCHANGED <<writer, made>>
  <2> DEFINE n == [g EXCEPT !.pc = "exited", !.queued = FALSE]
  <2> HIDE DEF g
  <2>1. n \in Mgr /\ n.pc = "exited" /\ n.main = g.main
    BY Zenon, <1>1 DEF Mgr
  <2>2. mgr' = [mgr EXCEPT ![p] = n]
    BY Zenon, <1>2 DEF g
  <2> HIDE DEF n
  <2>3. CtrlOk(p, dir[p], writer[p], n, served[p])
    BY Zenon, <1>1, <2>1 DEF CtrlOk
  <2> QED BY Zenon, <1>1, <1>2, <2>1, <2>2, <2>3, OnlyMgr
<1>3. CASE /\ mgr' = [mgr EXCEPT ![p] = [g EXCEPT !.pc = "write", !.queued = FALSE]]
           /\ made' = made + 1 /\ StartWriting(p, Generate(Nil))
  <2> DEFINE n == [g EXCEPT !.pc = "write", !.queued = FALSE]
             u == [Idle EXCEPT !.pc = "begin", !.cert = Generate(Nil)]
  <2>1. Generate(Nil) \in Cert
    BY <1>1 DEF Generate, NewSignedCert, Cert
  <2>2. u \in Writer /\ u.pc = "begin" /\ u.cert = Generate(Nil)
    BY Zenon, <2>1, EmptyDirFits DEF Idle, Writer, Busy
  <2>3. n \in Mgr /\ n.pc = "write" /\ n.main = g.main
    <3> HIDE DEF g
    <3> QED BY Zenon, <1>1 DEF Mgr
  <2>4. mgr' = [mgr EXCEPT ![p] = n] /\ writer' = [writer EXCEPT ![p] = u]
    BY Zenon, <1>3 DEF StartWriting
  <2>5. /\ dir' = [dir EXCEPT ![p] = dir[p]] /\ served' = [served EXCEPT ![p] = served[p]]
        /\ dir[p] \in Dir /\ served[p] \in Cert \cup {Nil} /\ made' \in Nat
    BY <1>1, <1>3, Unmoved
  <2> HIDE DEF n, u, g
  <2>6. CtrlOk(p, dir[p], u, n, served[p])
    BY Zenon, <1>1, <2>1, <2>2, <2>3 DEF CtrlOk, DirOk, Busy
  <2> QED BY Zenon, <1>1, <2>2, <2>3, <2>4, <2>5, <2>6, OneProcess
<1> QED BY Zenon, <1>2, <1>3 DEF RunGenerator, Set

LEMMA GeneratorEndsInv ==
  ASSUME CertInv, NEW p \in Process, GeneratorEnds(p)
  PROVE  CertInv'
<1> DEFINE g == mgr[p]
           n == IF writer[p].pc = "written" THEN [g EXCEPT !.pc = "exited"] ELSE [Resting EXCEPT !.up = FALSE]
<1>1. /\ p \notin Manager /\ writer' = [writer EXCEPT ![p] = Idle] /\ mgr' = [mgr EXCEPT ![p] = n]
      /\ UNCHANGED <<dir, secret, ca, served, expired, made, rotated>>
  BY Zenon, ProcessAssumption DEF GeneratorEnds, Set
<1>2. /\ dir' = [dir EXCEPT ![p] = dir[p]] /\ served' = [served EXCEPT ![p] = served[p]]
      /\ dir[p] \in Dir /\ served[p] \in Cert \cup {Nil} /\ made' \in Nat /\ g \in Mgr /\ Idle \in Writer
      /\ CtrlOk(p, dir[p], writer[p], g, served[p])
  BY Zenon, <1>1, Unmoved, EmptyDirFits
<1>3. n \in Mgr /\ n.pc \in {"exited", "idle"} /\ n.main \in {"setup", g.main}
  <2> HIDE DEF g
  <2> QED BY Zenon, <1>2 DEF Mgr, Resting, NoSecret, Secret
<1> HIDE DEF n, g
<1>4. CtrlOk(p, dir[p], Idle, n, served[p])
  BY Zenon, <1>2, <1>3 DEF CtrlOk, DirOk, Idle, Busy
<1> QED BY ZenonT(60), <1>1, <1>2, <1>3, <1>4, OneProcess

-----------------------------------------------------------------------------
(* A process that is down has no sync under way and set nothing up.        *)
Down(g) == g.pc = "idle" /\ g.main = "setup"
UpInv == \A p \in Process : mgr[p].up \/ Down(mgr[p])

LEMMA OneUp ==
  ASSUME CertInv, UpInv, NEW p \in Process, NEW n, mgr' = [mgr EXCEPT ![p] = n], n.up \/ Down(n)
  PROVE  UpInv'
<1>1. \A q \in Process : mgr'[q] = IF q = p THEN n ELSE mgr[q]
  BY Zenon DEF CertInv, CertType
<1> QED BY ZenonT(60), <1>1 DEF UpInv, Down

LEMMA RunningUp ==
  ASSUME CertInv, UpInv, NEW p \in Process, mgr[p].up \/ mgr[p].pc # "idle"
  PROVE  /\ mgr[p] \in Mgr /\ mgr[p].up = TRUE
         /\ \A q \in Process : Woken[q] \in Mgr /\ Woken[q].up = mgr[q].up /\ Woken[q].pc = mgr[q].pc /\ Woken[q].main = mgr[q].main
<1>1. mgr[p] \in Mgr /\ mgr[p].up
  BY Zenon, Unmoved DEF UpInv, Down
<1>2. mgr[p].up \in BOOLEAN
  BY Zenon, <1>1 DEF Mgr
<1> QED BY Zenon, <1>1, <1>2, WokenFits

LEMMA FailUp ==
  ASSUME CertInv, UpInv, NEW p \in Process, mgr[p].up \/ mgr[p].pc # "idle", Set(p, Fail(p))
  PROVE  UpInv'
<1> DEFINE g == mgr[p]
<1>1. g \in Mgr /\ g.up = TRUE
  BY Zenon, RunningUp
<1>2. Fail(p).up
  BY Zenon, <1>1 DEF Fail, Mgr
<1> QED BY Zenon, <1>2, OneUp DEF Set

(* A step that also wakes the others.                                      *)
LEMMA WokenUp ==
  ASSUME CertInv, UpInv, NEW p \in Process, mgr[p].up \/ mgr[p].pc # "idle", mgr' = [Woken EXCEPT ![p].pc = "write"]
  PROVE  UpInv'
<1> DEFINE h == Woken[p]
           n == [h EXCEPT !.pc = "write"]
<1>1. h \in Mgr /\ h.up
  BY Zenon, RunningUp
<1>2. n.up
  <2> HIDE DEF h
  <2> QED BY Zenon, <1>1 DEF Mgr
<1>3. \A q \in Process : mgr'[q] = IF q = p THEN n ELSE Woken[q]
  BY Zenon, WokenFits
<1> HIDE DEF n
<1> QED BY ZenonT(60), <1>2, <1>3, WokenFits DEF UpInv, Down

LEMMA EnsureUp ==
  ASSUME CertInv, UpInv, NEW p \in Process, NEW c \in Config, EnsureConfiguration(p, c)
  PROVE  UpInv'
<1> DEFINE next == IF mgr[p].seen[c] = writer[p].cert.ca THEN mgr ELSE Woken
           h == next[p]
           pc == IF c = "mutating" THEN "validating" ELSE "idle"
           seen == IF c = "mutating" THEN h.seen ELSE Nil
           main == IF c = "validating" /\ h.main = "setup" THEN SetUp(p) ELSE h.main
           n == [h EXCEPT !.pc = pc, !.seen = seen, !.main = main]
<1>1. mgr[p].pc # "idle"
  BY Zenon DEF EnsureConfiguration, Config
<1>2. CASE Set(p, Fail(p))
  BY Zenon, <1>1, <1>2, FailUp
<1>3. CASE mgr' = [next EXCEPT ![p] = n]
  <2>1. next \in [Process -> Mgr] /\ \A q \in Process : next[q].up = mgr[q].up /\ next[q].pc = mgr[q].pc /\ next[q].main = mgr[q].main
    BY Zenon, WokenFits DEF CertInv, CertType
  <2>2. h \in Mgr /\ h.up
    BY Zenon, <1>1, <2>1, RunningUp
  <2>3. n.up
    <3> HIDE DEF h, pc, seen, main
    <3> QED BY Zenon, <2>2 DEF Mgr
  <2> HIDE DEF n, next
  <2>4. \A q \in Process : mgr'[q] = IF q = p THEN n ELSE next[q]
    BY Zenon, <1>3, <2>1
  <2> QED BY Zenon, <2>1, <2>3, <2>4 DEF UpInv, Down
<1> QED BY ZenonT(60), <1>2, <1>3 DEF EnsureConfiguration

LEMMA UpStep ==
  ASSUME CertInv, UpInv, NEW p \in Process, Running(p) \/ CallFails(p) \/ FileFails(p) \/ Die(p)
  PROVE  UpInv'
<1> DEFINE g == mgr[p]
<1>0. g \in Mgr /\ secret \in Secret
  BY Zenon, Unmoved
<1>1. ASSUME NEW n, n.up \/ Down(n), Set(p, n) PROVE UpInv'
  BY Zenon, <1>1, OneUp DEF Set
<1>2. CASE ReadSecret(p)
  <2> DEFINE q == [g EXCEPT !.queued = IF g.pc = "idle" THEN FALSE ELSE @, !.read = secret]
  <2>1. g.up
    BY Zenon, <1>2 DEF ReadSecret
  <2>2. q \in Mgr /\ q.up
    <3> HIDE DEF g
    <3> QED BY Zenon, <1>0, <2>1 DEF Mgr
  <2> HIDE DEF q
  <2>3. \A pc : [q EXCEPT !.pc = pc].up
    BY Zenon, <2>2 DEF Mgr
  <2>4. Set(p, Fail(p)) \/ \E pc : Set(p, [q EXCEPT !.pc = pc])
    BY Zenon, <1>2 DEF ReadSecret, q
  <2> QED BY Zenon, <1>1, <2>1, <2>3, <2>4, FailUp
<1>3. CASE CreateSecret(p)
  <2>1. CASE GoTo(p, "reread")
    <3>1. g.up /\ [g EXCEPT !.pc = "reread"].up
      <4>1. g.up
        BY Zenon, <1>3, RunningUp DEF CreateSecret
      <4> HIDE DEF g
      <4> QED BY Zenon, <1>0, <4>1 DEF Mgr
    <3> QED BY Zenon, <1>1, <2>1, <3>1 DEF GoTo
  <2> QED BY Zenon, <1>3, <2>1, WokenUp DEF CreateSecret
<1>4. CASE OverwriteSecret(p)
  BY Zenon, <1>4, WokenUp, FailUp DEF OverwriteSecret
<1>5. CASE WriteDir(p) \/ Reload(p) \/ FileFails(p)
  BY Zenon, <1>5 DEF WriteDir, Reload, FileFails, UpInv, Down
<1>6. CASE WriteDirEnds(p)
  <2>1. g.pc # "idle" /\ g.up
    BY Zenon, <1>6, RunningUp DEF WriteDirEnds
  <2>2. [g EXCEPT !.pc = "configs"].up
    <3> HIDE DEF g
    <3> QED BY Zenon, <1>0, <2>1 DEF Mgr
  <2> QED BY Zenon, <1>1, <1>6, <2>1, <2>2, FailUp DEF WriteDirEnds
<1>7. CASE GetConfigurations(p)
  <2>1. g.up
    BY Zenon, <1>7, RunningUp DEF GetConfigurations
  <2>2. [g EXCEPT !.pc = "mutating", !.seen = ca].up
    <3> HIDE DEF g
    <3> QED BY Zenon, <1>0, <2>1 DEF Mgr
  <2> QED BY Zenon, <1>1, <1>7, <2>2 DEF GetConfigurations
<1>8. CASE \E c \in Config : EnsureConfiguration(p, c)
  BY Zenon, <1>8, EnsureUp
<1>9. ASSUME Exit(p) PROVE UpInv'
  <2> DEFINE n == [Resting EXCEPT !.up = FALSE, !.torn = p \in Generator /\ dir[p].dataTmp # Nil]
  <2>1. Down(n)
    BY Zenon DEF Resting, Down
  <2> QED BY Zenon, <1>1, <1>9, <2>1 DEF Exit
<1>10. CASE WaitReady(p)
  <2>1. g.up
    BY Zenon, <1>10 DEF WaitReady
  <2>2. [g EXCEPT !.checker = Nil, !.main = "ready"].up /\ \A k : [g EXCEPT !.checker = k].up
    <3> HIDE DEF g
    <3> QED BY Zenon, <1>0, <2>1 DEF Mgr
  <2> QED BY Zenon, <1>1, <1>9, <1>10, <2>2 DEF WaitReady
<1>11. CASE RunGenerator(p)
  <2>1. g.up
    BY Zenon, <1>11 DEF RunGenerator
  <2>2. \A pc : [g EXCEPT !.pc = pc, !.queued = FALSE].up
    <3> HIDE DEF g
    <3> QED BY Zenon, <1>0, <2>1 DEF Mgr
  <2> QED BY Zenon, <1>1, <1>11, <2>2 DEF RunGenerator
<1>12. CASE GeneratorEnds(p)
  <2>1. g.up
    BY Zenon, <1>12, RunningUp DEF GeneratorEnds
  <2>2. [g EXCEPT !.pc = "exited"].up
    <3> HIDE DEF g
    <3> QED BY Zenon, <1>0, <2>1 DEF Mgr
  <2>3. Down([Resting EXCEPT !.up = FALSE])
    BY Zenon DEF Resting, Down
  <2> QED BY Zenon, <1>1, <1>12, <2>2, <2>3 DEF GeneratorEnds
<1>13. CASE Restart(p)
  <2>1. [Resting EXCEPT !.queued = TRUE, !.torn = g.torn].up
    BY Zenon DEF Resting
  <2> QED BY Zenon, <1>1, <1>13, <2>1 DEF Restart
<1>14. CASE CallFails(p)
  BY Zenon, <1>14, FailUp DEF CallFails
<1>15. CASE Die(p)
  BY Zenon, <1>9, <1>15 DEF Die
<1> QED BY Zenon, <1>2, <1>3, <1>4, <1>5, <1>6, <1>7, <1>8, <1>10, <1>11, <1>12, <1>13, <1>14, <1>15 DEF Running, Controller

LEMMA RestartInv ==
  ASSUME CertInv, UpInv, NEW p \in Process, Restart(p)
  PROVE  CertInv'
<1> DEFINE b == mgr[p].torn
           n == [Resting EXCEPT !.queued = TRUE, !.torn = b]
<1>1. mgr' = [mgr EXCEPT ![p] = n] /\ UNCHANGED <<dir, writer, secret, ca, served, expired, made, rotated>> /\ Down(mgr[p])
  BY Zenon DEF Restart, Set, UpInv
<1>2. /\ b \in BOOLEAN /\ made' \in Nat /\ CtrlOk(p, dir[p], writer[p], mgr[p], served[p])
      /\ ~ rotated /\ p \in Manager => TrustOk(dir[p], writer[p], mgr[p], served[p], secret, ca)
  BY Zenon, <1>1, Unmoved DEF Mgr
<1> HIDE DEF b
<1>3. n \in Mgr /\ n.pc = "idle" /\ n.main = "setup" /\ n.read.cert = Nil
  BY Zenon, <1>2 DEF Resting, NoSecret, Mgr, Secret
<1> HIDE DEF n
<1>4. CtrlOk(p, dir[p], writer[p], n, served[p])
  BY Zenon, <1>2, <1>3 DEF CtrlOk
<1>5. ~ rotated /\ p \in Manager => TrustOk(dir[p], writer[p], n, served[p], secret, ca)
  BY Zenon, <1>1, <1>2, <1>3, NilAssumption DEF TrustOk, Known, Down
<1> QED BY Zenon, <1>1, <1>2, <1>3, <1>4, <1>5, OnlyMgr

(* The disturbances that belong to no process.                             *)
LEMMA SurroundingsInv ==
  ASSUME CertInv, UpInv,
         \/ secret.cert # Nil /\ (Expire("cert", secret.cert.serial) \/ Expire("CA", secret.cert.ca))
         \/ DeleteSecret
         \/ \E c \in Config : ResetConfiguration(c)
  PROVE  CertInv' /\ UpInv'
<1>1. ASSUME NEW n, Expire("cert", n) PROVE CertInv' /\ UpInv'
  <2>1. \A k \in Nat : ValidCACert(k) => ValidCACert(k)'
    BY Zenon, <1>1 DEF Expire, ValidCACert
  <2>2. UNCHANGED <<dir, writer, secret, ca, mgr, served, made>> /\ rotated' = rotated
    BY Zenon, <1>1 DEF Expire, CertInv, CertType
  <2> QED BY Zenon, <2>1, <2>2 DEF CertInv, CertType, UpInv
<1>2. ASSUME NEW n, Expire("CA", n) PROVE CertInv' /\ UpInv'
  <2>1. UNCHANGED <<dir, writer, secret, ca, mgr, served, made>> /\ rotated' = TRUE
    BY Zenon, <1>2 DEF Expire
  <2> QED BY Zenon, <2>1 DEF CertInv, CertType, UpInv
<1>3. CASE DeleteSecret
  <2>1. UNCHANGED <<dir, writer, ca, mgr, served, made>> /\ rotated' = TRUE /\ secret' \in Secret
    BY Zenon, <1>3 DEF DeleteSecret, NoSecret, Secret
  <2> QED BY Zenon, <2>1 DEF CertInv, CertType, UpInv
<1>4. ASSUME NEW c \in Config, ResetConfiguration(c) PROVE CertInv' /\ UpInv'
  <2>1. UNCHANGED <<dir, writer, secret, served, made>> /\ rotated' = TRUE /\ mgr' = Woken /\ ca' \in CAs
    BY Zenon, <1>4 DEF ResetConfiguration, CertInv, CertType, CAs
  <2>2. CertType'
    BY Zenon, <2>1, WokenFits DEF CertInv, CertType
  <2>3. \A p \in Process : CtrlOk(p, dir[p], writer[p], Woken[p], served[p])
    BY Zenon, WokenFits, SameView DEF CertInv
  <2>4. UpInv'
    BY Zenon, <2>1, WokenFits DEF UpInv, Down
  <2> QED BY Zenon, <2>1, <2>2, <2>3, <2>4 DEF CertInv
<1> QED BY Zenon, <1>1, <1>2, <1>3, <1>4

LEMMA CertInitInv == CertInit => CertInv /\ UpInv
<1> SUFFICES ASSUME CertInit PROVE CertInv /\ UpInv
  BY Zenon
<1>1. PICK present \in Groups :
         mgr = [p \in Process |-> IF p \in present THEN [Resting EXCEPT !.queued = TRUE] ELSE [Resting EXCEPT !.pc = "absent"]]
  BY Zenon DEF CertInit
<1>2. \A g \in {[Resting EXCEPT !.queued = TRUE], [Resting EXCEPT !.pc = "absent"]} :
         g \in Mgr /\ g.pc \in {"idle", "absent"} /\ g.main = "setup" /\ g.read.cert = Nil /\ g.up
  <2>1. NoSecret \in Secret /\ NoSecret.cert = Nil
    BY Zenon DEF NoSecret, Secret
  <2>2. /\ Resting \in Mgr /\ Resting.pc = "idle" /\ Resting.main = "setup" /\ Resting.read = NoSecret
        /\ Resting.up = TRUE
    BY Zenon, <2>1 DEF Resting, Mgr
  <2>3. [Resting EXCEPT !.queued = TRUE] \in Mgr /\ [Resting EXCEPT !.pc = "absent"] \in Mgr
    BY Zenon, <2>2 DEF Mgr
  <2>4. /\ [Resting EXCEPT !.queued = TRUE].pc = "idle" /\ [Resting EXCEPT !.pc = "absent"].pc = "absent"
        /\ \A g \in {[Resting EXCEPT !.queued = TRUE], [Resting EXCEPT !.pc = "absent"]} :
              g.main = "setup" /\ g.read = NoSecret /\ g.up = TRUE
    BY Zenon, <2>2 DEF Mgr
  <2> QED BY Zenon, <2>1, <2>3, <2>4
<1>3. \A p \in Process : mgr[p] \in Mgr /\ mgr[p].pc \in {"idle", "absent"} /\ mgr[p].main = "setup"
                         /\ mgr[p].read.cert = Nil /\ mgr[p].up
  BY Zenon, <1>1, <1>2
<1>4. \A p \in Process : dir[p] = EmptyDir /\ writer[p] = Idle /\ served[p] = Nil
  BY Zenon DEF CertInit, DirInit
<1>5. /\ secret \in Secret /\ ca \in CAs /\ made \in Nat /\ rotated = FALSE
      /\ \A n \in Nat : ValidCACert(n)
      /\ Bundles(secret, ca)
  <2>1. CASE secret = NoSecret /\ ca = [c \in Config |-> Nil] /\ made = 0 /\ expired = {}
    BY Zenon, <2>1 DEF CertInit, NoSecret, Secret, CAs, ValidCACert, Bundles
  <2>2. CASE /\ secret = [cert |-> [ca |-> 1, serial |-> 1], version |-> 1] /\ ca = [c \in Config |-> 1]
             /\ made = 1 /\ expired = {<<"cert", 1>>}
    <3>1. \A n \in Nat : <<"CA", n>> # <<"cert", 1>>
      BY Zenon
    <3> QED BY Zenon, <2>2, <3>1 DEF CertInit, Secret, CAs, Cert, ValidCACert, Bundles
  <2> QED BY Zenon, <2>1, <2>2 DEF CertInit
<1>6. CertType
  BY Zenon, <1>1, <1>3, <1>5, EmptyDirFits DEF CertInit, DirInit, CertType
<1>7. \A p \in Process : CtrlOk(p, dir[p], writer[p], mgr[p], served[p])
  BY Zenon, <1>3, <1>4, EmptyDirFits DEF CtrlOk
<1>8. \A p \in Process : TrustOk(dir[p], writer[p], mgr[p], served[p], secret, ca)
  BY <1>3, <1>4, NilAssumption DEF TrustOk, Known, EmptyDir, Idle
<1> QED BY Zenon, <1>3, <1>5, <1>6, <1>7, <1>8, ProcessAssumption DEF CertInv, UpInv

LEMMA CertNextInv == CertInv /\ UpInv /\ [CertNext]_certVars => CertInv' /\ UpInv'
<1> SUFFICES ASSUME CertInv, UpInv, [CertNext]_certVars PROVE CertInv' /\ UpInv'
  BY Zenon
<1>1. ASSUME NEW p \in Process, Running(p) \/ CallFails(p) \/ FileFails(p) \/ Die(p) PROVE CertInv' /\ UpInv'
  <2>1. UpInv'
    BY Zenon, <1>1, UpStep
  <2>2. made \in Nat
    BY Zenon DEF CertInv, CertType
  <2>3. CASE Controller(p)
    <3>1. WriteDir(p) => CertInv'
      BY Zenon, WriteInv DEF WriteDir
    <3> QED BY Zenon, <2>1, <2>3, <3>1, ReadSecretInv, CreateSecretInv, OverwriteSecretInv, WriteDirEndsInv, GetConfigurationsInv,
               EnsureConfigurationInv DEF Controller
  <2>4. CASE CallFails(p)
    BY Zenon, <2>1, <2>2, <2>4, FailInv DEF CallFails
  <2>5. CASE FileFails(p)
    BY Zenon, <2>1, <2>5, WriteInv DEF FileFails
  <2>6. CASE Die(p)
    BY Zenon, <2>1, <2>6, ExitInv DEF Die
  <2>7. CASE Reload(p) \/ WaitReady(p) \/ RunGenerator(p) \/ GeneratorEnds(p) \/ Restart(p)
    BY Zenon, <2>1, <2>7, ReloadInv, WaitReadyInv, RunGeneratorInv, GeneratorEndsInv, RestartInv
  <2> QED BY Zenon, <1>1, <2>1, <2>3, <2>4, <2>5, <2>6, <2>7 DEF Running
<1>2. CASE UNCHANGED certVars
  BY Zenon, <1>2 DEF certVars, CertInv, CertType, UpInv, ValidCACert
<1> QED BY Zenon, <1>1, <1>2, SurroundingsInv DEF CertNext

LEMMA CertInvariant == CertSpec => [](CertInv /\ UpInv)
  BY CertInitInv, CertNextInv, PTL DEF CertSpec

-----------------------------------------------------------------------------
(* Whichever system call of WriteCertsToDir fails, and wherever a process  *)
(* dies in it, the files a reader opens hold one whole certificate from    *)
(* the first write on.                                                     *)
THEOREM DirCorrect == CertSpec => []DirWhole
<1>1. CertInv => DirWhole
  BY Zenon, NilAssumption DEF CertInv, CtrlOk, DirOk, DirWhole
<1> QED BY <1>1, CertInvariant, PTL

(* Any number of managers that create, renew and read the Secret in any    *)
(* order, with failed calls and crashes between the steps, serve only      *)
(* certificates of the CA that both webhook configurations hold, until the *)
(* CA expires or the Secret or a configuration is taken away.              *)
THEOREM TrustCorrect == CertSpec => []TrustKept
<1>1. CertInv => TrustKept
  <2> SUFFICES ASSUME CertInv, ~ rotated, NEW m \in Manager, NEW c \in Config, served[m] # Nil
               PROVE  served[m].ca = ca[c]
    BY Zenon DEF TrustKept, Trusted
  <2>1. m \in Process /\ served[m] \in Cert
    BY Zenon, ProcessAssumption DEF CertInv, CertType
  <2>2. Known(served[m], secret) /\ ca[c] # Nil
    BY Zenon DEF CertInv, TrustOk
  <2> QED BY Zenon, <2>1, <2>2 DEF CertInv, Known, Bundles
<1> QED BY <1>1, CertInvariant, PTL

-----------------------------------------------------------------------------
(* The shard labels: what is made of three labels.                         *)

LEMMA Label3 == None3 \in Labels /\ All3 \in Labels /\ Unset \notin Labels /\ IsControlledByMesh(All3)
  BY LabelAssumption DEF None3, All3, Labels, IsControlledByMesh

LEMMA Updates ==
    ASSUME NEW l \in Labels
    PROVE  /\ shouldUpdateNs(l) \in Labels
           /\ IsControlledByMesh(l) => shouldUpdateNs(l) = All3
           /\ shouldUpdateNs(None3) = All3
  BY LabelAssumption DEF shouldUpdateNs, Labels, All3, None3, IsControlledByMesh

LEMMA Relabels ==
    ASSUME NEW l \in Labels
    PROVE  /\ updateLabel(l) \in Labels
           /\ IsControlledByMesh(updateLabel(l)) => updateLabel(l) = All3
           /\ IsControlledByMesh(l) => updateLabel(l) = All3
<1>1. CASE l = None3
  <2>1. l.control = Unset
    BY <1>1 DEF None3
  <2>2. updateLabel(l) = All3
    BY <1>1, <2>1 DEF updateLabel
  <2> QED
    BY <2>1, <2>2, Label3, LabelAssumption DEF IsControlledByMesh
<1>2. CASE l # None3 /\ l.control = Unset
  <2>1. updateLabel(l) = l
    BY <1>2 DEF updateLabel
  <2> QED
    BY <1>2, <2>1, LabelAssumption DEF IsControlledByMesh
<1>3. CASE l # None3 /\ l.control # Unset /\ l.hash # "own"
  <2>1. updateLabel(l) = [l EXCEPT !.namespace = "own", !.hash = "own"]
    BY <1>3 DEF updateLabel
  <2> QED
    BY <2>1, LabelAssumption DEF IsControlledByMesh, All3, Labels
<1>4. CASE l # None3 /\ l.control # Unset /\ l.hash = "own"
  <2>1. updateLabel(l) = [l EXCEPT !.namespace = "own"]
    BY <1>4 DEF updateLabel
  <2> QED
    BY <1>4, <2>1, LabelAssumption DEF IsControlledByMesh, All3, Labels
<1> QED
  BY Zenon, <1>1, <1>2, <1>3, <1>4

LEMMA Merged ==
    ASSUME NEW l \in Labels, NEW t \in Labels
    PROVE  /\ Merge(l, t) \in Labels
           /\ Merge(l, All3) = All3
           /\ Merge(All3, None3) = All3
           /\ getShardingLabel(t) \in Labels
           /\ IsControlledByMesh(t) => getShardingLabel(t) = t
           /\ ~IsControlledByMesh(t) => getShardingLabel(t) = None3
<1>1. Merge(l, t) \in Labels
  BY DEF Merge, Labels
<1>2. Merge(l, All3) = All3
  BY LabelAssumption DEF Merge, Labels, All3
<1>3. Merge(All3, None3) = All3
  BY LabelAssumption DEF Merge, None3, All3
<1>4. /\ IsControlledByMesh(t) => getShardingLabel(t) = t
      /\ ~IsControlledByMesh(t) => getShardingLabel(t) = None3
  BY Zenon DEF getShardingLabel
<1> QED
  BY Zenon, <1>1, <1>2, <1>3, <1>4, Label3

(* The kinds the ConfigMap stands for are all loaded.                      *)
LEMMA AllKinds ==
    ASSUME NEW o \in Objects, Place[o][2] \in Configured
    PROVE  Place[o][2] \in LoadGroupVersionKind({})
<1>1. PICK gv \in GroupVersions :
         LET kinds == ResourceConfig[gv]
         IN  Place[o][2] \in Range(kinds) \/ ("*" \in Range(kinds) /\ Place[o][2] \in Served[gv])
  BY DEF Configured
<1> DEFINE kinds == ResourceConfig[gv]
           named == {i \in DOMAIN kinds : \A j \in 1 .. i : kinds[j] # "*"}
<1>2. kinds \in Seq(STRING)
  BY Zenon, ObjectAssumption
<1>3. KindsOf(gv, {}) = {kinds[i] : i \in named} \cup IF named = DOMAIN kinds THEN {} ELSE Served[gv]
  BY DEF KindsOf
<1>4. Place[o][2] \in KindsOf(gv, {})
  <2>1. CASE named = DOMAIN kinds
    <3>1. \A i \in DOMAIN kinds : i \in 1 .. i
      BY <1>2
    <3>2. \A i \in DOMAIN kinds : kinds[i] # "*"
      BY Zenon, <2>1, <3>1
    <3>3. "*" \notin Range(kinds)
      BY Zenon, <3>2 DEF Range
    <3>4. PICK i \in DOMAIN kinds : Place[o][2] = kinds[i]
      BY Zenon, <1>1, <3>3 DEF Range
    <3> HIDE DEF named
    <3> QED
      BY Zenon, <1>3, <2>1, <3>4
  <2>2. CASE named # DOMAIN kinds
    <3>1. Place[o][2] \in Served[gv]
      BY Zenon, <1>1, ObjectAssumption
    <3> HIDE DEF named
    <3> QED
      BY Zenon, <1>3, <2>2, <3>1
  <2> QED
    BY Zenon, <2>1, <2>2
<1> QED
  BY Zenon, <1>4 DEF LoadGroupVersionKind

(* An order of the objects that lack labels has all of them.               *)
LEMMA AllOrdered ==
    ASSUME NEW S \in SUBSET Objects, NEW s \in Orders(S)
    PROVE  s \in Seq(S) /\ \A o \in S : \E i \in 1 .. Len(s) : s[i] = o
<1>1. IsFiniteSet(S) /\ Cardinality(S) \in Nat
  BY Zenon, ObjectAssumption, FS_Subset, FS_CardinalityType
<1>2. s \in [1 .. Cardinality(S) -> S] /\ \A i, j \in 1 .. Cardinality(S) : s[i] = s[j] => i = j
  BY DEF Orders
<1>3. s \in Seq(S) /\ Len(s) = Cardinality(S)
  BY <1>1, <1>2
<1>4. s \in Injection(1 .. Cardinality(S), S)
  BY Zenon, <1>2 DEF Injection, IsInjective
<1>5. Cardinality(1 .. Cardinality(S)) = Cardinality(S)
  BY <1>1, FS_Interval
<1>6. s \in Surjection(1 .. Cardinality(S), S)
  BY Zenon, <1>1, <1>4, <1>5, FS_Injection
<1> QED
  BY Zenon, <1>3, <1>6 DEF Surjection

-----------------------------------------------------------------------------
(* What makes NoneMissed inductive: where an object that still lacks its   *)
(* labels is on its way through the runnable, and that the labels of its   *)
(* namespace in the runnable's list are those the namespace has.           *)

(* The objects that exist, in namespaces on the runnable's list.           *)
KnownObjects == {o \in Objects : obj[o] # Unset /\ held[Place[o][1]] # Unset}

TypeInv ==
    /\ ns \in [Namespace -> Labels \cup {Unset}]
    /\ cache \in [Namespace -> Labels \cup {Unset}]
    /\ held \in [Namespace -> Labels \cup {Unset}]
    /\ obj \in [Objects -> Labels \cup {Unset}]
    /\ labelling \in [Namespace -> [at : {"none", "get", "update", "done"}, read : Labels \cup {Unset}]]
    /\ failures \in Nat

(* What is on its way to be patched is known; nothing is, before the kinds *)
(* are loaded.                                                             *)
Listing == [at : {"none", "list", "send", "done"}, items : Seq(Objects)]

Empty ==
    /\ channel = <<>>
    /\ \A w \in Worker : worker[w] = Unset
    /\ \A p \in Places : listing[p].items = <<>> /\ listing[p].at \notin {"list", "send"}

QueueInv ==
    /\ listing \in [Places -> Listing]
    /\ worker \in [Worker -> Objects \cup {Unset}]
    /\ channel \in Seq(KnownObjects)
    /\ \A p \in Places : listing[p].items \in Seq(KnownObjects)
    /\ \A p \in Places : listing[p].at = "list" => held[p[1]] # Unset
    /\ \A w \in Worker : worker[w] # Unset => worker[w] \in KnownObjects
    /\ phase \in {"start", "label"} => Empty

(* A namespace, its cached copy and the one in the runnable's list: none   *)
(* ever loses its labels again, and what was created since has them.       *)
NamespaceInv ==
    \A n \in Namespace :
        /\ ns[n] = Unset => cache[n] = Unset /\ held[n] = Unset
        /\ cache[n] = Unset => ns[n] \in {Unset, All3} /\ held[n] \in {Unset, All3}
        /\ cache[n] = All3 => ns[n] = All3
        /\ labelling[n].at = "update" => labelling[n].read # Unset /\ held[n] = updateLabel(labelling[n].read)

Ours(n) == n \notin Ignored /\ held[n] # Unset /\ IsControlledByMesh(held[n])

(* Once a namespace is labelled and found to be controlled it has all      *)
(* three labels.                                                           *)
LabelledInv ==
    failures = 0 => \A n \in Namespace : labelling[n].at = "done" /\ Ours(n) => held[n] = All3 /\ ns[n] = All3

PhaseInv ==
    /\ phase \in {"start", "label", "patch", "done"}
    /\ phase \in {"patch", "done"} => \A n \in Namespace : labelling[n].at = "done"
    /\ closed => phase \in {"patch", "done"} /\ channel = <<>> /\ \A p \in Places : listing[p].at = "done"
    /\ phase = "done" => closed /\ \A w \in Worker : worker[w] = Unset
    /\ failures = 0 => invalid = {}

(* o is still to be listed, or on its way to a worker.                     *)
Pending(o) ==
    \/ listing[Place[o]].at = "list"
    \/ listing[Place[o]].at = "send" /\ \E i \in 1 .. Len(listing[Place[o]].items) : listing[Place[o]].items[i] = o
    \/ \E i \in 1 .. Len(channel) : channel[i] = o
    \/ \E w \in Worker : worker[w] = o

Due(o) == Ours(Place[o][1]) /\ Place[o][2] \in Configured

ObjectOk(o) == o \in behind \/ obj[o] \in {Unset, All3} \/ Pending(o)

ObjectInv == failures = 0 /\ phase \in {"patch", "done"} => \A o \in Objects : Due(o) => ObjectOk(o)

Inv == TypeInv /\ QueueInv /\ NamespaceInv /\ LabelledInv /\ PhaseInv /\ ObjectInv

LEMMA QueueKept ==
    ASSUME QueueInv, UNCHANGED chanVars, \A o \in Objects : obj[o] # Unset => obj'[o] # Unset,
           \/ UNCHANGED <<held, phase>>
           \/ phase \in {"start", "label"} /\ phase' \in {"start", "label"}
    PROVE  QueueInv'
<1>1. PICK E : E = KnownObjects
  BY Zenon
<1>2. PICK F : F = KnownObjects'
  BY Zenon
<1>3. listing' = listing /\ channel' = channel /\ worker' = worker /\ (Empty => Empty')
  BY Zenon DEF chanVars, Empty
<1>4. CASE UNCHANGED <<held, phase>>
  <2>1. E \subseteq F
    BY Zenon, <1>1, <1>2, <1>4 DEF KnownObjects
  <2>2. \A s : s \in Seq(E) => s \in Seq(F)
    BY <2>1
  <2> QED
    BY Zenon, <1>1, <1>2, <1>3, <1>4, <2>1, <2>2 DEF QueueInv
<1>5. CASE phase \in {"start", "label"} /\ phase' \in {"start", "label"}
  <2>1. Empty
    BY Zenon, <1>5 DEF QueueInv
  <2>2. <<>> \in Seq(F)
    OBVIOUS
  <2>3. \A p \in Places : listing[p].at # "list"
    BY Zenon, <2>1 DEF Empty
  <2> QED
    BY Zenon, <1>2, <1>3, <2>1, <2>2, <2>3 DEF QueueInv, Empty
<1> QED
  BY Zenon, <1>4, <1>5

LEMMA ObjectKept ==
    ASSUME ObjectInv, UNCHANGED <<chanVars, obj, behind, held>>,
           failures' = 0 /\ phase' \in {"patch", "done"} => failures = 0 /\ phase \in {"patch", "done"}
    PROVE  ObjectInv'
<1>1. listing' = listing /\ channel' = channel /\ worker' = worker
  BY Zenon DEF chanVars
<1>2. \A o : (Due(o)' <=> Due(o)) /\ (ObjectOk(o)' <=> ObjectOk(o))
  BY Zenon, <1>1 DEF Due, Ours, ObjectOk, Pending
<1> QED
  BY Zenon, <1>2 DEF ObjectInv

-----------------------------------------------------------------------------
(* The steps that are about namespaces.                                    *)

LEMMA InitInv == LabelInit => Inv
<1> SUFFICES ASSUME LabelInit PROVE Inv
  BY Zenon
<1>1. ns \in [Namespace -> Labels \cup {Unset}]
  BY LabelAssumption DEF LabelInit
<1>2. TypeInv
  <2>1. obj \in [Objects -> Labels \cup {Unset}]
    BY Label3 DEF LabelInit
  <2>2. labelling \in [Namespace -> [at : {"none", "get", "update", "done"}, read : Labels \cup {Unset}]]
    BY DEF LabelInit, NoneLabelled, NoLabelling
  <2> QED
    BY <1>1, <2>1, <2>2 DEF TypeInv, LabelInit
<1>3. QueueInv
  <2>1. IdleListing \in Listing /\ IdleListing.items = <<>> /\ IdleListing.at = "none"
    BY DEF IdleListing, Listing
  <2>2. \A E : <<>> \in Seq(E)
    OBVIOUS
  <2>3. listing \in [Places -> Listing]
    BY Zenon, <2>1 DEF LabelInit
  <2>4. \A p \in Places : listing[p].items = <<>> /\ listing[p].at = "none"
    BY Zenon, <2>1 DEF LabelInit
  <2>5. worker \in [Worker -> Objects \cup {Unset}] /\ \A w \in Worker : worker[w] = Unset
    BY DEF LabelInit
  <2>6. \A p \in Places : listing[p].at \notin {"list", "send"} /\ listing[p].at # "list"
    BY <2>4
  <2> QED
    BY Zenon, <2>2, <2>3, <2>4, <2>5, <2>6 DEF QueueInv, Empty, LabelInit
<1>4. \A n \in Namespace : labelling[n].at = "none" /\ held[n] = Unset /\ cache[n] = ns[n]
  BY DEF LabelInit, NoneLabelled, NoLabelling
<1>5. NamespaceInv
  BY <1>4 DEF NamespaceInv
<1>6. LabelledInv
  BY Zenon, <1>4 DEF LabelledInv, Ours
<1>7. PhaseInv /\ ObjectInv
  BY DEF PhaseInv, ObjectInv, LabelInit
<1> QED
  BY Zenon, <1>2, <1>3, <1>5, <1>6, <1>7 DEF Inv

LEMMA WriteNamespaceInv ==
    ASSUME Inv, NEW n \in Namespace, WriteNamespace(n)
    PROVE  Inv'
<1> DEFINE new == shouldUpdateNs(IF ns[n] = Unset THEN None3 ELSE ns[n])
<1>1. new \in Labels /\ new # Unset /\ (ns[n] \in {Unset, All3} => new = All3)
  <2>1. CASE ns[n] = Unset
    BY Zenon, <2>1, Updates, Label3
  <2>2. CASE ns[n] # Unset
    <3>1. ns[n] \in Labels
      BY Zenon, <2>2 DEF Inv, TypeInv
    <3> QED
      BY Zenon, <2>2, <3>1, Updates, Label3
  <2> QED
    BY Zenon, <2>1, <2>2
<1>2. /\ ns' = [ns EXCEPT ![n] = new]
      /\ UNCHANGED <<cache, held, labelling, chanVars, obj, behind, phase, failures>>
  BY Zenon DEF WriteNamespace
<1> HIDE DEF new
<1>3. \A m \in Namespace : ns'[m] = IF m = n THEN new ELSE ns[m]
  BY Zenon, <1>2 DEF Inv, TypeInv
<1>4. TypeInv'
  BY Zenon, <1>1, <1>2 DEF Inv, TypeInv
<1>5. QueueInv'
  BY Zenon, <1>2, QueueKept DEF Inv
<1>6. NamespaceInv'
  <2> SUFFICES ASSUME NEW m \in Namespace
               PROVE  /\ ns'[m] = Unset => cache[m] = Unset /\ held[m] = Unset
                      /\ cache[m] = Unset => ns'[m] \in {Unset, All3} /\ held[m] \in {Unset, All3}
                      /\ cache[m] = All3 => ns'[m] = All3
                      /\ labelling[m].at = "update" => labelling[m].read # Unset /\ held[m] = updateLabel(labelling[m].read)
    BY Zenon, <1>2 DEF NamespaceInv
  <2>1. /\ ns[m] = Unset => cache[m] = Unset /\ held[m] = Unset
        /\ cache[m] = Unset => ns[m] \in {Unset, All3} /\ held[m] \in {Unset, All3}
        /\ cache[m] = All3 => ns[m] = All3
        /\ labelling[m].at = "update" => labelling[m].read # Unset /\ held[m] = updateLabel(labelling[m].read)
    BY Zenon DEF Inv, NamespaceInv
  <2> QED
    BY Zenon, <1>1, <1>3, <2>1
<1>7. LabelledInv'
  BY Zenon, <1>1, <1>2, <1>3 DEF Inv, LabelledInv, Ours
<1>8. PhaseInv'
  BY Zenon, <1>2 DEF Inv, PhaseInv, chanVars
<1>9. ObjectInv'
  BY Zenon, <1>2, ObjectKept DEF Inv
<1> QED
  BY Zenon, <1>4, <1>5, <1>6, <1>7, <1>8, <1>9 DEF Inv

LEMMA WatchInv ==
    ASSUME Inv, NEW n \in Namespace, Watch(n)
    PROVE  Inv'
<1>2. /\ cache' = [cache EXCEPT ![n] = ns[n]] /\ cache[n] # ns[n]
      /\ UNCHANGED <<ns, held, labelling, chanVars, obj, behind, phase, failures>>
  BY Zenon DEF Watch
<1>3. \A m \in Namespace : cache'[m] = IF m = n THEN ns[m] ELSE cache[m]
  BY Zenon, <1>2 DEF Inv, TypeInv
<1>4. TypeInv'
  BY Zenon, <1>2 DEF Inv, TypeInv
<1>5. QueueInv'
  BY Zenon, <1>2, QueueKept DEF Inv
<1>6. NamespaceInv'
  <2> SUFFICES ASSUME NEW m \in Namespace
               PROVE  /\ ns[m] = Unset => cache'[m] = Unset /\ held[m] = Unset
                      /\ cache'[m] = Unset => ns[m] \in {Unset, All3} /\ held[m] \in {Unset, All3}
                      /\ cache'[m] = All3 => ns[m] = All3
                      /\ labelling[m].at = "update" => labelling[m].read # Unset /\ held[m] = updateLabel(labelling[m].read)
    BY Zenon, <1>2 DEF NamespaceInv
  <2>1. /\ ns[m] = Unset => cache[m] = Unset /\ held[m] = Unset
        /\ cache[m] = Unset => ns[m] \in {Unset, All3} /\ held[m] \in {Unset, All3}
        /\ cache[m] = All3 => ns[m] = All3
        /\ labelling[m].at = "update" => labelling[m].read # Unset /\ held[m] = updateLabel(labelling[m].read)
    BY Zenon DEF Inv, NamespaceInv
  <2> QED
    BY Zenon, <1>2, <1>3, <2>1
<1>7. LabelledInv' /\ PhaseInv'
  BY Zenon, <1>2 DEF Inv, LabelledInv, Ours, PhaseInv, chanVars
<1>9. ObjectInv'
  BY Zenon, <1>2, ObjectKept DEF Inv
<1> QED
  BY Zenon, <1>4, <1>5, <1>6, <1>7, <1>9 DEF Inv

LEMMA ListNamespacesInv ==
    ASSUME Inv, ListNamespaces
    PROVE  Inv'
<1>2. /\ held' = ns /\ phase = "start" /\ phase' = "label"
      /\ UNCHANGED <<ns, cache, chanVars, obj, behind, failures>>
  BY Zenon DEF ListNamespaces
<1>3. /\ labelling' \in [Namespace -> [at : {"none", "get", "update", "done"}, read : Labels \cup {Unset}]]
      /\ \A n \in Namespace : labelling'[n].at = IF ns[n] = Unset \/ n \in Ignored THEN "done" ELSE "get"
  BY DEF ListNamespaces, NoLabelling
<1>4. TypeInv'
  BY Zenon, <1>2, <1>3 DEF Inv, TypeInv
<1>5. QueueInv'
  <2>1. phase \in {"start", "label"} /\ phase' \in {"start", "label"}
    BY <1>2
  <2> QED
    BY Zenon, <1>2, <2>1, QueueKept DEF Inv
<1>a. \A n \in Namespace : labelling'[n].at # "update" /\ (labelling'[n].at = "done" => ns[n] = Unset \/ n \in Ignored)
  BY <1>3
<1>6. NamespaceInv'
  BY Zenon, <1>2, <1>a DEF Inv, NamespaceInv
<1>7. LabelledInv'
  BY Zenon, <1>2, <1>a DEF LabelledInv, Ours
<1>8. PhaseInv'
  <2>1. phase \notin {"patch", "done"} /\ phase' \notin {"patch", "done"} /\ phase' # "done"
    BY <1>2
  <2>2. closed' = closed /\ invalid' = invalid /\ failures' = failures
    BY Zenon, <1>2 DEF chanVars
  <2> QED
    BY Zenon, <1>2, <2>1, <2>2 DEF Inv, PhaseInv
<1>9. ObjectInv'
  BY <1>2 DEF ObjectInv
<1> QED
  BY Zenon, <1>4, <1>5, <1>6, <1>7, <1>8, <1>9 DEF Inv

(* What the steps of a labelling goroutine have in common: that of n comes *)
(* to a, the list then has l for n, and n has the labels x.                *)
LabelStep(n, a, l, x) ==
    /\ labelling[n].at # "done"
    /\ UNCHANGED <<cache, chanVars, obj, behind, phase>>
    /\ failures' \in {failures, failures + 1}
    /\ a \in {"none", "get", "update", "done"} /\ l \in Labels \cup {Unset} /\ x \in Labels \cup {Unset}
    /\ labelling' = [labelling EXCEPT ![n] = [at |-> a, read |-> cache[n]]]
    /\ held' = [held EXCEPT ![n] = l]
    /\ ns' = [ns EXCEPT ![n] = x]
    /\ x = Unset => cache[n] = Unset /\ l = Unset
    /\ cache[n] = Unset => x \in {Unset, All3} /\ l \in {Unset, All3}
    /\ cache[n] = All3 => x = All3
    /\ a = "update" => cache[n] # Unset /\ l = updateLabel(cache[n])
    /\ failures' = 0 /\ a = "done" /\ l # Unset /\ IsControlledByMesh(l) => l = All3 /\ x = All3

LEMMA LabellingStep ==
    ASSUME Inv, NEW n \in Namespace, NEW a, NEW l, NEW x, LabelStep(n, a, l, x)
    PROVE  Inv'
<1> USE DEF LabelStep
<1>1. /\ \A m \in Namespace : ns'[m] = IF m = n THEN x ELSE ns[m]
      /\ \A m \in Namespace : held'[m] = IF m = n THEN l ELSE held[m]
  BY Zenon DEF Inv, TypeInv
<1>2. \A m \in Namespace : labelling'[m] = IF m = n THEN [at |-> a, read |-> cache[n]] ELSE labelling[m]
  BY Zenon DEF Inv, TypeInv
<1>3. /\ \A m \in Namespace : labelling'[m].at = IF m = n THEN a ELSE labelling[m].at
      /\ \A m \in Namespace : labelling'[m].read = IF m = n THEN cache[n] ELSE labelling[m].read
  BY <1>2
<1>4. TypeInv'
  <2>1. [at |-> a, read |-> cache[n]] \in [at : {"none", "get", "update", "done"}, read : Labels \cup {Unset}]
    BY DEF Inv, TypeInv
  <2>2. failures' \in Nat
    BY DEF Inv, TypeInv
  <2> QED
    BY Zenon, <2>1, <2>2 DEF Inv, TypeInv
<1>5. QueueInv'
  <2>1. phase \in {"start", "label"} /\ phase' \in {"start", "label"}
    BY Zenon DEF Inv, PhaseInv
  <2> QED
    BY Zenon, <2>1, QueueKept DEF Inv
<1>6. NamespaceInv'
  <2> SUFFICES ASSUME NEW m \in Namespace
               PROVE  /\ ns'[m] = Unset => cache[m] = Unset /\ held'[m] = Unset
                      /\ cache[m] = Unset => ns'[m] \in {Unset, All3} /\ held'[m] \in {Unset, All3}
                      /\ cache[m] = All3 => ns'[m] = All3
                      /\ labelling'[m].at = "update" => labelling'[m].read # Unset /\ held'[m] = updateLabel(labelling'[m].read)
    BY Zenon DEF NamespaceInv
  <2>1. /\ ns[m] = Unset => cache[m] = Unset /\ held[m] = Unset
        /\ cache[m] = Unset => ns[m] \in {Unset, All3} /\ held[m] \in {Unset, All3}
        /\ cache[m] = All3 => ns[m] = All3
        /\ labelling[m].at = "update" => labelling[m].read # Unset /\ held[m] = updateLabel(labelling[m].read)
    BY Zenon DEF Inv, NamespaceInv
  <2>2. CASE m = n
    BY Zenon, <1>1, <1>3, <2>1, <2>2
  <2>3. CASE m # n
    BY Zenon, <1>1, <1>3, <2>1, <2>3
  <2> QED
    BY Zenon, <2>2, <2>3
<1>7. LabelledInv'
  <2>1. failures' = 0 => failures = 0
    BY DEF Inv, TypeInv
  <2> SUFFICES ASSUME failures' = 0, NEW m \in Namespace, labelling'[m].at = "done", Ours(m)'
               PROVE  held'[m] = All3 /\ ns'[m] = All3
    BY Zenon DEF LabelledInv
  <2>2. m \notin Ignored /\ held'[m] # Unset /\ IsControlledByMesh(held'[m])
    BY Zenon DEF Ours
  <2>3. CASE m = n
    BY Zenon, <1>1, <1>3, <2>2, <2>3
  <2>4. CASE m # n
    BY ZenonT(60), <1>1, <1>3, <2>1, <2>2, <2>4 DEF Inv, LabelledInv, Ours
  <2> QED
    BY Zenon, <2>3, <2>4
<1>8. phase \notin {"patch", "done"} /\ phase # "done"
  BY Zenon DEF Inv, PhaseInv
<1>9. PhaseInv'
  <2>1. failures' = 0 => failures = 0
    BY DEF Inv, TypeInv
  <2> QED
    BY Zenon, <1>8, <2>1 DEF Inv, PhaseInv, chanVars
<1>10. ObjectInv'
  BY Zenon, <1>8 DEF ObjectInv
<1> QED
  BY Zenon, <1>4, <1>5, <1>6, <1>7, <1>9, <1>10 DEF Inv

LEMMA LabellingSteps ==
    ASSUME Inv, NEW n \in Namespace, GetNamespace(n) \/ UpdateNamespace(n) \/ UpdateFails(n)
    PROVE  Inv'
<1>1. /\ ns \in [Namespace -> Labels \cup {Unset}] /\ held \in [Namespace -> Labels \cup {Unset}]
      /\ cache[n] \in Labels \cup {Unset} /\ ns[n] \in Labels \cup {Unset} /\ held[n] \in Labels \cup {Unset}
  BY Zenon DEF Inv, TypeInv
<1>2. ns = [ns EXCEPT ![n] = ns[n]] /\ held = [held EXCEPT ![n] = held[n]]
  BY <1>1
<1>3. /\ ns[n] = Unset => cache[n] = Unset /\ held[n] = Unset
      /\ cache[n] = Unset => ns[n] \in {Unset, All3} /\ held[n] \in {Unset, All3}
      /\ cache[n] = All3 => ns[n] = All3
      /\ labelling[n].at = "update" => labelling[n].read # Unset /\ held[n] = updateLabel(labelling[n].read)
  BY Zenon DEF Inv, NamespaceInv
<1>4. All3 \in Labels /\ IsControlledByMesh(All3) /\ Unset \notin Labels
  BY Zenon, Label3
<1>5. CASE GetNamespace(n)
  <2>1. labelling[n].at # "done" /\ UNCHANGED <<ns, cache, chanVars, obj, behind, phase, failures>>
    BY Zenon, <1>5 DEF GetNamespace
  <2>2. CASE cache[n] = Unset
    <3>1. held' = held /\ labelling' = [labelling EXCEPT ![n] = [at |-> "done", read |-> cache[n]]]
      BY Zenon, <1>5, <2>2 DEF GetNamespace, Proceed
    <3>2. held[n] # Unset => held[n] = All3 /\ ns[n] = All3
      BY Zenon, <1>3, <2>2
    <3>3. "done" \in {"none", "get", "update", "done"} /\ "done" # "update"
      OBVIOUS
    <3>4. LabelStep(n, "done", held[n], ns[n])
      BY Zenon, <1>1, <1>2, <1>3, <2>1, <2>2, <3>1, <3>2, <3>3 DEF LabelStep
    <3> QED
      BY Zenon, <3>4, LabellingStep
  <2>3. CASE cache[n] # Unset /\ updateLabel(cache[n]) = cache[n]
    <3>1. /\ held' = [held EXCEPT ![n] = updateLabel(cache[n])]
          /\ labelling' = [labelling EXCEPT ![n] = [at |-> "done", read |-> cache[n]]]
      BY Zenon, <1>5, <2>3 DEF GetNamespace, Proceed
    <3>2. cache[n] \in Labels
      BY Zenon, <1>1, <2>3
    <3>3. IsControlledByMesh(updateLabel(cache[n])) => updateLabel(cache[n]) = All3 /\ ns[n] = All3
      BY Zenon, <1>3, <2>3, <3>2, Relabels
    <3>4. PICK l \in Labels \cup {Unset} : l = updateLabel(cache[n])
      BY Zenon, <3>2, Relabels
    <3>5. "done" \in {"none", "get", "update", "done"} /\ "done" # "update"
      OBVIOUS
    <3>6. LabelStep(n, "done", l, ns[n])
      BY Zenon, <1>1, <1>2, <1>3, <2>1, <2>3, <3>1, <3>3, <3>4, <3>5 DEF LabelStep
    <3> QED
      BY Zenon, <3>6, LabellingStep
  <2>4. CASE cache[n] # Unset /\ updateLabel(cache[n]) # cache[n]
    <3>1. /\ held' = [held EXCEPT ![n] = updateLabel(cache[n])]
          /\ labelling' = [labelling EXCEPT ![n] = [at |-> "update", read |-> cache[n]]]
      BY Zenon, <1>5, <2>4 DEF GetNamespace, Proceed
    <3>2. cache[n] \in Labels
      BY Zenon, <1>1, <2>4
    <3>4. PICK l \in Labels \cup {Unset} : l = updateLabel(cache[n])
      BY Zenon, <3>2, Relabels
    <3>5. "update" \in {"none", "get", "update", "done"} /\ "update" # "done"
      OBVIOUS
    <3>6. LabelStep(n, "update", l, ns[n])
      BY Zenon, <1>1, <1>2, <1>3, <2>1, <2>4, <3>1, <3>4, <3>5 DEF LabelStep
    <3> QED
      BY Zenon, <3>6, LabellingStep
  <2> QED
    BY Zenon, <2>2, <2>3, <2>4
<1>6. CASE UpdateNamespace(n)
  <2>1. labelling[n].at = "update" /\ labelling[n].at # "done" /\ UNCHANGED <<cache, held, chanVars, obj, behind, phase, failures>>
    BY Zenon, <1>6 DEF UpdateNamespace
  <2>2. CASE labelling[n].read = ns[n]
    <3>1. /\ ns' = [ns EXCEPT ![n] = shouldUpdateNs(held[n])]
          /\ labelling' = [labelling EXCEPT ![n] = [at |-> "done", read |-> cache[n]]]
      BY Zenon, <1>6, <2>2 DEF UpdateNamespace, Proceed
    <3>2. ns[n] \in Labels /\ held[n] = updateLabel(ns[n])
      BY Zenon, <1>1, <1>3, <2>1, <2>2
    <3>3. held[n] \in Labels /\ (IsControlledByMesh(held[n]) => held[n] = All3) /\ (ns[n] = All3 => held[n] = All3)
      BY Zenon, <1>4, <3>2, Relabels
    <3>4. PICK x \in Labels \cup {Unset} : x = shouldUpdateNs(held[n]) /\ x \in Labels /\ (IsControlledByMesh(held[n]) => x = All3)
      BY Zenon, <3>3, Updates
    <3>5. /\ x # Unset
          /\ cache[n] = Unset => x \in {Unset, All3} /\ held[n] \in {Unset, All3}
          /\ cache[n] = All3 => x = All3
      BY Zenon, <1>3, <1>4, <3>2, <3>3, <3>4
    <3>6. "done" \in {"none", "get", "update", "done"} /\ "done" # "update"
      OBVIOUS
    <3>7. LabelStep(n, "done", held[n], x)
      BY Zenon, <1>1, <1>2, <2>1, <3>1, <3>3, <3>4, <3>5, <3>6 DEF LabelStep
    <3> QED
      BY Zenon, <3>7, LabellingStep
  <2>3. CASE labelling[n].read # ns[n]
    <3>1. ns' = ns /\ labelling' = [labelling EXCEPT ![n] = [at |-> "get", read |-> cache[n]]]
      BY Zenon, <1>6, <2>3 DEF UpdateNamespace, Proceed
    <3>2. "get" \in {"none", "get", "update", "done"} /\ "get" # "done" /\ "get" # "update"
      OBVIOUS
    <3>3. LabelStep(n, "get", held[n], ns[n])
      BY Zenon, <1>1, <1>2, <1>3, <2>1, <3>1, <3>2 DEF LabelStep
    <3> QED
      BY Zenon, <3>3, LabellingStep
  <2> QED
    BY Zenon, <2>2, <2>3
<1>7. CASE UpdateFails(n)
  <2>1. /\ labelling[n].at # "done" /\ UNCHANGED <<ns, cache, held, chanVars, obj, behind, phase>>
        /\ failures' = failures + 1 /\ labelling' = [labelling EXCEPT ![n] = [at |-> "done", read |-> cache[n]]]
    BY Zenon, <1>7 DEF UpdateFails, Proceed
  <2>2. failures' # 0
    BY <2>1 DEF Inv, TypeInv
  <2>3. "done" \in {"none", "get", "update", "done"} /\ "done" # "update"
    OBVIOUS
  <2>4. LabelStep(n, "done", held[n], ns[n])
    BY Zenon, <1>1, <1>2, <1>3, <2>1, <2>2, <2>3 DEF LabelStep
  <2> QED
    BY Zenon, <2>4, LabellingStep
<1> QED
  BY Zenon, <1>5, <1>6, <1>7

LEMMA StartFailsInv ==
    ASSUME Inv, StartFails
    PROVE  Inv'
<1>1. /\ phase' = "start" /\ cache' = ns /\ held' = [n \in Namespace |-> Unset] /\ labelling' = NoneLabelled
      /\ failures' = failures + 1 /\ UNCHANGED <<ns, chanVars, obj, behind>>
  BY Zenon DEF StartFails
<1>2. failures' \in Nat /\ failures' # 0
  BY <1>1 DEF Inv, TypeInv
<1>3. /\ labelling' \in [Namespace -> [at : {"none", "get", "update", "done"}, read : Labels \cup {Unset}]]
      /\ \A n \in Namespace : labelling'[n].at = "none"
  BY <1>1 DEF NoneLabelled, NoLabelling
<1>4. TypeInv'
  BY Zenon, <1>1, <1>2, <1>3 DEF Inv, TypeInv
<1>5. QueueInv'
  <2>1. phase \in {"start", "label"} /\ phase' \in {"start", "label"}
    BY <1>1 DEF StartFails, Labelled
  <2> QED
    BY Zenon, <1>1, <2>1, QueueKept DEF Inv
<1>a. \A n \in Namespace : labelling'[n].at # "update" /\ held'[n] = Unset
  BY <1>1, <1>3
<1>6. NamespaceInv'
  BY Zenon, <1>1, <1>a DEF NamespaceInv
<1>7. LabelledInv' /\ ObjectInv'
  BY Zenon, <1>2 DEF LabelledInv, ObjectInv
<1>8. PhaseInv'
  <2>1. phase \notin {"patch", "done"}
    BY DEF StartFails, Labelled
  <2>2. phase' \notin {"patch", "done"} /\ phase' # "done" /\ phase' \in {"start", "label", "patch", "done"}
    BY <1>1
  <2> QED
    BY Zenon, <1>1, <1>2, <2>1, <2>2 DEF Inv, PhaseInv, chanVars
<1> QED
  BY Zenon, <1>4, <1>5, <1>6, <1>7, <1>8 DEF Inv

-----------------------------------------------------------------------------
(* The steps that are about objects.                                       *)

(* What they have in common: of the namespaces nothing changes.            *)
LEMMA NamespacesKept ==
    ASSUME Inv, UNCHANGED nsVars, obj' \in [Objects -> Labels \cup {Unset}], failures' \in {failures, failures + 1}
    PROVE  TypeInv' /\ NamespaceInv' /\ LabelledInv' /\ (failures' = 0 => failures = 0)
<1>1. ns' = ns /\ cache' = cache /\ held' = held /\ labelling' = labelling
  BY Zenon DEF nsVars
<1>2. failures' \in Nat /\ (failures' = 0 => failures = 0)
  BY DEF Inv, TypeInv
<1>3. TypeInv'
  BY Zenon, <1>1, <1>2 DEF Inv, TypeInv
<1>4. NamespaceInv'
  BY Zenon, <1>1 DEF Inv, NamespaceInv
<1>5. LabelledInv'
  BY Zenon, <1>1, <1>2 DEF Inv, LabelledInv, Ours
<1> QED
  BY Zenon, <1>2, <1>3, <1>4, <1>5

(* The objects whose fate is decided, when the runnable patches.           *)
LEMMA DueLabels ==
    ASSUME Inv, failures = 0, phase \in {"patch", "done"}, NEW o \in Objects, Due(o)
    PROVE  held[Place[o][1]] = All3 /\ ns[Place[o][1]] = All3
<1>1. Place[o][1] \in Namespace
  BY Zenon, ObjectAssumption
<1> QED
  BY Zenon, <1>1 DEF Inv, PhaseInv, LabelledInv, Due

LEMMA LoadKindsInv ==
    ASSUME Inv, NEW lost, LoadKinds(lost), failures' = 0 => lost = {}, failures' \in {failures, failures + 1}
    PROVE  Inv'
<1>1. /\ Labelled /\ phase' = "patch"
      /\ UNCHANGED <<nsVars, channel, closed, worker, invalid, obj, behind>>
  BY Zenon DEF LoadKinds
<1> DEFINE AtPlace(p) == IF held[p[1]] # Unset /\ p[2] \in LoadGroupVersionKind(lost) THEN "list" ELSE "done"
<1>2. /\ listing' \in [Places -> Listing]
      /\ \A p \in Places : listing'[p].at = AtPlace(p) /\ listing'[p].items = <<>>
  BY DEF LoadKinds, Listing
<1>3. TypeInv' /\ NamespaceInv' /\ LabelledInv' /\ (failures' = 0 => failures = 0)
  <2>1. UNCHANGED nsVars /\ obj' \in [Objects -> Labels \cup {Unset}]
    BY Zenon, <1>1 DEF Inv, TypeInv
  <2> QED
    BY Zenon, <2>1, NamespacesKept
<1>4. QueueInv'
  <2>1. \A E : <<>> \in Seq(E)
    OBVIOUS
  <2>2. Empty
    BY <1>1 DEF Labelled, Inv, QueueInv
  <2>3. \A p \in Places : listing'[p].at = "list" => held'[p[1]] # Unset
    BY <1>1, <1>2 DEF nsVars
  <2>4. phase' \notin {"start", "label"}
    BY <1>1
  <2> QED
    BY Zenon, <1>1, <1>2, <2>1, <2>2, <2>3, <2>4 DEF Inv, QueueInv, Empty
<1>5. PhaseInv'
  <2>1. phase \notin {"patch", "done"} /\ phase' # "done" /\ phase' \in {"start", "label", "patch", "done"}
    BY <1>1 DEF Labelled
  <2>2. \A n \in Namespace : labelling'[n].at = "done"
    BY Zenon, <1>1 DEF Labelled, nsVars
  <2> QED
    BY Zenon, <1>1, <1>3, <2>1, <2>2 DEF Inv, PhaseInv
<1>6. ASSUME failures' = 0, NEW o \in Objects, Due(o)' PROVE Pending(o)'
  <2>1. Place[o][2] \in LoadGroupVersionKind({})
    BY Zenon, <1>6, AllKinds DEF Due
  <2>2. held[Place[o][1]] # Unset
    BY Zenon, <1>1, <1>6 DEF Due, Ours, nsVars
  <2>3. Place[o] \in Places
    BY Zenon DEF Places
  <2>4. listing'[Place[o]].at = "list"
    BY Zenon, <1>2, <1>6, <2>1, <2>2, <2>3
  <2> QED
    BY Zenon, <2>4 DEF Pending
<1>7. ObjectInv'
  BY Zenon, <1>6 DEF ObjectInv, ObjectOk
<1> QED
  BY Zenon, <1>3, <1>4, <1>5, <1>7 DEF Inv


LEMMA ObjectStep ==
    ASSUME Inv, UNCHANGED nsVars, obj' \in [Objects -> Labels \cup {Unset}], failures' \in {failures, failures + 1},
           QueueInv', PhaseInv', phase' \in {"patch", "done"} => phase \in {"patch", "done"},
           failures' = 0 /\ phase \in {"patch", "done"} => \A o \in Objects : Due(o) /\ ObjectOk(o) => ObjectOk(o)'
    PROVE  Inv'
<1>1. TypeInv' /\ NamespaceInv' /\ LabelledInv' /\ (failures' = 0 => failures = 0)
  BY Zenon, NamespacesKept
<1>2. \A o : Due(o)' <=> Due(o)
  BY Zenon DEF Due, Ours, nsVars
<1>3. ObjectInv'
  BY Zenon, <1>1, <1>2 DEF Inv, ObjectInv
<1> QED
  BY Zenon, <1>1, <1>3 DEF Inv

(* What the webhook of resources makes of an object: all three labels, if  *)
(* its namespace has them and the cache shows it, or shows no control.     *)
LEMMA SyncedLabels ==
    ASSUME Inv, NEW n \in Namespace, ns[n] # Unset, NEW l \in Labels
    PROVE  /\ Synced(n, l) \in Labels
           /\ ns[n] = All3 /\ ~Outdated(n) => Synced(n, l) = All3
           /\ ns[n] = All3 /\ l = All3 /\ ~(Outdated(n) /\ IsControlledByMesh(cache[n])) => Synced(n, l) = All3
<1>1. PICK t \in Labels : t = IF cache[n] = Unset THEN ns[n] ELSE cache[n]
  BY Zenon DEF Inv, TypeInv
<1>2. Synced(n, l) = Merge(l, getShardingLabel(t))
  BY Zenon, <1>1 DEF Synced
<1>3. getShardingLabel(t) \in Labels
  BY Zenon, Merged
<1>4. Synced(n, l) \in Labels
  BY Zenon, <1>2, <1>3, Merged
<1>5. t = All3 => Synced(n, l) = All3
  BY Zenon, <1>2, Merged, Label3
<1>6. ~Outdated(n) => t = ns[n]
  BY Zenon, <1>1 DEF Outdated
<1>7. ASSUME ns[n] = All3, l = All3, ~(Outdated(n) /\ IsControlledByMesh(cache[n])) PROVE Synced(n, l) = All3
  <2>1. CASE ~Outdated(n)
    BY Zenon, <1>5, <1>6, <1>7, <2>1
  <2>2. CASE Outdated(n)
    <3>1. t = cache[n]
      BY Zenon, <1>1, <2>2 DEF Outdated
    <3>2. ~IsControlledByMesh(t)
      BY Zenon, <1>7, <2>2, <3>1
    <3> QED
      BY Zenon, <1>2, <1>7, <3>2, Merged
  <2> QED
    BY Zenon, <2>1, <2>2
<1> QED
  BY Zenon, <1>4, <1>5, <1>6, <1>7

LEMMA WriteObjectInv ==
    ASSUME Inv, NEW o \in Objects, WriteObject(o)
    PROVE  Inv'
<1> DEFINE n == Place[o][1]
           l == Synced(n, None3)
<1>1. /\ ns[n] # Unset /\ obj' = [obj EXCEPT ![o] = l] /\ Witness(o, Outdated(n))
      /\ UNCHANGED nsVars /\ UNCHANGED chanVars /\ phase' = phase /\ failures' = failures
  BY Zenon DEF WriteObject
<1>2. n \in Namespace
  BY Zenon, ObjectAssumption
<1>3. l \in Labels /\ l # Unset /\ (ns[n] = All3 /\ ~Outdated(n) => l = All3)
  BY Zenon, <1>1, <1>2, SyncedLabels, Label3
<1> HIDE DEF l, n
<1>4. \A x \in Objects : obj'[x] = IF x = o THEN l ELSE obj[x]
  BY Zenon, <1>1 DEF Inv, TypeInv
<1>5. obj' \in [Objects -> Labels \cup {Unset}]
  BY Zenon, <1>1, <1>3 DEF Inv, TypeInv
<1>6. QueueInv'
  <2>1. \A x \in Objects : obj[x] # Unset => obj'[x] # Unset
    BY Zenon, <1>3, <1>4
  <2>2. QueueInv /\ UNCHANGED chanVars /\ UNCHANGED <<held, phase>>
    BY Zenon, <1>1 DEF Inv, nsVars
  <2> QED
    BY Zenon, <2>1, <2>2, QueueKept
<1>7. PhaseInv'
  BY Zenon, <1>1 DEF Inv, PhaseInv, chanVars, nsVars
<1>8. ASSUME failures' = 0, phase \in {"patch", "done"}, NEW x \in Objects, Due(x), ObjectOk(x)
      PROVE  ObjectOk(x)'
  <2>1. CASE x = o
    <3>1. ns[n] = All3
      BY Zenon, <1>1, <1>8, <2>1, DueLabels DEF n
    <3>2. CASE Outdated(n)
      BY Zenon, <1>1, <2>1, <3>2 DEF Witness, ObjectOk
    <3>3. CASE ~Outdated(n)
      BY Zenon, <1>3, <1>4, <2>1, <3>1, <3>3 DEF ObjectOk
    <3> QED
      BY Zenon, <3>2, <3>3
  <2>2. CASE x # o
    <3>1. obj'[x] = obj[x] /\ (x \in behind' <=> x \in behind)
      BY Zenon, <1>1, <1>4, <2>2 DEF Witness
    <3>2. Pending(x)' <=> Pending(x)
      BY Zenon, <1>1 DEF Pending, chanVars
    <3> QED
      BY Zenon, <1>8, <3>1, <3>2 DEF ObjectOk
  <2> QED
    BY Zenon, <2>1, <2>2
<1> QED
  BY Zenon, <1>1, <1>5, <1>6, <1>7, <1>8, ObjectStep

LEMMA ListsInv ==
    ASSUME Inv, NEW p \in Places, Lists(p)
    PROVE  Inv'
<1>1. /\ listing[p].at = "list" /\ UNCHANGED nsVars
      /\ UNCHANGED <<channel, closed, worker, invalid, obj, behind, phase, failures>>
  BY Zenon DEF Lists
<1>2. ~closed
  BY <1>1 DEF Inv, PhaseInv
<1>3. PICK s \in Seq(Objects), a \in {"send", "done"} :
         /\ listing' = [listing EXCEPT ![p] = [at |-> a, items |-> s]]
         /\ s \in Seq(KnownObjects)
         /\ isInvalid(p) \/ (a = "send" /\ s \in Orders(Lacking(p)))
  <2>1. CASE isInvalid(p)
    <3>1. listing' = [listing EXCEPT ![p].at = "done"]
      BY Zenon, <2>1 DEF Lists
    <3>2. listing[p] \in Listing /\ listing[p].items \in Seq(KnownObjects)
      BY Zenon DEF Inv, QueueInv
    <3>3. PICK x \in Listing : x = listing[p]
      BY Zenon, <3>2
    <3>4. [x EXCEPT !.at = "done"] = [at |-> "done", items |-> x.items]
      BY DEF Listing
    <3>5. listing' = [listing EXCEPT ![p] = [x EXCEPT !.at = "done"]]
      BY <3>1, <3>3
    <3>6. x.items \in Seq(Objects)
      BY DEF Listing
    <3> QED
      BY Zenon, <2>1, <3>2, <3>3, <3>4, <3>5, <3>6
  <2>2. CASE ~isInvalid(p)
    <3>1. PICK s \in Orders(Lacking(p)) : listing' = [listing EXCEPT ![p] = [at |-> "send", items |-> s]]
      BY Zenon, <2>2 DEF Lists
    <3>2. PICK S \in SUBSET Objects : S = Lacking(p)
      BY Zenon DEF Lacking
    <3>3. PICK E : E = KnownObjects
      BY Zenon
    <3>4. S \subseteq E /\ E \subseteq Objects
      <4>1. held[p[1]] # Unset
        BY Zenon, <1>1 DEF Inv, QueueInv
      <4> QED
        BY Zenon, <3>2, <3>3, <4>1 DEF Lacking, KnownObjects
    <3>5. s \in Seq(S)
      BY Zenon, <3>1, <3>2, AllOrdered
    <3>6. s \in Seq(E) /\ s \in Seq(Objects)
      BY <3>4, <3>5
    <3> QED
      BY Zenon, <3>1, <3>3, <3>6
  <2> QED
    BY Zenon, <2>1, <2>2
<1>4. /\ \A q \in Places : q # p => listing'[q] = listing[q]
      /\ listing'[p] = [at |-> a, items |-> s]
  BY Zenon, <1>3 DEF Inv, QueueInv
<1>5. listing'[p].at = a /\ listing'[p].items = s
  BY <1>4
<1>a. phase \notin {"start", "label"}
  BY <1>1 DEF Inv, QueueInv, Empty
<1>b. listing'[p].at # "list"
  BY <1>3, <1>5
<1>6. QueueInv'
  <2>1. [at |-> a, items |-> s] \in Listing
    BY DEF Listing
  <2>2. KnownObjects' = KnownObjects /\ held' = held
    BY Zenon, <1>1 DEF KnownObjects, nsVars
  <2>3. listing' \in [Places -> Listing]
    BY Zenon, <1>3, <2>1 DEF Inv, QueueInv
  <2>4. \A q \in Places : listing'[q].items \in Seq(KnownObjects) /\ (listing'[q].at = "list" => held[q[1]] # Unset)
    BY Zenon, <1>3, <1>4, <1>5, <1>b DEF Inv, QueueInv
  <2> QED
    BY Zenon, <1>1, <1>a, <1>b, <2>2, <2>3, <2>4 DEF Inv, QueueInv
<1>7. PhaseInv'
  BY Zenon, <1>1, <1>2 DEF Inv, PhaseInv, nsVars
<1>8. ASSUME failures' = 0, phase \in {"patch", "done"}, NEW o \in Objects, Due(o), ObjectOk(o)
      PROVE  ObjectOk(o)'
  <2>1. CASE o \in behind \/ obj[o] \in {Unset, All3}
    BY Zenon, <1>1, <2>1 DEF ObjectOk
  <2>2. CASE Place[o] # p
    <3>1. Place[o] \in Places
      BY Zenon DEF Places
    <3>2. listing'[Place[o]] = listing[Place[o]]
      BY Zenon, <1>4, <2>2, <3>1
    <3> QED
      BY Zenon, <1>1, <1>8, <3>2 DEF ObjectOk, Pending
  <2>3. CASE Place[o] = p /\ obj[o] \notin {Unset, All3}
    <3>1. ~isInvalid(p)
      BY Zenon, <1>1, <1>8 DEF Inv, PhaseInv, isInvalid
    <3>2. a = "send" /\ s \in Orders(Lacking(p))
      BY Zenon, <1>3, <3>1
    <3>3. held[p[1]] = All3
      BY Zenon, <1>1, <1>8, <2>3, DueLabels
    <3>4. obj[o] \in Labels
      BY Zenon, <2>3 DEF Inv, TypeInv
    <3>5. shouldPatchLabel(obj[o], getShardingLabel(held[p[1]]))
      BY Zenon, <2>3, <3>3, <3>4, Merged, Label3 DEF shouldPatchLabel
    <3>6. o \in Lacking(p) /\ Lacking(p) \in SUBSET Objects
      BY Zenon, <2>3, <3>5 DEF Lacking
    <3>a. PICK S \in SUBSET Objects : S = Lacking(p)
      BY Zenon, <3>6
    <3>b. s \in Orders(S) /\ o \in S
      BY Zenon, <3>2, <3>6, <3>a
    <3>c. \A x \in S : \E i \in 1 .. Len(s) : s[i] = x
      BY Zenon, <3>b, AllOrdered
    <3>7. \E i \in 1 .. Len(s) : s[i] = o
      BY Zenon, <3>b, <3>c
    <3> QED
      BY Zenon, <1>5, <2>3, <3>2, <3>7 DEF ObjectOk, Pending
  <2> QED
    BY Zenon, <2>1, <2>2, <2>3
<1>9. obj' \in [Objects -> Labels \cup {Unset}]
  BY Zenon, <1>1 DEF Inv, TypeInv
<1> QED
  BY Zenon, <1>1, <1>6, <1>7, <1>8, <1>9, ObjectStep


LEMMA ListFailsInv ==
    ASSUME Inv, NEW p \in Places, ListFails(p)
    PROVE  Inv'
<1>1. /\ listing[p].at = "list" /\ UNCHANGED nsVars /\ failures' = failures + 1
      /\ listing' = [listing EXCEPT ![p].at = "done"]
      /\ UNCHANGED <<channel, closed, worker, obj, behind, phase>>
  BY Zenon DEF ListFails
<1>2. ~closed
  BY <1>1 DEF Inv, PhaseInv
<1>3. failures' # 0
  BY <1>1 DEF Inv, TypeInv
<1>4. QueueInv'
  <2>1. listing \in [Places -> Listing]
    BY Zenon DEF Inv, QueueInv
  <2>2. PICK x \in Listing : x = listing[p]
    BY Zenon, <2>1
  <2>3. /\ [x EXCEPT !.at = "done"] \in Listing
        /\ [x EXCEPT !.at = "done"].items = x.items /\ [x EXCEPT !.at = "done"].at # "list"
    BY DEF Listing
  <2>4. listing' = [listing EXCEPT ![p] = [x EXCEPT !.at = "done"]]
    BY <1>1, <2>1, <2>2
  <2>5. /\ listing' \in [Places -> Listing] /\ \A q \in Places : listing'[q].items = listing[q].items
        /\ \A q \in Places : listing'[q].at = "list" => listing[q].at = "list"
    BY <2>1, <2>2, <2>3, <2>4
  <2>6. KnownObjects' = KnownObjects /\ held' = held
    BY Zenon, <1>1 DEF KnownObjects, nsVars
  <2>7. phase \notin {"start", "label"}
    BY <1>1 DEF Inv, QueueInv, Empty
  <2> QED
    BY Zenon, <1>1, <2>5, <2>6, <2>7 DEF Inv, QueueInv
<1>5. PhaseInv'
  BY Zenon, <1>1, <1>2, <1>3 DEF Inv, PhaseInv, nsVars
<1>6. obj' \in [Objects -> Labels \cup {Unset}]
  BY Zenon, <1>1 DEF Inv, TypeInv
<1> QED
  BY Zenon, <1>1, <1>3, <1>4, <1>5, <1>6, ObjectStep

LEMMA SendInv ==
    ASSUME Inv, NEW p \in Places, Send(p)
    PROVE  Inv'
<1>1. /\ listing[p].at = "send" /\ UNCHANGED nsVars
      /\ UNCHANGED <<closed, worker, invalid, obj, behind, phase, failures>>
  BY Zenon DEF Send
<1>2. ~closed
  BY <1>1 DEF Inv, PhaseInv
<1>3. PICK x \in Listing : x = listing[p]
  BY Zenon DEF Inv, QueueInv
<1>4. PICK E : E = KnownObjects
  BY Zenon
<1>5. /\ listing \in [Places -> Listing] /\ x.items \in Seq(E) /\ x.items \in Seq(Objects) /\ channel \in Seq(E)
      /\ \A q \in Places : listing[q].items \in Seq(E)
  <2>1. x.items \in Seq(Objects)
    BY DEF Listing
  <2> QED
    BY Zenon, <1>3, <1>4, <2>1 DEF Inv, QueueInv
<1>6. PICK y \in Listing, c \in Seq(E) :
         /\ listing' = [listing EXCEPT ![p] = y] /\ channel' = c /\ y.items \in Seq(E) /\ y.at # "list"
         /\ \A o : (\E i \in 1 .. Len(x.items) : x.items[i] = o) =>
                      (y.at = "send" /\ \E i \in 1 .. Len(y.items) : y.items[i] = o) \/ \E i \in 1 .. Len(c) : c[i] = o
         /\ \A o : (\E i \in 1 .. Len(channel) : channel[i] = o) => \E i \in 1 .. Len(c) : c[i] = o
  <2>1. CASE x.items = <<>>
    <3>1. listing' = [listing EXCEPT ![p].at = "done"] /\ channel' = channel
      BY Zenon, <1>3, <2>1 DEF Send
    <3>2. /\ [x EXCEPT !.at = "done"] \in Listing /\ [x EXCEPT !.at = "done"].items = x.items
          /\ [x EXCEPT !.at = "done"].at # "list"
      BY DEF Listing
    <3>3. listing' = [listing EXCEPT ![p] = [x EXCEPT !.at = "done"]]
      BY <1>3, <1>5, <3>1
    <3>4. \A o : ~\E i \in 1 .. Len(x.items) : x.items[i] = o
      BY <2>1
    <3> QED
      BY Zenon, <1>5, <3>1, <3>2, <3>3, <3>4
  <2>2. CASE x.items # <<>>
    <3>1. /\ channel' = Append(channel, Head(x.items))
          /\ listing' = [listing EXCEPT ![p].items = Tail(@)]
      BY Zenon, <1>3, <2>2 DEF Send
    <3>2. Tail(x.items) \in Seq(E) /\ Tail(x.items) \in Seq(Objects) /\ Append(channel, Head(x.items)) \in Seq(E)
      <4>1. Head(x.items) \in E /\ Tail(x.items) \in Seq(E)
        BY <1>5, <2>2
      <4>2. Tail(x.items) \in Seq(Objects)
        BY <1>5, <2>2
      <4>3. Append(channel, Head(x.items)) \in Seq(E)
        BY <1>5, <4>1
      <4> QED
        BY Zenon, <4>1, <4>2, <4>3
    <3>a. PICK t \in Seq(Objects) : t = Tail(x.items)
      BY Zenon, <3>2
    <3>b. [x EXCEPT !.items = t] \in Listing /\ [x EXCEPT !.items = t].at = x.at /\ [x EXCEPT !.items = t].items = t
      BY DEF Listing
    <3>c. x.at = "send" /\ x.at # "list"
      BY <1>1, <1>3
    <3>3. PICK y \in Listing : y = [x EXCEPT !.items = Tail(@)] /\ y.at = "send" /\ y.at # "list" /\ y.items = Tail(x.items)
      BY Zenon, <3>a, <3>b, <3>c
    <3>4. listing' = [listing EXCEPT ![p] = y]
      BY <1>3, <1>5, <3>1, <3>3
    <3>5. ASSUME NEW o, NEW i \in 1 .. Len(x.items), x.items[i] = o
          PROVE  \/ \E j \in 1 .. Len(Tail(x.items)) : Tail(x.items)[j] = o
                 \/ \E j \in 1 .. Len(Append(channel, Head(x.items))) : Append(channel, Head(x.items))[j] = o
      <4>1. CASE i = 1
        <5>1. Append(channel, Head(x.items))[Len(channel) + 1] = o /\ Len(channel) + 1 \in 1 .. Len(Append(channel, Head(x.items)))
          BY <1>5, <2>2, <3>5, <4>1
        <5> QED
          BY Zenon, <5>1
      <4>2. CASE i # 1
        <5>1. i - 1 \in 1 .. Len(Tail(x.items)) /\ Tail(x.items)[i - 1] = o
          BY <1>5, <2>2, <3>5, <4>2
        <5> QED
          BY Zenon, <5>1
      <4> QED
        BY Zenon, <4>1, <4>2
    <3>6. ASSUME NEW o, NEW i \in 1 .. Len(channel), channel[i] = o
          PROVE  \E j \in 1 .. Len(Append(channel, Head(x.items))) : Append(channel, Head(x.items))[j] = o
      <4>1. i \in 1 .. Len(Append(channel, Head(x.items))) /\ Append(channel, Head(x.items))[i] = o
        BY <1>5, <3>6
      <4> QED
        BY Zenon, <4>1
    <3>7. PICK c \in Seq(E) : c = Append(channel, Head(x.items))
      BY Zenon, <3>2
    <3>8. \A o : (\E i \in 1 .. Len(x.items) : x.items[i] = o) =>
                   (y.at = "send" /\ \E i \in 1 .. Len(y.items) : y.items[i] = o) \/ \E i \in 1 .. Len(c) : c[i] = o
      BY Zenon, <3>3, <3>5, <3>7
    <3>9. \A o : (\E i \in 1 .. Len(channel) : channel[i] = o) => \E i \in 1 .. Len(c) : c[i] = o
      BY Zenon, <3>6, <3>7
    <3>10. channel' = c /\ y.items \in Seq(E)
      BY Zenon, <3>1, <3>2, <3>3, <3>7
    <3> QED
      BY Zenon, <3>3, <3>4, <3>8, <3>9, <3>10
  <2> QED
    BY Zenon, <2>1, <2>2
<1>7. listing'[p] = y /\ \A q \in Places : q # p => listing'[q] = listing[q]
  BY Zenon, <1>5, <1>6
<1>8. QueueInv'
  <2>1. KnownObjects' = E
    BY Zenon, <1>1, <1>4 DEF KnownObjects, nsVars
  <2>2. listing' \in [Places -> Listing]
    BY Zenon, <1>5, <1>6
  <2>3. \A q \in Places : listing'[q].items \in Seq(E) /\ (listing'[q].at = "list" => listing[q].at = "list")
    BY Zenon, <1>5, <1>6, <1>7
  <2>4. phase \notin {"start", "label"} /\ held' = held
    BY <1>1 DEF Inv, QueueInv, Empty, nsVars
  <2> QED
    BY Zenon, <1>1, <1>4, <1>6, <2>1, <2>2, <2>3, <2>4 DEF Inv, QueueInv
<1>9. PhaseInv'
  BY Zenon, <1>1, <1>2 DEF Inv, PhaseInv, nsVars
<1>10. ASSUME NEW o \in Objects, ObjectOk(o) PROVE ObjectOk(o)'
  <2>1. CASE o \in behind \/ obj[o] \in {Unset, All3}
    BY Zenon, <1>1, <2>1 DEF ObjectOk
  <2>2. CASE (\E i \in 1 .. Len(channel) : channel[i] = o) \/ \E w \in Worker : worker[w] = o
    BY Zenon, <1>1, <1>6, <2>2 DEF ObjectOk, Pending
  <2>3. CASE \/ listing[Place[o]].at = "list"
             \/ listing[Place[o]].at = "send" /\ \E i \in 1 .. Len(listing[Place[o]].items) : listing[Place[o]].items[i] = o
    <3>1. CASE Place[o] # p
      <4>1. listing'[Place[o]] = listing[Place[o]]
        BY Zenon, <1>7, <3>1 DEF Places
      <4> QED
        BY Zenon, <2>3, <4>1 DEF ObjectOk, Pending
    <3>2. CASE Place[o] = p
      <4>1. \E i \in 1 .. Len(x.items) : x.items[i] = o
        BY Zenon, <1>1, <1>3, <2>3, <3>2
      <4>2. (y.at = "send" /\ \E i \in 1 .. Len(y.items) : y.items[i] = o) \/ \E i \in 1 .. Len(channel') : channel'[i] = o
        BY Zenon, <1>6, <4>1
      <4> QED
        BY Zenon, <1>7, <3>2, <4>2 DEF ObjectOk, Pending
    <3> QED
      BY Zenon, <3>1, <3>2
  <2> QED
    BY Zenon, <1>10, <2>1, <2>2, <2>3 DEF ObjectOk, Pending
<1>11. obj' \in [Objects -> Labels \cup {Unset}]
  BY Zenon, <1>1 DEF Inv, TypeInv
<1> QED
  BY Zenon, <1>1, <1>8, <1>9, <1>10, <1>11, ObjectStep

LEMMA CloseInv ==
    ASSUME Inv, Close \/ Finish
    PROVE  Inv'
<1>1. /\ UNCHANGED nsVars /\ phase = "patch" /\ phase' \in {"patch", "done"}
      /\ UNCHANGED <<listing, channel, worker, invalid, obj, behind, failures>>
  BY Zenon DEF Close, Finish, chanVars
<1>2. QueueInv'
  <2>1. KnownObjects' = KnownObjects /\ held' = held
    BY Zenon, <1>1 DEF KnownObjects, nsVars
  <2>2. phase' \notin {"start", "label"}
    BY <1>1
  <2> QED
    BY Zenon, <1>1, <2>1, <2>2 DEF Inv, QueueInv
<1>3. PhaseInv'
  <2>1. closed' => channel = <<>> /\ \A p \in Places : listing[p].at = "done"
    BY Zenon DEF Inv, PhaseInv, Close, Finish, chanVars
  <2>2. phase' = "done" => closed' /\ \A w \in Worker : worker[w] = Unset
    BY DEF Close, Finish, chanVars
  <2>3. phase' \in {"start", "label", "patch", "done"} /\ \A n \in Namespace : labelling'[n].at = "done"
    BY <1>1 DEF Inv, PhaseInv, nsVars
  <2> QED
    BY Zenon, <1>1, <2>1, <2>2, <2>3 DEF Inv, PhaseInv
<1>4. \A o \in Objects : ObjectOk(o) => ObjectOk(o)'
  BY Zenon, <1>1 DEF ObjectOk, Pending
<1>5. obj' \in [Objects -> Labels \cup {Unset}]
  BY Zenon, <1>1 DEF Inv, TypeInv
<1> QED
  BY Zenon, <1>1, <1>2, <1>3, <1>4, <1>5, ObjectStep

LEMMA ReceiveInv ==
    ASSUME Inv, NEW w \in Worker, Receive(w)
    PROVE  Inv'
<1>1. /\ worker[w] = Unset /\ channel # <<>> /\ UNCHANGED nsVars
      /\ worker' = [worker EXCEPT ![w] = Head(channel)] /\ channel' = Tail(channel)
      /\ UNCHANGED <<listing, closed, invalid, obj, behind, phase, failures>>
  BY Zenon DEF Receive
<1>2. ~closed /\ phase # "done"
  BY Zenon, <1>1 DEF Inv, PhaseInv
<1>3. PICK E : E = KnownObjects
  BY Zenon
<1>4. channel \in Seq(E)
  BY Zenon, <1>3 DEF Inv, QueueInv
<1>5. Head(channel) \in E /\ Tail(channel) \in Seq(E)
  BY <1>1, <1>4
<1>6. \A v \in Worker : worker'[v] = IF v = w THEN Head(channel) ELSE worker[v]
  BY Zenon, <1>1 DEF Inv, QueueInv
<1>7. QueueInv'
  <2>1. KnownObjects' = E /\ E \subseteq Objects
    BY Zenon, <1>1, <1>3 DEF KnownObjects, nsVars
  <2>2. worker' \in [Worker -> Objects \cup {Unset}]
    BY Zenon, <1>1, <1>5, <2>1 DEF Inv, QueueInv
  <2>3. \A v \in Worker : worker'[v] # Unset => worker'[v] \in E
    BY Zenon, <1>3, <1>5, <1>6 DEF Inv, QueueInv
  <2>4. phase \notin {"start", "label"} /\ held' = held
    BY Zenon, <1>1 DEF Inv, QueueInv, Empty, nsVars
  <2> QED
    BY Zenon, <1>1, <1>3, <1>5, <2>1, <2>2, <2>3, <2>4 DEF Inv, QueueInv
<1>8. PhaseInv'
  BY Zenon, <1>1, <1>2 DEF Inv, PhaseInv, nsVars
<1>9. ASSUME NEW o \in Objects, ObjectOk(o) PROVE ObjectOk(o)'
  <2>1. CASE \E i \in 1 .. Len(channel) : channel[i] = o
    <3>1. PICK i \in 1 .. Len(channel) : channel[i] = o
      BY Zenon, <2>1
    <3>2. CASE i = 1
      <4>1. Head(channel) = o
        BY <1>1, <1>4, <3>1, <3>2
      <4> QED
        BY Zenon, <1>6, <4>1 DEF ObjectOk, Pending
    <3>3. CASE i # 1
      <4>1. i - 1 \in 1 .. Len(Tail(channel)) /\ Tail(channel)[i - 1] = o
        BY <1>1, <1>4, <3>1, <3>3
      <4> QED
        BY Zenon, <1>1, <4>1 DEF ObjectOk, Pending
    <3> QED
      BY Zenon, <3>2, <3>3
  <2>2. CASE \E v \in Worker : worker[v] = o
    <3>1. PICK v \in Worker : worker[v] = o
      BY Zenon, <2>2
    <3>2. v # w
      BY Zenon, <1>1, <3>1, LabelAssumption
    <3> QED
      BY Zenon, <1>6, <3>1, <3>2 DEF ObjectOk, Pending
  <2>3. CASE ~(\E i \in 1 .. Len(channel) : channel[i] = o) /\ ~\E v \in Worker : worker[v] = o
    BY Zenon, <1>1, <1>9, <2>3 DEF ObjectOk, Pending
  <2> QED
    BY Zenon, <2>1, <2>2, <2>3
<1>10. obj' \in [Objects -> Labels \cup {Unset}]
  BY Zenon, <1>1 DEF Inv, TypeInv
<1> QED
  BY Zenon, <1>1, <1>7, <1>8, <1>9, <1>10, ObjectStep

LEMMA PatchInv ==
    ASSUME Inv, NEW w \in Worker, Patch(w) \/ PatchFails(w)
    PROVE  Inv'
<1>1. /\ worker[w] # Unset /\ UNCHANGED nsVars /\ worker' = [worker EXCEPT ![w] = Unset]
      /\ UNCHANGED <<listing, channel, closed, invalid, phase>>
  BY Zenon DEF Patch, PatchFails
<1>2. phase # "done" /\ phase \notin {"start", "label"}
  BY Zenon, <1>1 DEF Inv, PhaseInv, QueueInv, Empty
<1>3. PICK o \in Objects : o = worker[w] /\ obj[o] # Unset /\ held[Place[o][1]] # Unset
  BY Zenon, <1>1 DEF Inv, QueueInv, KnownObjects
<1>4. \A v \in Worker : worker'[v] = IF v = w THEN Unset ELSE worker[v]
  BY Zenon, <1>1 DEF Inv, QueueInv
<1>5. worker' \in [Worker -> Objects \cup {Unset}]
  BY Zenon, <1>1 DEF Inv, QueueInv
<1>6. ASSUME \A x \in Objects : obj[x] # Unset <=> obj'[x] # Unset
      PROVE  QueueInv'
  <2>1. KnownObjects' = KnownObjects /\ held' = held
    BY Zenon, <1>1, <1>6 DEF KnownObjects, nsVars
  <2> QED
    BY Zenon, <1>1, <1>2, <1>4, <1>5, <2>1 DEF Inv, QueueInv
<1>7. CASE PatchFails(w)
  <2>1. UNCHANGED <<obj, behind>> /\ failures' = failures + 1
    BY Zenon, <1>7 DEF PatchFails
  <2>2. failures' # 0
    BY <2>1 DEF Inv, TypeInv
  <2>3. PhaseInv'
    BY Zenon, <1>1, <1>2, <2>2 DEF Inv, PhaseInv, nsVars
  <2>4. QueueInv'
    BY Zenon, <1>6, <2>1
  <2>5. obj' \in [Objects -> Labels \cup {Unset}]
    BY Zenon, <2>1 DEF Inv, TypeInv
  <2> QED
    BY Zenon, <1>1, <2>1, <2>2, <2>3, <2>4, <2>5, ObjectStep
<1>8. CASE Patch(w)
  <2>1. PICK n \in Namespace : n = Place[o][1]
    BY Zenon, ObjectAssumption
  <2>2. ns[n] # Unset /\ held[n] \in Labels /\ obj[o] \in Labels
    BY ZenonT(60), <1>3, <2>1 DEF Inv, NamespaceInv, TypeInv
  <2>3. PICK m \in Labels : m = Merge(obj[o], getShardingLabel(held[n]))
    BY Zenon, <2>2, Merged
  <2>4. PICK l \in Labels : l = Synced(n, m)
    BY Zenon, <2>2, SyncedLabels
  <2>5. l # Unset
    BY Zenon, Label3
  <2>6. /\ obj' = [obj EXCEPT ![o] = l] /\ failures' = failures
        /\ Witness(o, Outdated(n) /\ IsControlledByMesh(cache[n]))
    <3>1. /\ obj' = [obj EXCEPT ![o] = Synced(n, Merge(@, getShardingLabel(held[n])))] /\ failures' = failures
          /\ Witness(o, Outdated(n) /\ IsControlledByMesh(cache[n]))
      BY Zenon, <1>3, <1>8, <2>1 DEF Patch
    <3> QED
      BY Zenon, <2>3, <2>4, <3>1
  <2>7. \A x \in Objects : obj'[x] = IF x = o THEN l ELSE obj[x]
    BY Zenon, <2>6 DEF Inv, TypeInv
  <2>8. obj' \in [Objects -> Labels \cup {Unset}]
    BY Zenon, <2>6 DEF Inv, TypeInv
  <2>9. QueueInv'
    BY Zenon, <1>3, <1>6, <2>5, <2>7
  <2>10. PhaseInv'
    BY Zenon, <1>1, <1>2, <2>6 DEF Inv, PhaseInv, nsVars
  <2>11. ASSUME failures' = 0, phase \in {"patch", "done"}, NEW x \in Objects, Due(x), ObjectOk(x)
         PROVE  ObjectOk(x)'
    <3>1. CASE x = o
      <4>1. held[n] = All3 /\ ns[n] = All3
        BY Zenon, <2>1, <2>6, <2>11, <3>1, DueLabels
      <4>2. m = All3
        BY Zenon, <2>2, <2>3, <4>1, Merged, Label3
      <4>3. CASE Outdated(n) /\ IsControlledByMesh(cache[n])
        BY Zenon, <2>6, <3>1, <4>3 DEF Witness, ObjectOk
      <4>4. CASE ~(Outdated(n) /\ IsControlledByMesh(cache[n]))
        <5>1. l = All3
          BY Zenon, <2>2, <2>4, <4>1, <4>2, <4>4, SyncedLabels
        <5> QED
          BY Zenon, <2>7, <3>1, <5>1 DEF ObjectOk
      <4> QED
        BY Zenon, <4>3, <4>4
    <3>2. CASE x # o
      <4>1. obj'[x] = obj[x] /\ (x \in behind' <=> x \in behind)
        BY Zenon, <2>6, <2>7, <3>2 DEF Witness
      <4>2. (\E v \in Worker : worker[v] = x) => \E v \in Worker : worker'[v] = x
        BY Zenon, <1>3, <1>4, <3>2
      <4>3. Pending(x) => Pending(x)'
        BY Zenon, <1>1, <4>2 DEF Pending
      <4> QED
        BY Zenon, <2>11, <4>1, <4>3 DEF ObjectOk
    <3> QED
      BY Zenon, <3>1, <3>2
  <2> QED
    BY Zenon, <1>1, <2>6, <2>8, <2>9, <2>10, <2>11, ObjectStep
<1> QED
  BY Zenon, <1>7, <1>8

-----------------------------------------------------------------------------
LEMMA InvNext ==
    ASSUME Inv, [LabelNext]_labelVars
    PROVE  Inv'
<1>1. CASE UNCHANGED labelVars
  <2>1. /\ UNCHANGED nsVars /\ UNCHANGED chanVars
        /\ UNCHANGED <<ns, cache, held, labelling, listing, channel, closed, worker, invalid, obj, behind, phase, failures>>
    BY Zenon, <1>1 DEF labelVars, nsVars, chanVars
  <2>2. QueueInv'
    BY Zenon, <2>1, QueueKept DEF Inv
  <2>3. PhaseInv'
    BY Zenon, <2>1 DEF Inv, PhaseInv
  <2>4. obj' \in [Objects -> Labels \cup {Unset}]
    BY Zenon, <2>1 DEF Inv, TypeInv
  <2>5. \A o : ObjectOk(o) => ObjectOk(o)'
    BY Zenon, <2>1 DEF ObjectOk, Pending
  <2> QED
    BY Zenon, <2>1, <2>2, <2>3, <2>4, <2>5, ObjectStep
<1>2. CASE LabelNext
  <2>1. CASE ListNamespaces
    BY Zenon, <2>1, ListNamespacesInv
  <2>2. CASE LoadKinds({}) /\ failures' = failures
    BY Zenon, <2>2, LoadKindsInv
  <2>3. CASE DiscoveryFails
    <3>1. PICK gv \in GroupVersions : LoadKinds({gv}) /\ failures' = failures + 1
      BY Zenon, <2>3 DEF DiscoveryFails
    <3>2. failures' # 0
      BY <3>1 DEF Inv, TypeInv
    <3> QED
      BY Zenon, <3>1, <3>2, LoadKindsInv
  <2>4. CASE StartFails
    BY Zenon, <2>4, StartFailsInv
  <2>5. CASE \E n \in Namespace : GetNamespace(n) \/ UpdateNamespace(n) \/ UpdateFails(n)
    BY Zenon, <2>5, LabellingSteps
  <2>6. CASE \E n \in Namespace : WriteNamespace(n)
    BY Zenon, <2>6, WriteNamespaceInv
  <2>7. CASE \E n \in Namespace : Watch(n)
    BY Zenon, <2>7, WatchInv
  <2>8. CASE \E o \in Objects : WriteObject(o)
    BY Zenon, <2>8, WriteObjectInv
  <2>9. CASE \E p \in Places : Lists(p)
    BY Zenon, <2>9, ListsInv
  <2>10. CASE \E p \in Places : ListFails(p)
    BY Zenon, <2>10, ListFailsInv
  <2>11. CASE \E p \in Places : Send(p)
    BY Zenon, <2>11, SendInv
  <2>12. CASE Close \/ Finish
    BY Zenon, <2>12, CloseInv
  <2>13. CASE \E w \in Worker : Receive(w)
    BY Zenon, <2>13, ReceiveInv
  <2>14. CASE \E w \in Worker : Patch(w) \/ PatchFails(w)
    BY Zenon, <2>14, PatchInv
  <2> QED
    BY Zenon, <1>2, <2>1, <2>2, <2>3, <2>4, <2>5, <2>6, <2>7, <2>8, <2>9, <2>10, <2>11, <2>12, <2>13, <2>14
       DEF LabelNext, Goroutine
<1> QED
  BY Zenon, <1>1, <1>2

LEMMA InvMissed ==
    ASSUME Inv
    PROVE  NoneMissed
<1> SUFFICES ASSUME phase = "done", failures = 0, NEW o \in Objects \ behind, obj[o] # Unset, Due(o)
             PROVE  obj[o] = All3
  BY Zenon DEF NoneMissed, Due, Ours
<1>1. ObjectOk(o)
  BY Zenon DEF Inv, ObjectInv
<1>2. channel = <<>> /\ (\A p \in Places : listing[p].at = "done") /\ \A w \in Worker : worker[w] = Unset
  BY Zenon DEF Inv, PhaseInv
<1>3. listing[Place[o]].at \notin {"list", "send"}
  BY <1>2 DEF Places
<1>4. ~\E i \in 1 .. Len(channel) : channel[i] = o
  BY <1>2
<1>5. ~\E w \in Worker : worker[w] = o
  BY Zenon, <1>2, LabelAssumption
<1>6. ~Pending(o)
  BY Zenon, <1>3, <1>4, <1>5 DEF Pending
<1> QED
  BY Zenon, <1>1, <1>6 DEF ObjectOk

(* NoneMissed, for any namespaces, objects, workers, ConfigMap and size of *)
(* the channel: when the runnable (labelpatch_runnable.go, Start) has      *)
(* finished and no call has failed, each object of a configured kind in a  *)
(* namespace it made out to be controlled has all three labels, unless the *)
(* webhook of resources saw an old copy of the namespace when the object   *)
(* was written last.                                                       *)
THEOREM NoneMissedCorrect == LabelSpec => []NoneMissed
<1>1. LabelInit => Inv
  BY Zenon, InitInv
<1>2. Inv /\ [LabelNext]_labelVars => Inv'
  BY Zenon, InvNext
<1>3. Inv => NoneMissed
  BY Zenon, InvMissed
<1> QED
  BY <1>1, <1>2, <1>3, PTL DEF LabelSpec

=============================================================================
