------------------------------- MODULE CertDir ------------------------------
(***************************************************************************)
(* How certificates get into a directory (pkg/webhook/util/writer, fs.go   *)
(* and atomic/): the files a reader opens are links into ..data, itself a  *)
(* link to a timestamped directory, so that one rename changes all of them.*)
(* A process may fail or die at any step.  The files of a certificate are  *)
(* one value; a directory whose files are not all written holds Partial.   *)
(***************************************************************************)
EXTENDS Integers, FiniteSets

CONSTANTS
    Process,     \* the processes, each with a directory of its own
    Stamp,       \* the names of timestamped directories
    Partial,
    Nil

VARIABLES
    dir,         \* dir[p]: the directory of p
    writer       \* writer[p]: how far WriteCertsToDir is

EmptyDir == [links |-> FALSE, data |-> Nil, dataTmp |-> Nil, stamps |-> [s \in Stamp |-> Nil]]
Idle == [pc |-> "idle", cert |-> Nil, stamp |-> Nil, old |-> Nil]

DirInit == dir = [p \in Process |-> EmptyDir] /\ writer = [p \in Process |-> Idle]

(* What a reader of the files finds: nothing, or what ..data leads to.     *)
Visible(p) == IF dir[p].links /\ dir[p].data # Nil THEN dir[p].stamps[dir[p].data] ELSE Nil

To(p, pc) == writer' = [writer EXCEPT ![p].pc = pc]
At(p, pc) == writer[p].pc = pc
Change(p, d) == dir' = [dir EXCEPT ![p] = d]

shouldWritePayload(p) == dir[p].stamps[dir[p].data] # writer[p].cert

(* A directory with a new name, empty; there are Stamp names.              *)
newTimestampDir(p) ==
    LET s == CHOOSE s \in Stamp : dir[p].stamps[s] = Nil
    IN  /\ \E free \in Stamp : dir[p].stamps[free] = Nil
        /\ Change(p, [dir[p] EXCEPT !.stamps[s] = Partial])
        /\ writer' = [writer EXCEPT ![p].pc = "payload", ![p].stamp = s, ![p].old = dir[p].data]

(* (1) to (5): nothing is done if the files hold the certificate already.  *)
(* The names of the files are always the same, so none is to be removed.   *)
BeginWrite(p) ==
    /\ At(p, "begin")
    /\ IF dir[p].data = Nil \/ shouldWritePayload(p) THEN newTimestampDir(p)
       ELSE To(p, "written") /\ UNCHANGED dir

(* Mutant: a file that cannot be written is passed over.                   *)
MutWritePayloadToDir(p) == At(p, "payload") /\ To(p, "links") /\ UNCHANGED dir

writePayloadToDir(p) ==
    /\ At(p, "payload") /\ To(p, "links")
    /\ Change(p, [dir[p] EXCEPT !.stamps[writer[p].stamp] = writer[p].cert])

createUserVisibleFiles(p) ==
    /\ At(p, "links") /\ To(p, "symlink")
    /\ Change(p, [dir[p] EXCEPT !.links = TRUE])

(* (8) fails if ..data_tmp is there.                                       *)
SymlinkTmp(p) ==
    /\ At(p, "symlink")
    /\ IF dir[p].dataTmp # Nil
       THEN To(p, "failed") /\ Change(p, [dir[p] EXCEPT !.stamps[writer[p].stamp] = Nil])
       ELSE To(p, "rename") /\ Change(p, [dir[p] EXCEPT !.dataTmp = writer[p].stamp])

Rename(p) ==
    /\ At(p, "rename") /\ To(p, "cleanup")
    /\ Change(p, [dir[p] EXCEPT !.data = dir[p].dataTmp, !.dataTmp = Nil])

RemoveOld(p) ==
    /\ At(p, "cleanup") /\ To(p, "written")
    /\ Change(p, IF writer[p].old = Nil THEN dir[p] ELSE [dir[p] EXCEPT !.stamps[writer[p].old] = Nil])

WriteStep(p) ==
    \/ BeginWrite(p) \/ writePayloadToDir(p) \/ createUserVisibleFiles(p) \/ SymlinkTmp(p) \/ Rename(p) \/ RemoveOld(p)

(* Mutant: ..data_tmp stays when it cannot be renamed.                     *)
MutWriteFails(p) ==
    /\ writer[p].pc \in {"begin", "payload", "links", "symlink", "rename", "cleanup"} /\ To(p, "failed")
    /\ Change(p, IF writer[p].pc \in {"symlink", "rename"} THEN [dir[p] EXCEPT !.stamps[writer[p].stamp] = Nil] ELSE dir[p])

(* A system call fails.  Only the last steps tidy up.                      *)
WriteFails(p) ==
    /\ writer[p].pc \in {"begin", "payload", "links", "symlink", "rename", "cleanup"} /\ To(p, "failed")
    /\ Change(p, CASE At(p, "symlink") -> [dir[p] EXCEPT !.stamps[writer[p].stamp] = Nil]
                   [] At(p, "rename") -> [dir[p] EXCEPT !.stamps[writer[p].stamp] = Nil, !.dataTmp = Nil]
                   [] OTHER -> dir[p])

-----------------------------------------------------------------------------
(* A reader never meets a half-written or missing certificate once there   *)
(* was a whole one, whenever the writer fails or dies ("atomically         *)
(* updated by changing the target of the data directory symlink").         *)
DirWhole == \A p \in Process : dir[p].data # Nil => dir[p].stamps[dir[p].data] \notin {Nil, Partial}
=============================================================================
