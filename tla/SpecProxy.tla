------------------------------ MODULE SpecProxy -----------------------------
(***************************************************************************)
(* The proxy's end of the sharding protocol (pkg/proxy/proto): the gRPC    *)
(* client, the SpecManager that holds the expected and the current spec,   *)
(* and the two files they are saved in.                                    *)
(*                                                                         *)
(* A spec is its hash and the set of hashes its limits come from: the      *)
(* files are opened without truncation and written at their end, so what a *)
(* restart unmarshals is the concatenation of every spec written, in which *)
(* the last hash wins and the lists of limits are joined.                  *)
(***************************************************************************)
EXTENDS ShardNet

VARIABLE proxy   \* proxy[p]: the proxy process of p and its files

ProxySpec(h) == [hash |-> h, limits |-> {h}]
NoSpec == [hash |-> None, limits |-> {}]
SpecType == [hash : Hash \cup {None}, limits : SUBSET Hash]

DownProxy == [up |-> FALSE, expected |-> NoSpec, current |-> NoSpec, half |-> FALSE,
              serving |-> FALSE, prev |-> NoMeta, lead |-> FALSE,
              expectedFile |-> NoSpec, currentFile |-> NoSpec]

(* What a write leaves in a file, as a later loadData reads it.            *)
Appended(file, spec) == [hash |-> spec.hash, limits |-> file.limits \cup spec.limits]

(* The two halves of UpdateSpec.  The expected spec is set and saved       *)
(* before the lock is taken; a status read in between sees it.             *)
Expect(x, spec) == [x EXCEPT !.expected = spec, !.expectedFile = Appended(x.expectedFile, spec)]

checkLoadable(x) == x.current.hash \in {None, x.expected.hash}

Load(x) ==
    IF checkLoadable(x)
    THEN [x EXCEPT !.current = x.expected, !.currentFile = Appended(x.currentFile, x.expected)]
    ELSE x

UpdateSpec(x, spec) == Load(Expect(x, spec))

GetStatus(x) ==
    IF x.current.hash = None THEN NoMeta
    ELSE [exp |-> x.expected.hash, cur |-> x.current.hash, lead |-> x.lead]

(* The process starts and loads its files.                                 *)
(* Mutant: the current spec is loaded from the file of the expected one.   *)
MutStarted(x) ==
    LET y == [x EXCEPT !.up = TRUE, !.current = x.expectedFile]
    IN  IF x.expectedFile.hash = None THEN y ELSE UpdateSpec(y, x.expectedFile)

Started(x) ==
    LET y == [x EXCEPT !.up = TRUE, !.current = x.currentFile]
    IN  IF x.expectedFile.hash = None THEN y ELSE UpdateSpec(y, x.expectedFile)

StartProxy(p) ==
    /\ pod[p].phase \in {"running", "terminating"} /\ ~ proxy[p].up
    /\ proxy' = [proxy EXCEPT ![p] = Started(@)]
    /\ UNCHANGED <<pod, stream>>

(* connect: the proxy dials the leader and sends its first status.         *)
Connect(p) ==
    /\ proxy[p].up /\ ~ proxy[p].half /\ stream[p].state = "closed"
    /\ stream' = [stream EXCEPT ![p] = [Closed EXCEPT !.state = "new", !.up = <<GetStatus(proxy[p])>>]]
    /\ proxy' = [proxy EXCEPT ![p].prev = NoMeta]
    /\ UNCHANGED pod

(* recv: the spec is taken from the stream and expected; then it is loaded *)
(* if it may be.  The first spec received ends the wait of Start, and the  *)
(* proxy serves and is ready from then on, whether or not it could load    *)
(* the spec.                                                               *)
RecvSpec(p) ==
    /\ proxy[p].up /\ ~ proxy[p].half /\ stream[p].down # <<>>
    /\ proxy' = [proxy EXCEPT ![p] = [Expect(@, ProxySpec(Head(stream[p].down))) EXCEPT !.half = TRUE]]
    /\ stream' = [stream EXCEPT ![p].down = Tail(@)]
    /\ UNCHANGED pod

LoadSpec(p) ==
    /\ proxy[p].half
    /\ proxy' = [proxy EXCEPT ![p] = [Load(@) EXCEPT !.half = FALSE, !.serving = TRUE]]
    /\ pod' = [pod EXCEPT ![p].ready = (pod[p].phase = "running")]
    /\ UNCHANGED stream

(* send: woken by a report trigger or its timer, the sender reports a      *)
(* status that differs from the last one it sent on this stream.           *)
SendStatus(p) ==
    LET s == GetStatus(proxy[p]) IN
    /\ proxy[p].up /\ proxy[p].serving /\ stream[p].state # "closed"
    /\ s # NoMeta /\ s # proxy[p].prev
    /\ stream' = [stream EXCEPT ![p].up = Append(@, s)]
    /\ proxy' = [proxy EXCEPT ![p].prev = s]
    /\ UNCHANGED pod

(* UpdateLeaderElection: the workload behind a serving proxy wins the      *)
(* election.  It loses it only with its process.                           *)
UpdateLeaderElection(p) ==
    /\ proxy[p].up /\ proxy[p].serving
    /\ \A q \in Pod : ~ proxy[q].lead
    /\ proxy' = [proxy EXCEPT ![p].lead = TRUE]
    /\ UNCHANGED <<pod, stream>>

(* The process dies.  The files survive it only if /ctrlmesh outlives the  *)
(* container.                                                              *)
CrashProxy(p, keep) ==
    /\ proxy[p].up
    /\ proxy' = [proxy EXCEPT ![p] =
                    IF keep THEN [DownProxy EXCEPT !.expectedFile = proxy[p].expectedFile,
                                                   !.currentFile = proxy[p].currentFile]
                            ELSE DownProxy]
    /\ stream' = [stream EXCEPT ![p] = Closed]
    /\ pod' = [pod EXCEPT ![p].ready = FALSE]
=============================================================================
