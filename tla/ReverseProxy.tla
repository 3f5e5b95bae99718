---------------------------- MODULE ReverseProxy ----------------------------
(***************************************************************************)
(* The reverse proxy (pkg/utils/http) that both request servers of         *)
(* ctrlmesh-proxy answer with, and the pool of buffers (pkg/utils/pool)    *)
(* its copies share.  A response is copied chunk by chunk through a        *)
(* maxLatencyWriter, whose timer flushes what was written from a goroutine *)
(* of its own; a switch of protocols is copied by two goroutines, one in   *)
(* each direction.  Chunks are counted, not named.                         *)
(***************************************************************************)
EXTENDS Integers, FiniteSets

CONSTANTS
    Request,     \* the requests under way at a time
    PoolSize,    \* the capacity of the buffer pool; 1000 in the code
    MaxChunks,   \* how many chunks a response has at most
    Nil

(* A pool without room would not be one, and Nil is no buffer.             *)
ASSUME PoolAssumption ==
    /\ IsFiniteSet(Request) /\ PoolSize \in Nat \ {0} /\ MaxChunks \in Nat
    /\ Nil \notin 1 .. Cardinality(Request) + PoolSize

VARIABLES
    transfer,    \* transfer[r]: how far the answer to r is
    pool         \* the free buffers

Buffers == 1 .. Cardinality(Request) + PoolSize
Directions == {"toBackend", "fromBackend"}

NoTransfer ==
    [pc |-> "idle", asked |-> FALSE, pooled |-> FALSE, latency |-> "late", buffer |-> Nil, held |-> 0, left |-> 0,
     pending |-> FALSE, timer |-> "off", cancelled |-> FALSE, touched |-> FALSE,
     copier |-> [d \in Directions |-> "none"], errc |-> 0, back |-> "none"]

ReverseInit == transfer = [r \in Request |-> NoTransfer] /\ pool = {}

Become(r, t) == transfer' = [transfer EXCEPT ![r] = t]
Now(r) == transfer[r]
(* Only the handler of the API server gives its ReverseProxy the pool.     *)
BeginTransfer(asked, pooled) == [NoTransfer EXCEPT !.pc = "roundtrip", !.asked = asked, !.pooled = pooled]

(* bytesPool: an empty pool makes a new buffer, a full one drops the old.  *)
InUse == pool \cup {Now(r).buffer : r \in Request}

(* Mutant: a buffer that is handed out stays in the pool.                  *)
MutGet(b) ==
    /\ UNCHANGED pool
    /\ IF pool = {} THEN b = (CHOOSE c \in Buffers \ InUse : TRUE) ELSE b \in pool

Get(b) ==
    IF pool = {} THEN b = (CHOOSE c \in Buffers \ InUse : TRUE) /\ UNCHANGED pool
    ELSE b \in pool /\ pool' = pool \ {b}

Put(b) == pool' = IF b # Nil /\ Cardinality(pool) < PoolSize THEN pool \cup {b} ELSE pool

-----------------------------------------------------------------------------
(* ServeHTTP up to the body: the backend is unreachable, ModifyResponse    *)
(* fails or the backend switches to a protocol nobody asked for, and the   *)
(* client gets a 502; or the backend answers, or it switches protocols.    *)
Unreachable(r) ==
    /\ Now(r).pc = "roundtrip"
    /\ Become(r, [Now(r) EXCEPT !.pc = "done"])
    /\ UNCHANGED pool

(* flushInterval, and the start of copyResponse: an event stream or a body *)
(* of unknown length is flushed at once; the header waits for the first    *)
(* flush, for which the timer is set.                                      *)
RespondHeader(r, latency, chunks) ==
    /\ Now(r).pc = "roundtrip"
    /\ \E b \in Buffers \cup {Nil} :
         /\ IF Now(r).pooled THEN Get(b) ELSE b = Nil /\ UNCHANGED pool
         /\ Become(r, [Now(r) EXCEPT !.pc = "copy", !.latency = latency, !.buffer = b, !.held = 1,
                                     !.left = chunks, !.pending = TRUE, !.timer = "armed"])

(* copyBuffer and maxLatencyWriter.Write.                                  *)
Write(t) ==
    LET u == [t EXCEPT !.held = @ + 1, !.left = @ - 1]
    IN  IF t.latency = "now" THEN [u EXCEPT !.held = 0]
        ELSE IF t.pending THEN u
        ELSE [u EXCEPT !.timer = "armed", !.pending = TRUE]

CopyChunk(r) ==
    /\ Now(r).pc = "copy" /\ Now(r).left > 0
    /\ Become(r, Write(Now(r)))
    /\ UNCHANGED pool

(* stop, after the buffer went back, and the return of the handler, which  *)
(* makes the server flush the rest; an abort drops it.                     *)
(* Mutant: the flush that is pending is not called off.                    *)
MutStop(t) == [t EXCEPT !.timer = IF @ = "armed" THEN "off" ELSE @]

stop(t) == [t EXCEPT !.pending = FALSE, !.timer = IF @ = "armed" THEN "off" ELSE @]

FinishCopy(r) ==
    /\ Now(r).pc = "copy" /\ Now(r).left = 0
    /\ Put(Now(r).buffer)
    /\ Become(r, [stop(Now(r)) EXCEPT !.pc = "done", !.buffer = Nil, !.held = 0, !.left = 0])

(* The backend or the client breaks off in the middle of the body.         *)
CopyFails(r) ==
    /\ Now(r).pc = "copy"
    /\ Put(Now(r).buffer)
    /\ Become(r, [stop(Now(r)) EXCEPT !.pc = "done", !.buffer = Nil, !.held = 0, !.left = 0])

(* The client goes away: the context of the request is cancelled, which    *)
(* ends the read of the body and closes the backend of an upgrade.         *)
Cancel(r) ==
    /\ Now(r).pc \in {"copy", "upgraded"} /\ ~ Now(r).cancelled
    /\ Become(r, [Now(r) EXCEPT !.cancelled = TRUE])
    /\ UNCHANGED pool

(* The goroutine of the timer: it starts, and then takes the lock.         *)
TimerFires(r) ==
    /\ Now(r).timer = "armed"
    /\ Become(r, [Now(r) EXCEPT !.timer = "fired"])
    /\ UNCHANGED pool

(* Mutant: the flag stays set, so later writes do not set the timer again. *)
MutDelayedFlush(t) ==
    IF ~ t.pending THEN [t EXCEPT !.timer = "off"]
    ELSE [t EXCEPT !.timer = "off", !.held = 0, !.touched = @ \/ t.pc # "copy"]

delayedFlush(t) ==
    IF ~ t.pending THEN [t EXCEPT !.timer = "off"]
    ELSE [t EXCEPT !.timer = "off", !.held = 0, !.pending = FALSE, !.touched = @ \/ t.pc # "copy"]

DelayedFlush(r) ==
    /\ Now(r).timer = "fired"
    /\ Become(r, delayedFlush(Now(r)))
    /\ UNCHANGED pool

-----------------------------------------------------------------------------
(* handleUpgradeResponse: if the client asked for it, the headers are      *)
(* passed on over the hijacked connection, and then two copiers run until  *)
(* one has ended.                                                          *)
SwitchProtocols(r) ==
    /\ Now(r).pc = "roundtrip" /\ Now(r).asked
    /\ Become(r, [Now(r) EXCEPT !.pc = "upgraded", !.back = "open", !.copier = [d \in Directions |-> "run"]])
    /\ UNCHANGED pool

(* Hijack fails, or a write of the headers: the client gets a 502.         *)
RefuseSwitch(r) ==
    /\ Now(r).pc = "roundtrip" /\ Now(r).asked
    /\ Become(r, [Now(r) EXCEPT !.pc = "done", !.back = "open"])
    /\ UNCHANGED pool

(* io.Copy ends when a peer closes; both connections close with the        *)
(* handler, whose goroutine also closes the backend of a cancelled request.*)
CopierEnds(r, d) ==
    /\ Now(r).copier[d] = "run"
    /\ Become(r, [Now(r) EXCEPT !.copier[d] = "send"])
    /\ UNCHANGED pool

CloseBackend(r) ==
    /\ Now(r).back = "open" /\ (Now(r).cancelled \/ Now(r).pc = "done")
    /\ Become(r, [Now(r) EXCEPT !.back = "closed"])
    /\ UNCHANGED pool

(* Mutant: errc has no buffer, so a send needs the handler to receive.     *)
MutErrcTakes(t) == t.errc = 0 /\ t.pc = "upgraded"

(* errc has room for one.                                                  *)
ErrcTakes(t) == t.errc = 0

CopierSends(r, d) ==
    /\ Now(r).copier[d] = "send" /\ ErrcTakes(Now(r))
    /\ Become(r, [Now(r) EXCEPT !.copier[d] = "gone", !.errc = 1])
    /\ UNCHANGED pool

EndUpgrade(r) ==
    /\ Now(r).pc = "upgraded" /\ Now(r).errc = 1
    /\ Become(r, [Now(r) EXCEPT !.pc = "done", !.errc = 0])
    /\ UNCHANGED pool

(* What the handler and its goroutines do without being asked.             *)
Goroutines(r) ==
    \/ TimerFires(r) \/ DelayedFlush(r) \/ CloseBackend(r) \/ EndUpgrade(r)
    \/ Now(r).cancelled /\ CopyFails(r)
    \/ \E d \in Directions : CopierSends(r, d) \/ (Now(r).pc = "done" /\ CopierEnds(r, d))

(* What the backend and the client may do: a backend may stall for ever.   *)
Peers(r) ==
    \/ CopyChunk(r) \/ FinishCopy(r)
    \/ Unreachable(r) \/ CopyFails(r) \/ Cancel(r) \/ SwitchProtocols(r) \/ RefuseSwitch(r)
    \/ \E latency \in {"now", "late"}, chunks \in 0 .. MaxChunks : RespondHeader(r, latency, chunks)
    \/ \E d \in Directions : CopierEnds(r, d)

(* Everything that was started for the request has ended.                  *)
Ended(r) ==
    /\ Now(r).pc = "done" /\ Now(r).timer = "off" /\ Now(r).back # "open"
    /\ \A d \in Directions : Now(r).copier[d] \in {"none", "gone"}

-----------------------------------------------------------------------------
(* No two copies share a buffer, and none is in the pool while it is used. *)
BuffersExclusive ==
    \A r \in Request : Now(r).buffer # Nil =>
        /\ Now(r).buffer \notin pool
        /\ \A s \in Request \ {r} : Now(s).buffer # Now(r).buffer

(* The timer's goroutine never flushes a response whose handler returned.  *)
NoLateFlush == \A r \in Request : ~ Now(r).touched

(* What was written reaches the client even if no more is written.         *)
Flushed == \A r \in Request : Now(r).held > 0 ~> Now(r).held = 0

(* The goroutines of a request end once its handler has returned, if not   *)
(* with the process.                                                       *)
NothingLeaks == \A r \in Request : Now(r).pc = "done" ~> Ended(r) \/ Now(r) = NoTransfer
=============================================================================
