------------------------ MODULE CircuitBreakerProofs ------------------------
(***************************************************************************)
(* Proofs about CircuitBreaker, for all sets of breakers, rules, requests  *)
(* and state objects and all windows.                                      *)
(*                                                                         *)
(* First the store: TypeOK and StoreConsistent are proved together, for a  *)
(* request takes a rule and a state out of the store with no check for nil *)
(* and only StoreConsistent says there is none.                            *)
(*                                                                         *)
(* Then StoreMatchesConfig, which says what the store holds when no Sync   *)
(* call is under way.  SyncInv says what it holds in between: every key is *)
(* as the part of the configuration Sync is through with gives it, or Sync *)
(* has still to unregister it.                                             *)
(*                                                                         *)
(* Then the recovery lease: OneTimerPerKey and QueueShape.  The inductive  *)
(* invariant LeaseInv adds what makes the two preserved: a key orphaned by *)
(* a panic is still in stateSet (so it is never registered again), and     *)
(* lease.mu admits one registration at a time between its two reads of     *)
(* recoverAt.                                                              *)
(*                                                                         *)
(* Last TimerNotLate.  Its invariant TimerInv follows the window of a      *)
(* state object through the store and the hands of requests (WindowInv):   *)
(* every deadline and timer of the object was set with that window.        *)
(***************************************************************************)
EXTENDS CircuitBreaker, TLAPS

StoreInv == TypeOK /\ StoreConsistent

USE NilAssumption

(* NoEntry is not an entry.                                                *)
LEMMA NoEntryFact == NoEntry \notin Entry
  BY Zenon DEF NoEntry, Entry

(* What a state object's methods return is a state object, with its key.   *)
LEMMA StateMethods ==
    ASSUME NEW o \in [key : Key, state : {"OPENED", "CLOSED"}, recoverAt : Ticks], NEW w \in 0..MaxWindow
    PROVE  /\ triggerBreaker(o) \in [key : Key, state : {"OPENED", "CLOSED"}, recoverAt : Ticks]
           /\ triggerBreakerWithTimeWindow(o, w) \in [key : Key, state : {"OPENED", "CLOSED"}, recoverAt : Ticks]
           /\ recoverBreaker(o) \in [key : Key, state : {"OPENED", "CLOSED"}, recoverAt : Ticks]
           /\ triggerBreaker(o).key = o.key
           /\ triggerBreakerWithTimeWindow(o, w).key = o.key
           /\ recoverBreaker(o).key = o.key
  BY Zenon DEF triggerBreaker, triggerBreakerWithTimeWindow, recoverBreaker, Ticks, NoTime

(* What the operations of the queue return is a queue.                     *)
Queue == [waiting : [StateId -> Ticks], dirty : SUBSET StateId, queue : Seq(StateId), processing : SUBSET StateId]

(* The methods of the work queue yield well-typed queues.                  *)
LEMMA QueueMethods ==
    ASSUME NEW q \in Queue, NEW x \in StateId, NEW d \in Ticks
    PROVE  /\ Add(q, x) \in Queue
           /\ AddAfter(q, x, d) \in Queue
           /\ Fire(q, x) \in Queue
           /\ Done(q, x) \in Queue
<1>1. ASSUME NEW p \in Queue PROVE Add(p, x) \in Queue
  <2>1. CASE x \in p.dirty
    BY Zenon, <1>1, <2>1 DEF Add
  <2>2. CASE x \notin p.dirty
    <3>1. (IF x \in p.processing THEN p.queue ELSE Append(p.queue, x)) \in Seq(StateId)
      BY <1>1 DEF Queue
    <3> QED
      BY Zenon, <1>1, <2>2, <3>1 DEF Add, Queue
  <2> QED
    BY Zenon, <2>1, <2>2
<1>2. AddAfter(q, x, d) \in Queue
  BY Zenon, <1>1 DEF AddAfter, Queue, Ticks, NoTime
<1>3. Fire(q, x) \in Queue
  <2>1. [q EXCEPT !.waiting[x] = NoTime] \in Queue
    BY Zenon DEF Queue, Ticks, NoTime
  <2> QED
    BY Zenon, <2>1, <1>1 DEF Fire
<1>4. Done(q, x) \in Queue
  <2>1. (IF x \in q.dirty THEN Append(q.queue, x) ELSE q.queue) \in Seq(StateId)
    BY DEF Queue
  <2> QED
    BY Zenon, <2>1 DEF Done, Queue
<1> QED
  BY Zenon, <1>1, <1>2, <1>3, <1>4

(* So do the passage of time and Get, which returns a state object.        *)
LEMMA QueueMoves ==
    ASSUME NEW q \in Queue
    PROVE  /\ Elapse(q) \in Queue
           /\ q.queue # <<>> => Get(q) \in Queue /\ Head(q.queue) \in StateId
<1>1. Elapse(q) \in Queue
  BY WindowAssumption DEF Elapse, Queue, Elapsed, Ticks, NoTime
<1>2. q.queue # <<>> => Get(q) \in Queue /\ Head(q.queue) \in StateId
  <2>1. q.queue \in Seq(StateId)
    BY Zenon DEF Queue
  <2>2. q.queue # <<>> => Tail(q.queue) \in Seq(StateId) /\ Head(q.queue) \in StateId
    BY <2>1
  <2> QED
    BY Zenon, <2>2 DEF Get, Queue
<1> QED
  BY Zenon, <1>1, <1>2

(* A request that is given a well-formed record stays well-typed.          *)
LEMMA ReqUpdate ==
    ASSUME ReqType, NEW r \in Request, NEW q \in ReqRecord, req' = [req EXCEPT ![r] = q]
    PROVE  ReqType'
  BY Zenon DEF ReqType

(* Going on to the next rule, with the verdict changed or not.             *)
LEMMA ProceedType ==
    ASSUME NEW q \in ReqRecord, NEW a \in BOOLEAN
    PROVE  /\ IdleReq \in ReqRecord
           /\ Proceed(q) \in ReqRecord
           /\ Proceed([q EXCEPT !.allowed = a]) \in ReqRecord
<1>1. IdleReq \in ReqRecord
  BY NoEntryFact DEF ReqRecord, IdleReq, Handling
<1>2. Proceed(q) \in ReqRecord
  BY Zenon, NoEntryFact DEF ReqRecord, Proceed, Handling
<1>3. [q EXCEPT !.allowed = a] \in ReqRecord
  BY Zenon DEF ReqRecord
<1>4. Proceed([q EXCEPT !.allowed = a]) \in ReqRecord
  BY Zenon, <1>3, NoEntryFact DEF ReqRecord, Proceed, Handling
<1> QED
  BY Zenon, <1>1, <1>2, <1>4

(* A step that leaves the store's maps and the keys of the state objects   *)
(* alone leaves the store consistent.                                      *)
LEMMA StoreKept ==
    ASSUME StoreInv, UNCHANGED <<rules, states, indices>>, \A st \in StateId : heap'[st].key = heap[st].key
    PROVE  StoreConsistent'
  BY Zenon DEF StoreInv, TypeOK, StoreType, StoreConsistent

(* Closing or opening one state object keeps the heap well-typed and every *)
(* key what it was.                                                        *)
LEMMA HeapUpdate ==
    ASSUME HeapType, NEW x \in StateId, NEW o \in [key : Key, state : {"OPENED", "CLOSED"}, recoverAt : Ticks],
           o.key = heap[x].key, heap' = [heap EXCEPT ![x] = o]
    PROVE  HeapType' /\ \A st \in StateId : heap'[st].key = heap[st].key
  BY Zenon DEF HeapType

(* The requests that only look: they change nothing but themselves.        *)
LEMMA LookingSteps ==
    ASSUME StoreInv, NEW r \in Request,
           (\E seeds \in Lookup : Start(r, seeds)) \/ LookUp(r) \/ PickRule(r) \/ Normal(r) \/ Return(r) \/ RegisterState(r)
    PROVE  StoreInv'
<1> USE DEF StoreInv, TypeOK
<1>0. req[r] \in ReqRecord
  BY Zenon DEF ReqType
<1>1. SUFFICES /\ ReqType'
               /\ UNCHANGED <<store, heap, lease, loop, sync>>
  BY Zenon, StoreKept DEF StoreType, HeapType, LeaseType, LoopType, SyncType, store, lease
<1>2. CASE \E seeds \in Lookup : Start(r, seeds)
  <2> PICK seeds \in Lookup : Start(r, seeds)
    BY Zenon, <1>2
  <2>1. [req[r] EXCEPT !.pc = "lookup", !.seeds = seeds] \in ReqRecord
    BY Zenon, <1>0, LookupAssumption DEF Start, ReqRecord, Handling
  <2> QED
    BY Zenon, <2>1, ReqUpdate DEF Start, ReqType
<1>3. CASE LookUp(r)
  <2>1. req[r].pc = "lookup" /\ req[r].seeds \in Seq(Seed) /\ req[r].seeds # <<>>
    BY Zenon, <1>0, <1>3 DEF LookUp, ReqRecord
  <2> DEFINE found == byIndex(Head(req[r].seeds))
             rest == Tail(req[r].seeds)
  <2>2. rest \in Seq(Seed) /\ Head(req[r].seeds) \in Seed
    BY <2>1
  <2>3. found \subseteq Entry
    BY <2>2 DEF byIndex, Entry, StoreConsistent, StoreType
  <2> HIDE DEF found, rest
  <2>4. [req[r] EXCEPT !.pc = "next", !.seeds = <<>>, !.todo = found] \in ReqRecord
    <3> DEFINE empty == <<>>
    <3>1. empty \in Seq(Seed)
      OBVIOUS
    <3> HIDE DEF empty
    <3>2. [req[r] EXCEPT !.pc = "next", !.seeds = empty, !.todo = found] \in ReqRecord
      BY Zenon, <1>0, <2>1, <2>3, <3>1 DEF ReqRecord, Handling
    <3> QED
      BY Zenon, <3>2 DEF empty
  <2>5. rest # <<>> => [req[r] EXCEPT !.seeds = rest] \in ReqRecord
    BY Zenon, <1>0, <2>1, <2>2 DEF ReqRecord, Handling
  <2>6. \/ req' = [req EXCEPT ![r] = [req[r] EXCEPT !.pc = "next", !.seeds = <<>>, !.todo = found]]
        \/ rest # <<>> /\ req' = [req EXCEPT ![r] = [req[r] EXCEPT !.seeds = rest]]
        \/ req' = [req EXCEPT ![r] = IdleReq]
    BY Zenon, <1>3 DEF LookUp, found, rest, ReqType
  <2> QED
    BY Zenon, <1>0, <1>3, <2>4, <2>5, <2>6, ReqUpdate, ProceedType DEF LookUp
<1>4. CASE PickRule(r)
  <2>1. PICK e \in req[r].todo :
            req' = [req EXCEPT ![r].todo = @ \ {e}, ![r].cur = e, ![r].pc = "policy",
                               ![r].allowed = @ /\ ~Opened(e.st)]
    BY Zenon, <1>4 DEF PickRule
  <2>2. [req[r] EXCEPT !.todo = @ \ {e}, !.cur = e, !.pc = "policy", !.allowed = @ /\ ~Opened(e.st)] \in ReqRecord
    BY Zenon, <1>0, <2>1 DEF ReqRecord, Handling
  <2> QED
    BY Zenon, <1>4, <2>1, <2>2, ReqUpdate DEF PickRule, ReqType
<1>5. CASE Normal(r)
  <2>1. ASSUME NEW allow \in BOOLEAN
        PROVE  [req[r] EXCEPT !.pc = IF allow THEN "reset" ELSE "trigger", !.allowed = @ /\ allow] \in ReqRecord
    BY Zenon, <1>0, <1>5 DEF ReqRecord, Handling, Normal
  <2>2. \/ req' = [req EXCEPT ![r] = Proceed(req[r])]
        \/ \E allow \in BOOLEAN :
              req' = [req EXCEPT ![r] = [req[r] EXCEPT !.pc = IF allow THEN "reset" ELSE "trigger",
                                                       !.allowed = @ /\ allow]]
    BY Zenon, <1>5 DEF Normal, ReqType
  <2> QED
    BY Zenon, <1>0, <1>5, <2>1, <2>2, ReqUpdate, ProceedType DEF Normal
<1>6. CASE Return(r)
  BY Zenon, <1>0, <1>6, ReqUpdate, ProceedType DEF Return
<1>7. CASE RegisterState(r)
  <2>1. [req[r] EXCEPT !.pc = "insert"] \in ReqRecord
    BY Zenon, <1>0, <1>7 DEF ReqRecord, Handling, RegisterState
  <2> QED
    BY Zenon, <1>0, <1>7, <2>1, ReqUpdate, ProceedType DEF RegisterState
<1> QED
  BY Zenon, <1>2, <1>3, <1>4, <1>5, <1>6, <1>7

(* The requests that open or close the state object they hold.             *)
LEMMA SwitchingSteps ==
    ASSUME StoreInv, NEW r \in Request,
           ForceOpened(r) \/ ForceClosed(r) \/ LimiterOnly(r) \/ Reset(r) \/ Trigger(r)
    PROVE  StoreInv'
<1> USE DEF StoreInv, TypeOK
<1> DEFINE st == req[r].cur.st
           Object == [key : Key, state : {"OPENED", "CLOSED"}, recoverAt : Ticks]
<1>0. /\ req[r] \in ReqRecord
      /\ req[r].cur \in Entry
      /\ st \in StateId
      /\ heap[st] \in Object
      /\ req[r].cur.rule.window \in 0..MaxWindow
  <2>1. req[r] \in ReqRecord
    BY Zenon DEF ReqType
  <2>2. req[r].cur \in Entry
    BY Zenon, <2>1 DEF ForceOpened, ForceClosed, LimiterOnly, Reset, Trigger, ReqRecord, Handling
  <2>3. st \in StateId /\ req[r].cur.rule \in Rule
    BY Zenon, <2>2 DEF Entry
  <2> QED
    BY Zenon, <2>1, <2>2, <2>3 DEF HeapType, Rule
<1>1. SUFFICES /\ ReqType'
               /\ HeapType'
               /\ \A x \in StateId : heap'[x].key = heap[x].key
               /\ UNCHANGED <<store, lease, loop, sync>>
  BY Zenon, StoreKept DEF StoreType, LeaseType, LoopType, SyncType, store, lease
<1>2. /\ UNCHANGED <<store, lease, loop, sync>>
      /\ \/ heap' = heap
         \/ heap' = [heap EXCEPT ![st] = triggerBreaker(heap[st])]
         \/ heap' = [heap EXCEPT ![st] = triggerBreakerWithTimeWindow(heap[st], req[r].cur.rule.window)]
         \/ heap' = [heap EXCEPT ![st] = recoverBreaker(heap[st])]
  BY Zenon, <1>0 DEF ForceOpened, ForceClosed, LimiterOnly, Reset, Trigger, HeapType
<1>3. HeapType' /\ \A x \in StateId : heap'[x].key = heap[x].key
  <2> HIDE DEF st
  <2>1. CASE heap' = heap
    BY Zenon, <2>1 DEF HeapType
  <2>2. CASE heap' = [heap EXCEPT ![st] = triggerBreaker(heap[st])]
    BY Zenon, <1>0, <2>2, StateMethods, HeapUpdate
  <2>3. CASE heap' = [heap EXCEPT ![st] = triggerBreakerWithTimeWindow(heap[st], req[r].cur.rule.window)]
    <3>1. /\ triggerBreakerWithTimeWindow(heap[st], req[r].cur.rule.window) \in Object
          /\ triggerBreakerWithTimeWindow(heap[st], req[r].cur.rule.window).key = heap[st].key
      BY Zenon, <1>0, StateMethods
    <3> QED
      BY Zenon, <1>0, <2>3, <3>1, HeapUpdate
  <2>4. CASE heap' = [heap EXCEPT ![st] = recoverBreaker(heap[st])]
    BY Zenon, <1>0, <2>4, StateMethods, HeapUpdate
  <2> QED
    BY Zenon, <1>2, <2>1, <2>2, <2>3, <2>4
<1>4. ReqType'
  <2>1. CASE ForceOpened(r)
    BY Zenon, <1>0, <2>1, ProceedType, ReqUpdate DEF ForceOpened
  <2>2. CASE ForceClosed(r)
    BY Zenon, <1>0, <2>2, ProceedType, ReqUpdate DEF ForceClosed
  <2>3. CASE LimiterOnly(r)
    <3>1. PICK allow \in BOOLEAN :
              req' = [req EXCEPT ![r] = Proceed([req[r] EXCEPT !.allowed = req[r].allowed /\ allow])]
      BY Zenon, <2>3 DEF LimiterOnly
    <3>2. (req[r].allowed /\ allow) \in BOOLEAN
      BY Zenon
    <3> QED
      BY Zenon, <1>0, <3>1, <3>2, ProceedType, ReqUpdate
  <2>4. CASE Reset(r)
    BY Zenon, <1>0, <2>4, ProceedType, ReqUpdate DEF Reset
  <2>5. CASE Trigger(r)
    <3>1. [req[r] EXCEPT !.pc = "register"] \in ReqRecord
      BY Zenon, <1>0, <2>5 DEF ReqRecord, Handling, Trigger
    <3>2. \/ req' = [req EXCEPT ![r] = [req[r] EXCEPT !.pc = "register"]]
          \/ req' = [req EXCEPT ![r] = Proceed(req[r])]
          \/ req' = [req EXCEPT ![r] = IdleReq]
      BY Zenon, <2>5 DEF Trigger, ReqType
    <3> QED
      BY Zenon, <1>0, <3>1, <3>2, ProceedType, ReqUpdate
  <2> QED
    BY Zenon, <2>1, <2>2, <2>3, <2>4, <2>5
<1> QED
  BY Zenon, <1>2, <1>3, <1>4

(* The steps of a registration and of processingLoop.                      *)
LEMMA LeaseSteps ==
    ASSUME StoreInv,
           \/ \E r \in Request : InsertState(r) \/ AddStateAfter(r)
           \/ LoopStep \/ (\E x \in StateId : TimerFires(x)) \/ Tick
    PROVE  StoreInv'
<1> USE DEF StoreInv, TypeOK
<1>0. stateQueue \in Queue /\ NoTime \in Ticks
  BY Zenon DEF LeaseType, Queue, Ticks
<1>1. ASSUME NEW r \in Request, InsertState(r) PROVE StoreInv'
  <2>1. req[r] \in ReqRecord /\ req[r].cur \in Entry /\ req[r].cur.st \in StateId
    BY Zenon, <1>1 DEF InsertState, ReqType, ReqRecord, Handling, Entry
  <2>2. [req[r] EXCEPT !.pc = "addAfter"] \in ReqRecord
    BY Zenon, <1>1, <2>1 DEF InsertState, ReqRecord, Handling
  <2>3. ReqType'
    BY Zenon, <1>1, <2>1, <2>2, ProceedType, ReqUpdate DEF InsertState
  <2>4. LeaseType'
    BY Zenon, <1>1, <2>1 DEF InsertState, LeaseType, HeapType
  <2> QED
    BY Zenon, <1>1, <2>3, <2>4, StoreKept DEF InsertState, store, StoreType, HeapType, LoopType, SyncType
<1>2. ASSUME NEW r \in Request, AddStateAfter(r) PROVE StoreInv'
  <2>1. req[r] \in ReqRecord /\ req[r].cur \in Entry /\ req[r].cur.st \in StateId
    BY Zenon, <1>2 DEF AddStateAfter, ReqType, ReqRecord, Handling, Entry
  <2>2. heap[req[r].cur.st].key \in Key /\ heap[req[r].cur.st].recoverAt \in Ticks
    BY Zenon, <2>1 DEF HeapType
  <2>3. ReqType'
    BY Zenon, <1>2, <2>1, ProceedType, ReqUpdate DEF AddStateAfter
  <2>4. stateQueue' \in Queue /\ orphaned' \subseteq Key
    <3>1. AddAfter(stateQueue, req[r].cur.st, heap[req[r].cur.st].recoverAt) \in Queue
      BY Zenon, <1>0, <2>1, <2>2, QueueMethods
    <3> QED
      BY Zenon, <1>0, <1>2, <2>2, <3>1 DEF AddStateAfter, LeaseType
  <2> QED
    BY Zenon, <1>2, <2>3, <2>4, StoreKept DEF AddStateAfter, store, StoreType, HeapType, LeaseType, LoopType, SyncType, Queue
<1>3. CASE LoopGet
  <2>1. stateQueue' \in Queue /\ Head(stateQueue.queue) \in StateId
    BY Zenon, <1>0, <1>3, QueueMoves DEF LoopGet
  <2>2. LoopType'
    BY Zenon, <1>3, <2>1 DEF LoopGet, LoopType
  <2> QED
    BY Zenon, <1>3, <2>1, <2>2, StoreKept DEF LoopGet, store, StoreType, HeapType, LeaseType, SyncType, ReqType, Queue
<1>4. CASE LoopRead
  <2>1. LoopType'
    BY Zenon, <1>4 DEF LoopRead, LoopType, HeapType
  <2> QED
    BY Zenon, <1>4, <2>1, StoreKept DEF LoopRead, store, lease, StoreType, HeapType, LeaseType, SyncType, ReqType
<1>5. CASE LoopRequeue
  <2>1. loop.st \in StateId /\ loop.at \in Ticks
    BY Zenon, <1>5 DEF LoopRequeue, LoopType
  <2>2. stateQueue' \in Queue
    BY Zenon, <1>0, <1>5, <2>1, QueueMethods DEF LoopRequeue
  <2>3. LoopType'
    BY Zenon, <1>5, <2>1 DEF LoopRequeue, LoopType, Ticks
  <2> QED
    BY Zenon, <1>5, <2>2, <2>3, StoreKept DEF LoopRequeue, store, StoreType, HeapType, LeaseType, SyncType, ReqType, Queue
<1>6. CASE LoopDelete
  <2>1. LoopType' /\ LeaseType'
    BY Zenon, <1>6 DEF LoopDelete, LoopType, LeaseType
  <2> QED
    BY Zenon, <1>6, <2>1, StoreKept DEF LoopDelete, store, StoreType, HeapType, SyncType, ReqType
<1>7. CASE LoopRecover
  <2>1. loop.st \in StateId
    BY Zenon, <1>7 DEF LoopRecover, LoopType
  <2>2. heap' = [heap EXCEPT ![loop.st] = recoverBreaker(heap[loop.st])]
    BY Zenon, <1>7 DEF LoopRecover
  <2>3. HeapType' /\ \A st \in StateId : heap'[st].key = heap[st].key
    <3>1. heap[loop.st] \in [key : Key, state : {"OPENED", "CLOSED"}, recoverAt : Ticks]
      BY Zenon, <2>1 DEF HeapType
    <3>2. 0 \in 0..MaxWindow
      BY WindowAssumption
    <3> QED
      BY Zenon, <2>1, <2>2, <3>1, <3>2, StateMethods, HeapUpdate
  <2>4. LoopType'
    BY Zenon, <1>7 DEF LoopRecover, LoopType
  <2> QED
    BY Zenon, <1>7, <2>3, <2>4, StoreKept DEF LoopRecover, store, lease, StoreType, LeaseType, SyncType, ReqType
<1>8. CASE LoopDone
  <2>1. loop.st \in StateId
    BY Zenon, <1>8 DEF LoopDone, LoopType
  <2>2. stateQueue' \in Queue
    BY Zenon, <1>0, <1>8, <2>1, QueueMethods DEF LoopDone
  <2>3. LoopType'
    BY Zenon, <1>8 DEF LoopDone, LoopType, IdleLoop, Ticks
  <2> QED
    BY Zenon, <1>8, <2>2, <2>3, StoreKept DEF LoopDone, store, StoreType, HeapType, LeaseType, SyncType, ReqType, Queue
<1>9. ASSUME NEW x \in StateId, TimerFires(x) PROVE StoreInv'
  <2>1. stateQueue' \in Queue
    BY Zenon, <1>0, <1>9, QueueMethods DEF TimerFires
  <2> QED
    BY Zenon, <1>9, <2>1, StoreKept DEF TimerFires, store, StoreType, HeapType, LeaseType, LoopType, SyncType, ReqType, Queue
<1>10. CASE Tick
  <2>1. stateQueue' \in Queue
    BY Zenon, <1>0, <1>10, QueueMoves DEF Tick
  <2>2. ASSUME NEW t \in Ticks PROVE Elapsed(t) \in Ticks
    BY WindowAssumption, <2>2 DEF Elapsed, Ticks, NoTime
  <2>3. HeapType' /\ \A st \in StateId : heap'[st].key = heap[st].key
    BY Zenon, <1>10, <2>2 DEF Tick, HeapType
  <2>4. LoopType'
    BY Zenon, <1>10, <2>2 DEF Tick, LoopType
  <2> QED
    BY Zenon, <1>10, <2>1, <2>3, <2>4, StoreKept DEF Tick, store, StoreType, LeaseType, SyncType, ReqType, Queue
<1> QED
  BY Zenon, <1>1, <1>2, <1>3, <1>4, <1>5, <1>6, <1>7, <1>8, <1>9, <1>10 DEF LoopStep

(* The keys and rules of a configuration.                                  *)
LEMMA ConfigKeys ==
    ASSUME NEW c \in Config
    PROVE  c.name \in Breaker /\ Keys(c) \in Seq(Key) /\ KeyedRules(c) \in Seq([key : Key, rule : Rule])
<1>1. /\ c.name \in Breaker
      /\ c.limitings \in Seq([name : Limiting, rule : Rule])
  BY Zenon, ConfigAssumption
<1>2. \A i \in 1..Len(c.limitings) : c.limitings[i].name \in Limiting /\ c.limitings[i].rule \in Rule
  <2> DEFINE S == [name : Limiting, rule : Rule]
  <2>1. c.limitings \in Seq(S)
    BY Zenon, <1>1
  <2> HIDE DEF S
  <2>2. \A i \in 1..Len(c.limitings) : c.limitings[i] \in S
    BY <2>1
  <2> QED
    BY Zenon, <2>2 DEF S
<1>3. \A i \in 1..Len(c.limitings) : <<c.name, c.limitings[i].name>> \in Key
  <2> SUFFICES ASSUME NEW i \in 1..Len(c.limitings)
               PROVE  <<c.name, c.limitings[i].name>> \in Key
    BY Zenon
  <2>1. c.limitings[i].name \in Limiting
    BY Zenon, <1>2
  <2> QED
    BY Zenon, <1>1, <2>1 DEF Key
<1>4. Len(c.limitings) \in Nat
  BY <1>1
<1> QED
  BY <1>1, <1>2, <1>3, <1>4 DEF Keys, KeyedRules

(* The steps of Sync.                                                      *)
LEMMA SyncSteps ==
    ASSUME StoreInv,
           \/ \E c \in Config : SyncUpdate(c) \/ SyncRecover(c)
           \/ (\E b \in Breaker : SyncDelete(b)) \/ SyncStep
    PROVE  StoreInv'
<1> USE DEF StoreInv, TypeOK
<1>1. ASSUME NEW c \in Config, SyncUpdate(c) PROVE StoreInv'
  <2>1. breakerMap[c.name] # NoConfig => Keys(breakerMap[c.name]) \in Seq(Key)
    BY Zenon, ConfigKeys DEF StoreType
  <2>2. SyncType'
    <3> DEFINE del == IF breakerMap[c.name] = NoConfig THEN <<>> ELSE Keys(breakerMap[c.name])
    <3>1. del \in Seq(Key)
      BY <2>1
    <3>2. KeyedRules(c) \in Seq([key : Key, rule : Rule])
      BY Zenon, ConfigKeys
    <3>3. sync' = [del |-> del, add |-> KeyedRules(c), rec |-> <<>>]
      BY Zenon, <1>1 DEF SyncUpdate
    <3> HIDE DEF del
    <3> QED
      BY <3>1, <3>2, <3>3 DEF SyncType
  <2>3. StoreType'
    BY Zenon, <1>1 DEF SyncUpdate, StoreType
  <2> QED
    BY Zenon, <1>1, <2>2, <2>3, StoreKept DEF SyncUpdate, lease, HeapType, LeaseType, LoopType, ReqType
<1>2. ASSUME NEW b \in Breaker, SyncDelete(b) PROVE StoreInv'
  <2>1. Keys(breakerMap[b]) \in Seq(Key)
    BY Zenon, <1>2, ConfigKeys DEF SyncDelete, StoreType
  <2>2. SyncType'
    BY Zenon, <1>2, <2>1 DEF SyncDelete, SyncType, IdleSync
  <2>3. StoreType'
    BY Zenon, <1>2 DEF SyncDelete, StoreType
  <2> QED
    BY Zenon, <1>2, <2>2, <2>3, StoreKept DEF SyncDelete, lease, HeapType, LeaseType, LoopType, ReqType
<1>3. ASSUME NEW c \in Config, SyncRecover(c) PROVE StoreInv'
  <2>1. SyncType'
    BY Zenon, <1>3, ConfigKeys DEF SyncRecover, SyncType, IdleSync
  <2> QED
    BY Zenon, <1>3, <2>1, StoreKept DEF SyncRecover, store, lease, StoreType, HeapType, LeaseType, LoopType, ReqType
<1>4. CASE UnregisterRule
  <2> DEFINE k == Head(sync.del)
  <2>1. k \in Key /\ Tail(sync.del) \in Seq(Key)
    BY <1>4 DEF UnregisterRule, SyncType
  <2> HIDE DEF k
  <2>2. /\ indices' = IF rules[k] = NoRule THEN indices ELSE deleteFromIndices(indices, rules[k], k)
        /\ rules' = [rules EXCEPT ![k] = NoRule]
        /\ states' = [states EXCEPT ![k] = NoState]
        /\ sync' = [sync EXCEPT !.del = Tail(sync.del)]
        /\ UNCHANGED <<breakerMap, heap, lease, loop, req>>
    BY Zenon, <1>4 DEF UnregisterRule, k
  <2>3. StoreType'
    BY Zenon, <2>1, <2>2 DEF StoreType, deleteFromIndices
  <2>4. SyncType'
    BY Zenon, <2>1, <2>2 DEF SyncType
  <2>5. StoreConsistent'
    <3>1. ASSUME NEW j \in Key
          PROVE  /\ rules'[j] = NoRule <=> states'[j] = NoState
                 /\ states'[j] # NoState => heap'[states'[j]].key = j
      BY Zenon, <2>1, <2>2 DEF StoreType, StoreConsistent
    <3>2. ASSUME NEW s \in Seed, NEW j \in Key
          PROVE  j \in indices'[s] <=> rules'[j] # NoRule /\ s \in rules'[j].seeds
      BY Zenon, <2>1, <2>2 DEF StoreType, StoreConsistent, deleteFromIndices
    <3> QED
      BY Zenon, <3>1, <3>2 DEF StoreConsistent
  <2> QED
    BY Zenon, <2>2, <2>3, <2>4, <2>5 DEF lease, HeapType, LeaseType, LoopType, ReqType
<1>5. CASE RegisterRule
  <2> DEFINE k == Head(sync.add).key
             rule == Head(sync.add).rule
  <2>1. k \in Key /\ rule \in Rule /\ Tail(sync.add) \in Seq([key : Key, rule : Rule])
    <3> DEFINE S == [key : Key, rule : Rule]
    <3>1. sync.add \in Seq(S) /\ sync.add # <<>>
      BY Zenon, <1>5 DEF RegisterRule, SyncType
    <3> HIDE DEF S
    <3>2. Head(sync.add) \in S /\ Tail(sync.add) \in Seq(S)
      BY <3>1
    <3> QED
      BY Zenon, <3>2 DEF S
  <2> HIDE DEF k, rule
  <2>2. /\ indices' = updateIndices(indices, rules[k], rule, k)
        /\ rules' = [rules EXCEPT ![k] = rule]
        /\ sync' = [sync EXCEPT !.add = Tail(sync.add)]
        /\ UNCHANGED <<breakerMap, lease, loop, req>>
    BY Zenon, <1>5 DEF RegisterRule, k, rule
  <2>3. \/ rules[k] # NoRule /\ UNCHANGED <<states, heap>>
        \/ /\ rules[k] = NoRule
           /\ \E st \in StateId : /\ ~Live(st)
                                  /\ states' = [states EXCEPT ![k] = st]
                                  /\ heap' = [heap EXCEPT ![st] = NewState(k)]
    BY Zenon, <1>5 DEF RegisterRule, k, rule
  <2>4. StoreType' /\ HeapType'
    <3>1. indices' \in [Seed -> SUBSET Key]
      BY Zenon, <2>1, <2>2 DEF StoreType, updateIndices, deleteFromIndices
    <3>2. rules' \in [Key -> Rule \cup {NoRule}]
      BY Zenon, <2>1, <2>2 DEF StoreType
    <3>3. states' \in [Key -> StateId \cup {NoState}]
      BY Zenon, <2>1, <2>3 DEF StoreType
    <3>4. NewState(k) \in [key : Key, state : {"OPENED", "CLOSED"}, recoverAt : Ticks]
      BY Zenon, <2>1 DEF NewState, Ticks
    <3>5. HeapType'
      BY Zenon, <2>3, <3>4 DEF HeapType
    <3> QED
      BY Zenon, <2>2, <3>1, <3>2, <3>3, <3>5 DEF StoreType
  <2>5. SyncType'
    BY Zenon, <2>1, <2>2 DEF SyncType
  <2>6. StoreConsistent'
    <3>1. ASSUME NEW j \in Key
          PROVE  /\ rules'[j] = NoRule <=> states'[j] = NoState
                 /\ states'[j] # NoState => heap'[states'[j]].key = j
      BY <2>1, <2>2, <2>3 DEF StoreType, HeapType, StoreConsistent, Live, NewState
    <3>2. ASSUME NEW s \in Seed, NEW j \in Key
          PROVE  j \in indices'[s] <=> rules'[j] # NoRule /\ s \in rules'[j].seeds
      BY Zenon, <2>1, <2>2 DEF StoreType, StoreConsistent, updateIndices, deleteFromIndices
    <3> QED
      BY Zenon, <3>1, <3>2 DEF StoreConsistent
  <2> QED
    BY Zenon, <2>2, <2>4, <2>5, <2>6 DEF lease, LeaseType, LoopType, ReqType
<1>6. CASE RecoverRule
  <2> DEFINE st == states[Head(sync.rec)]
  <2>1. Head(sync.rec) \in Key /\ Tail(sync.rec) \in Seq(Key)
    BY <1>6 DEF RecoverRule, SyncType
  <2>2. st # NoState => st \in StateId
    BY Zenon, <2>1 DEF StoreType
  <2>3. SyncType'
    BY Zenon, <1>6, <2>1 DEF RecoverRule, SyncType
  <2> HIDE DEF st
  <2>4. heap' = IF st = NoState THEN heap ELSE [heap EXCEPT ![st] = recoverBreaker(heap[st])]
    BY Zenon, <1>6 DEF RecoverRule, st
  <2>5. HeapType' /\ \A x \in StateId : heap'[x].key = heap[x].key
    <3>1. 0 \in 0..MaxWindow
      BY WindowAssumption
    <3>2. CASE st = NoState
      BY Zenon, <2>4, <3>2 DEF HeapType
    <3>3. CASE st # NoState
      <4>1. heap[st] \in [key : Key, state : {"OPENED", "CLOSED"}, recoverAt : Ticks]
        BY Zenon, <2>2, <3>3 DEF HeapType
      <4> QED
        BY Zenon, <2>2, <2>4, <3>1, <3>3, <4>1, StateMethods, HeapUpdate
    <3> QED
      BY Zenon, <3>2, <3>3
  <2> QED
    BY Zenon, <1>6, <2>3, <2>5, StoreKept DEF RecoverRule, store, lease, StoreType, LeaseType, LoopType, ReqType
<1> QED
  BY Zenon, <1>1, <1>2, <1>3, <1>4, <1>5, <1>6 DEF SyncStep

(* Before the first Sync the store is empty.                               *)
LEMMA StoreInvInit == Init => StoreInv
<1> SUFFICES ASSUME Init PROVE StoreInv
  BY Zenon
<1> USE DEF Init
<1>1. Key # {}
  <2>1. PICK b \in Breaker, l \in Limiting : TRUE
    BY Zenon, NameAssumption
  <2>2. <<b, l>> \in Key
    BY Zenon DEF Key
  <2> QED
    BY Zenon, <2>2
<1>2. HeapType
  BY Zenon, <1>1 DEF HeapType, NewState, Ticks
<1>3. ReqType
  BY ProceedType, NoEntryFact DEF ReqType, ReqRecord, IdleReq, Handling
<1>4. LeaseType
  <2>1. stateSet = [k \in Key |-> NoState] /\ stateQueue = EmptyQueue(StateId) /\ orphaned = {}
    BY Zenon
  <2> HIDE DEF Init
  <2> QED
    BY <2>1 DEF LeaseType, EmptyQueue, Ticks
<1>5. LoopType /\ SyncType
  <2>1. loop = IdleLoop /\ sync = IdleSync
    BY Zenon
  <2> HIDE DEF Init
  <2>2. LoopType
    BY Zenon, <2>1 DEF LoopType, IdleLoop, Ticks
  <2>3. SyncType
    BY <2>1 DEF SyncType, IdleSync
  <2> QED
    BY Zenon, <2>2, <2>3
<1>6. StoreType
  BY Zenon DEF StoreType
<1>7. StoreConsistent
  BY Zenon DEF StoreConsistent
<1> QED
  BY Zenon, <1>2, <1>3, <1>4, <1>5, <1>6, <1>7 DEF StoreInv, TypeOK

(* Every step keeps StoreInv.                                              *)
LEMMA StoreInvNext == StoreInv /\ [Next]_vars => StoreInv'
<1> SUFFICES ASSUME StoreInv, [Next]_vars PROVE StoreInv'
  BY Zenon
<1>1. CASE UNCHANGED vars
  BY Zenon, <1>1 DEF vars, StoreInv, TypeOK, StoreType, HeapType, LeaseType, LoopType, SyncType, ReqType, StoreConsistent
<1>2. CASE Next
  BY Zenon, <1>2, SyncSteps, LookingSteps, SwitchingSteps, LeaseSteps DEF Next, RequestStep
<1> QED
  BY Zenon, <1>1, <1>2

(* Whatever Sync calls, requests and recoveries interleave, every variable *)
(* keeps its type and the maps of the limiter store agree: a request never *)
(* gets a nil rule or state out of the index, and never misses a rule that *)
(* is registered.                                                          *)
THEOREM StoreCorrect == Spec => [](TypeOK /\ StoreConsistent)
<1>1. Init => StoreInv
  BY Zenon, StoreInvInit
<1>2. StoreInv /\ [Next]_vars => StoreInv'
  BY Zenon, StoreInvNext
<1>3. StoreInv => TypeOK /\ StoreConsistent
  BY Zenon DEF StoreInv
<1> QED
  BY <1>1, <1>2, <1>3, PTL DEF Spec

-----------------------------------------------------------------------------
(* What Sync leaves in the store.  While it runs, the rules of the one     *)
(* CircuitBreaker it works on are those of the limitings handled so far;   *)
(* what the old configuration left is still to be unregistered.            *)

(* The first n limitings of c give rule to the name l: the last one of     *)
(* that name wins, and there is no rule if there is none.                  *)
Gives(c, n, l, rule) ==
    \/ rule = NoRule /\ \A i \in 1..n : c.limitings[i].name # l
    \/ \E i \in 1..n :
          /\ c.limitings[i].name = l /\ c.limitings[i].rule = rule
          /\ \A j \in 1..n : c.limitings[j].name = l => j <= i

(* How many limitings of c are registered while b is synced.               *)
Through(c, b) == Len(c.limitings) - (IF c.name = b THEN Len(sync.add) ELSE 0)

InStore(k, b) ==
    LET c == breakerMap[k[1]]
    IN  IF c = NoConfig THEN rules[k] = NoRule ELSE Gives(c, Through(c, b), k[2], rules[k])

Pending(k) == \E i \in 1..Len(sync.del) : sync.del[i] = k

(* What is still to be registered is the end of the new configuration, and *)
(* nothing of it is registered before all that was there is unregistered.  *)
ToAdd(c) ==
    /\ Len(sync.add) <= Len(c.limitings)
    /\ \A i \in 1..Len(sync.add) : sync.add[i] = KeyedRules(c)[Len(c.limitings) - Len(sync.add) + i]
    /\ sync.del # <<>> => Len(sync.add) = Len(c.limitings)

Syncing(b) ==
    /\ \A i \in 1..Len(sync.del) : sync.del[i][1] = b
    /\ IF breakerMap[b] = NoConfig THEN sync.add = <<>> ELSE ToAdd(breakerMap[b])
    /\ \A k \in Key : InStore(k, b) \/ Pending(k)

Named == \A b \in Breaker : breakerMap[b] # NoConfig => breakerMap[b].name = b

SyncInv == Named /\ \E b \in Breaker : Syncing(b)

(* A configuration's limitings, by position.                               *)
LEMMA LimitingsType ==
    ASSUME NEW c \in Config
    PROVE  /\ Len(c.limitings) \in Nat
           /\ \A i \in 1..Len(c.limitings) : c.limitings[i].name \in Limiting /\ c.limitings[i].rule \in Rule
<1> DEFINE S == [name : Limiting, rule : Rule]
<1>1. c.limitings \in Seq(S)
  BY Zenon, ConfigAssumption
<1> HIDE DEF S
<1>2. Len(c.limitings) \in Nat /\ \A i \in 1..Len(c.limitings) : c.limitings[i] \in S
  BY <1>1
<1> QED
  BY Zenon, <1>2 DEF S

(* With all limitings registered, what they give is RuleOf.                *)
LEMMA GivesRuleOf ==
    ASSUME NEW c \in Config, NEW l, NEW rule, Gives(c, Len(c.limitings), l, rule)
    PROVE  rule = RuleOf(c, l)
<1> DEFINE at == {i \in 1..Len(c.limitings) : c.limitings[i].name = l}
<1>1. CASE \A i \in 1..Len(c.limitings) : c.limitings[i].name # l
  BY Zenon, <1>1 DEF Gives, RuleOf
<1>2. CASE \E i \in 1..Len(c.limitings) : c.limitings[i].name = l
  <2>1. PICK i \in 1..Len(c.limitings) :
            /\ c.limitings[i].name = l /\ c.limitings[i].rule = rule
            /\ \A j \in 1..Len(c.limitings) : c.limitings[j].name = l => j <= i
    BY Zenon, <1>2 DEF Gives
  <2>2. i \in at /\ \A j \in at : j <= i
    BY Zenon, <2>1
  <2>3. (CHOOSE m \in at : \A j \in at : j <= m) = i
    <3>1. \A m \in at : (\A j \in at : j <= m) => m = i
      BY <2>2, LimitingsType
    <3> HIDE DEF at
    <3> QED
      BY Zenon, <2>2, <3>1
  <2>4. RuleOf(c, l) = c.limitings[CHOOSE m \in at : \A j \in at : j <= m].rule
    BY Zenon, <2>2 DEF RuleOf
  <2> QED
    BY Zenon, <2>1, <2>3, <2>4
<1> QED
  BY Zenon, <1>1, <1>2

(* One more limiting.                                                      *)
LEMMA GivesNext ==
    ASSUME NEW c \in Config, NEW n \in Nat, n + 1 <= Len(c.limitings), NEW l, NEW rule,
           \/ c.limitings[n + 1].name = l /\ c.limitings[n + 1].rule = rule
           \/ c.limitings[n + 1].name # l /\ Gives(c, n, l, rule)
    PROVE  Gives(c, n + 1, l, rule)
<1>1. CASE c.limitings[n + 1].name = l /\ c.limitings[n + 1].rule = rule
  BY <1>1 DEF Gives
<1>2. CASE c.limitings[n + 1].name # l /\ Gives(c, n, l, rule)
  <2>1. \A i \in 1..(n + 1) : i \in 1..n \/ i = n + 1
    OBVIOUS
  <2>2. \A i \in 1..n : i \in 1..(n + 1)
    OBVIOUS
  <2> QED
    BY Zenon, <1>2, <2>1, <2>2 DEF Gives
<1> QED
  BY Zenon, <1>1, <1>2

(* A step that touches neither the configurations nor the rules, and has   *)
(* no part in Sync but for RECOVER.                                        *)
LEMMA SyncQuiet ==
    ASSUME SyncInv, UNCHANGED <<breakerMap, rules>>, sync'.del = sync.del, sync'.add = sync.add
    PROVE  SyncInv'
<1>1. Named'
  BY Zenon DEF SyncInv, Named
<1>2. PICK b \in Breaker : Syncing(b)
  BY Zenon DEF SyncInv
<1>3. \A k \in Key : (InStore(k, b)' <=> InStore(k, b)) /\ (Pending(k)' <=> Pending(k))
  BY Zenon DEF InStore, Through, Pending
<1>4. ToAdd(breakerMap[b])' <=> ToAdd(breakerMap[b])
  BY Zenon DEF ToAdd
<1>5. Syncing(b)'
  BY Zenon, <1>2, <1>3, <1>4 DEF Syncing
<1> QED
  BY Zenon, <1>1, <1>5 DEF SyncInv

(* With no Sync call under way every rule is in the store.                 *)
LEMMA SyncedStore ==
    ASSUME TypeOK, SyncInv, sync.del = <<>>, sync.add = <<>>, NEW k \in Key
    PROVE  /\ breakerMap[k[1]] = NoConfig => rules[k] = NoRule
           /\ breakerMap[k[1]] # NoConfig =>
                 Gives(breakerMap[k[1]], Len(breakerMap[k[1]].limitings), k[2], rules[k])
<1>1. PICK b \in Breaker : Syncing(b)
  BY Zenon DEF SyncInv
<1>2. ~Pending(k)
  BY DEF Pending
<1>3. InStore(k, b)
  BY Zenon, <1>1, <1>2 DEF Syncing
<1>4. k[1] \in Breaker
  BY Zenon DEF Key
<1>5. breakerMap[k[1]] # NoConfig => Through(breakerMap[k[1]], b) = Len(breakerMap[k[1]].limitings)
  BY <1>4, LimitingsType DEF Through, TypeOK, StoreType
<1> QED
  BY Zenon, <1>3, <1>5 DEF InStore

(* Sync takes up a configuration, or none: whatever the old one had        *)
(* registered is about to be unregistered.                                 *)
LEMMA SyncTakesUp ==
    ASSUME TypeOK, TypeOK', SyncInv, sync = IdleSync, NEW b \in Breaker, NEW c \in Config \cup {NoConfig},
           c # NoConfig => c.name = b,
           breakerMap' = [breakerMap EXCEPT ![b] = c], rules' = rules,
           sync'.del = (IF breakerMap[b] = NoConfig THEN <<>> ELSE Keys(breakerMap[b])),
           sync'.add = (IF c = NoConfig THEN <<>> ELSE KeyedRules(c))
    PROVE  SyncInv'
<1>0. sync.del = <<>> /\ sync.add = <<>>
  BY Zenon DEF IdleSync
<1>1. breakerMap'[b] = c /\ \A a \in Breaker : a # b => breakerMap'[a] = breakerMap[a]
  BY Zenon DEF TypeOK, StoreType
<1>2. Named'
  BY Zenon, <1>1 DEF SyncInv, Named
<1>3. breakerMap[b] # NoConfig =>
          /\ breakerMap[b] \in Config /\ breakerMap[b].name = b
          /\ Len(Keys(breakerMap[b])) = Len(breakerMap[b].limitings)
          /\ \A i \in 1..Len(breakerMap[b].limitings) :
                Keys(breakerMap[b])[i] = <<b, breakerMap[b].limitings[i].name>>
  <2> SUFFICES ASSUME breakerMap[b] # NoConfig
               PROVE  /\ breakerMap[b] \in Config /\ breakerMap[b].name = b
                      /\ Len(Keys(breakerMap[b])) = Len(breakerMap[b].limitings)
                      /\ \A i \in 1..Len(breakerMap[b].limitings) :
                            Keys(breakerMap[b])[i] = <<b, breakerMap[b].limitings[i].name>>
    BY Zenon
  <2>1. breakerMap[b] \in Config /\ breakerMap[b].name = b
    BY Zenon DEF TypeOK, StoreType, SyncInv, Named
  <2>2. Len(breakerMap[b].limitings) \in Nat
    BY Zenon, <2>1, LimitingsType
  <2> QED
    BY <2>1, <2>2 DEF Keys
<1>4. c # NoConfig => c \in Config /\ Len(c.limitings) \in Nat /\ Len(KeyedRules(c)) = Len(c.limitings)
  BY LimitingsType DEF KeyedRules
<1>5. \A i \in 1..Len(sync'.del) : sync'.del[i][1] = b
  BY <1>3
<1>6. IF c = NoConfig THEN sync'.add = <<>> ELSE ToAdd(c)'
  BY <1>4 DEF ToAdd
<1>7. ASSUME NEW k \in Key PROVE InStore(k, b)' \/ Pending(k)'
  <2>0. k[1] \in Breaker
    BY Zenon DEF Key
  <2>1. CASE k[1] # b
    <3>1. breakerMap'[k[1]] = breakerMap[k[1]]
      BY Zenon, <1>1, <2>0, <2>1
    <3>2. breakerMap[k[1]] # NoConfig =>
             /\ breakerMap[k[1]].name # b
             /\ Len(breakerMap[k[1]].limitings) \in Nat
      BY Zenon, <2>0, <2>1, LimitingsType DEF TypeOK, StoreType, SyncInv, Named
    <3>3. breakerMap[k[1]] # NoConfig => Through(breakerMap[k[1]], b)' = Len(breakerMap[k[1]].limitings)
      <4>1. PICK d : d = breakerMap[k[1]]
        BY Zenon
      <4>2. d # NoConfig => d.name # b /\ Len(d.limitings) \in Nat
        BY Zenon, <3>2, <4>1
      <4>3. d # NoConfig => Through(d, b)' = Len(d.limitings)
        <5> SUFFICES ASSUME d # NoConfig PROVE Through(d, b)' = Len(d.limitings)
          BY Zenon
        <5>1. Through(d, b)' = Len(d.limitings) - 0
          BY Zenon, <4>2 DEF Through
        <5> QED
          BY <4>2, <5>1
      <4> QED
        BY Zenon, <3>1, <4>1, <4>3 DEF Through
    <3>4. InStore(k, b)'
      BY Zenon, <1>0, <3>1, <3>3, SyncedStore DEF InStore
    <3> QED
      BY Zenon, <3>4
  <2>2. CASE k[1] = b /\ rules[k] # NoRule
    <3>1. breakerMap[b] # NoConfig /\ Gives(breakerMap[b], Len(breakerMap[b].limitings), k[2], rules[k])
      BY Zenon, <1>0, <2>2, SyncedStore
    <3>2. PICK i \in 1..Len(breakerMap[b].limitings) : breakerMap[b].limitings[i].name = k[2]
      BY Zenon, <2>2, <3>1 DEF Gives
    <3>3. sync'.del = Keys(breakerMap[b]) /\ i \in 1..Len(sync'.del)
      BY Zenon, <1>3, <3>1, <3>2
    <3>4. k = <<k[1], k[2]>>
      BY DEF Key
    <3>5. sync'.del[i] = k
      BY Zenon, <1>3, <2>2, <3>1, <3>2, <3>3, <3>4
    <3> QED
      BY Zenon, <3>3, <3>5 DEF Pending
  <2>3. CASE k[1] = b /\ rules[k] = NoRule
    <3>1. c # NoConfig => Through(c, b)' = 0
      BY <1>4 DEF Through
    <3>2. c # NoConfig => Gives(c, 0, k[2], NoRule)
      BY DEF Gives
    <3> QED
      BY Zenon, <1>1, <2>3, <3>1, <3>2 DEF InStore
  <2> QED
    BY Zenon, <2>1, <2>2, <2>3
<1>8. Syncing(b)'
  BY Zenon, <1>1, <1>5, <1>6, <1>7 DEF Syncing
<1> QED
  BY Zenon, <1>2, <1>8 DEF SyncInv

(* The first rule in line is unregistered.                                 *)
LEMMA SyncUnregisters ==
    ASSUME TypeOK, TypeOK', SyncInv, UnregisterRule
    PROVE  SyncInv'
<1> DEFINE h == Head(sync.del)
<1>1. /\ sync.del \in Seq(Key) /\ sync.del # <<>>
      /\ rules' = [rules EXCEPT ![h] = NoRule]
      /\ breakerMap' = breakerMap /\ sync' = [sync EXCEPT !.del = Tail(sync.del)]
  BY Zenon DEF UnregisterRule, TypeOK, SyncType
<1>2. h \in Key /\ h = sync.del[1] /\ Len(sync.del) \in Nat /\ 1 \in 1..Len(sync.del)
  BY <1>1
<1> HIDE DEF h
<1>3. sync'.del = Tail(sync.del) /\ sync'.add = sync.add
  BY Zenon, <1>1 DEF TypeOK, SyncType
<1>4. /\ Len(Tail(sync.del)) = Len(sync.del) - 1
      /\ \A i \in 1..Len(Tail(sync.del)) : Tail(sync.del)[i] = sync.del[i + 1] /\ i + 1 \in 1..Len(sync.del)
  BY <1>1, <1>2
<1>5. rules'[h] = NoRule /\ \A k \in Key : k # h => rules'[k] = rules[k]
  BY Zenon, <1>1, <1>2 DEF TypeOK, StoreType
<1>6. PICK b \in Breaker : Syncing(b)
  BY Zenon DEF SyncInv
<1>7. h[1] = b
  BY Zenon, <1>2, <1>6 DEF Syncing
<1>8. \A i \in 1..Len(sync'.del) : sync'.del[i][1] = b
  BY <1>3, <1>4, <1>6 DEF Syncing
<1>9. IF breakerMap[b] = NoConfig THEN sync'.add = <<>> ELSE ToAdd(breakerMap[b])'
  BY Zenon, <1>1, <1>3, <1>6 DEF Syncing, ToAdd
<1>10. ASSUME NEW k \in Key PROVE InStore(k, b)' \/ Pending(k)'
  <2>1. CASE k = h
    <3>1. breakerMap[b] # NoConfig => Len(sync.add) = Len(breakerMap[b].limitings)
      BY Zenon, <1>1, <1>6 DEF Syncing, ToAdd
    <3>2. breakerMap[b] # NoConfig => breakerMap[b].name = b /\ Len(breakerMap[b].limitings) \in Nat
      BY Zenon, LimitingsType DEF SyncInv, Named, TypeOK, StoreType
    <3>3. breakerMap[b] # NoConfig => Through(breakerMap[b], b)' = 0
      BY <1>1, <1>3, <3>1, <3>2 DEF Through
    <3>4. breakerMap[b] # NoConfig => Gives(breakerMap[b], 0, k[2], NoRule)
      BY DEF Gives
    <3> QED
      BY Zenon, <1>1, <1>5, <1>7, <2>1, <3>3, <3>4 DEF InStore
  <2>2. CASE k # h /\ Pending(k)
    <3>1. PICK i \in 1..Len(sync.del) : sync.del[i] = k
      BY Zenon, <2>2 DEF Pending
    <3>2. i # 1
      BY Zenon, <1>2, <2>2, <3>1
    <3>3. i - 1 \in 1..Len(Tail(sync.del)) /\ (i - 1) + 1 = i
      BY <1>2, <1>4, <3>2
    <3> QED
      BY Zenon, <1>3, <1>4, <3>1, <3>3 DEF Pending
  <2>3. CASE k # h /\ InStore(k, b)
    BY Zenon, <1>1, <1>3, <1>5, <2>3 DEF InStore, Through
  <2> QED
    BY Zenon, <1>6, <2>1, <2>2, <2>3 DEF Syncing
<1>11. Syncing(b)'
  BY Zenon, <1>1, <1>8, <1>9, <1>10 DEF Syncing
<1> QED
  BY Zenon, <1>1, <1>11 DEF SyncInv, Named

(* The first rule in line is registered.                                   *)
LEMMA SyncRegisters ==
    ASSUME TypeOK, TypeOK', SyncInv, RegisterRule
    PROVE  SyncInv'
<1> DEFINE S == [key : Key, rule : Rule]
           h == Head(sync.add)
<1>1. sync.add \in Seq(S) /\ sync.add # <<>> /\ sync.del = <<>>
  BY Zenon DEF RegisterRule, TypeOK, SyncType
<1>2. /\ rules' = [rules EXCEPT ![h.key] = h.rule]
      /\ breakerMap' = breakerMap /\ sync' = [sync EXCEPT !.add = Tail(sync.add)]
  BY Zenon DEF RegisterRule
<1> HIDE DEF S
<1>3. h \in S /\ h = sync.add[1] /\ Len(sync.add) \in Nat /\ 1 \in 1..Len(sync.add)
  BY <1>1
<1> HIDE DEF h
<1>4. h.key \in Key /\ h.rule \in Rule
  BY Zenon, <1>3 DEF S
<1>5. sync'.add = Tail(sync.add) /\ sync'.del = sync.del
  BY Zenon, <1>2 DEF TypeOK, SyncType
<1>6. /\ Len(Tail(sync.add)) = Len(sync.add) - 1
      /\ \A i \in 1..Len(Tail(sync.add)) : Tail(sync.add)[i] = sync.add[i + 1] /\ i + 1 \in 1..Len(sync.add)
  BY <1>1, <1>3
<1>7. rules'[h.key] = h.rule /\ \A k \in Key : k # h.key => rules'[k] = rules[k]
  BY Zenon, <1>2, <1>4 DEF TypeOK, StoreType
<1>8. PICK b \in Breaker : Syncing(b)
  BY Zenon DEF SyncInv
<1>9. PICK c : c = breakerMap[b]
  BY Zenon
<1>10. c # NoConfig /\ c \in Config /\ c.name = b /\ Len(c.limitings) \in Nat /\ ToAdd(c)
  BY Zenon, <1>1, <1>8, <1>9, LimitingsType DEF Syncing, TypeOK, StoreType, SyncInv, Named
<1> DEFINE n == Len(c.limitings) - Len(sync.add)
<1>11. /\ n \in Nat /\ n + 1 \in 1..Len(c.limitings) /\ n + 1 <= Len(c.limitings)
       /\ Len(c.limitings) - (Len(sync.add) - 1) = n + 1
  <2>1. Len(sync.add) <= Len(c.limitings)
    BY Zenon, <1>10 DEF ToAdd
  <2>2. Len(sync.add) \in Nat /\ Len(sync.add) >= 1 /\ Len(c.limitings) \in Nat
    BY <1>3, <1>10
  <2>3. \A a, m \in Nat : a >= 1 /\ a <= m =>
            m - a \in Nat /\ (m - a) + 1 \in 1..m /\ (m - a) + 1 <= m /\ m - (a - 1) = (m - a) + 1
    OBVIOUS
  <2> QED
    BY Zenon, <2>1, <2>2, <2>3
<1>12. h = [key |-> <<b, c.limitings[n + 1].name>>, rule |-> c.limitings[n + 1].rule]
  <2>1. h = KeyedRules(c)[n + 1]
    BY Zenon, <1>3, <1>10 DEF ToAdd
  <2> HIDE DEF n
  <2> QED
    BY Zenon, <1>10, <1>11, <2>1 DEF KeyedRules
<1>13. Through(c, b) = n /\ Through(c, b)' = n + 1
  BY Zenon, <1>5, <1>6, <1>10, <1>11 DEF Through
<1>14. ToAdd(c)'
  <2>1. Len(sync'.add) <= Len(c.limitings)
    BY <1>3, <1>5, <1>6, <1>10 DEF ToAdd
  <2>2. \A i \in 1..Len(sync'.add) : sync'.add[i] = KeyedRules(c)[Len(c.limitings) - Len(sync'.add) + i]
    <3> SUFFICES ASSUME NEW i \in 1..Len(sync'.add)
                 PROVE  sync'.add[i] = KeyedRules(c)[Len(c.limitings) - Len(sync'.add) + i]
      BY Zenon
    <3>1. sync'.add[i] = sync.add[i + 1] /\ i + 1 \in 1..Len(sync.add)
      BY Zenon, <1>5, <1>6
    <3>2. sync.add[i + 1] = KeyedRules(c)[Len(c.limitings) - Len(sync.add) + (i + 1)]
      BY Zenon, <1>10, <3>1 DEF ToAdd
    <3>3. Len(c.limitings) - Len(sync.add) + (i + 1) = Len(c.limitings) - Len(sync'.add) + i
      <4>1. Len(sync'.add) = Len(sync.add) - 1 /\ Len(sync.add) \in Nat /\ Len(c.limitings) \in Nat /\ i \in Nat
        BY <1>3, <1>5, <1>6, <1>10
      <4>2. \A a, m, j \in Nat : m - a + (j + 1) = m - (a - 1) + j
        OBVIOUS
      <4>3. Len(c.limitings) - Len(sync.add) + (i + 1) = Len(c.limitings) - (Len(sync.add) - 1) + i
        BY <4>1, <4>2, Zenon
      <4> QED
        BY <4>1, <4>3, Zenon
    <3> QED
      BY Zenon, <3>1, <3>2, <3>3
  <2> QED
    BY Zenon, <1>1, <1>5, <2>1, <2>2 DEF ToAdd
<1> HIDE DEF n
<1>15. ASSUME NEW k \in Key PROVE InStore(k, b)'
  <2>0. /\ k[1] \in Breaker /\ k = <<k[1], k[2]>>
        /\ InStore(k, b)
    BY <1>1, <1>8 DEF Key, Syncing, Pending
  <2>1. CASE k[1] # b
    <3>1. rules'[k] = rules[k]
      BY <1>7, <1>12, <2>1
    <3>2. PICK d : d = breakerMap[k[1]]
      BY Zenon
    <3>3. d # NoConfig => d.name # b
      BY Zenon, <2>0, <2>1, <3>2 DEF SyncInv, Named
    <3>4. d # NoConfig => Through(d, b)' = Through(d, b)
      BY Zenon, <3>3 DEF Through
    <3> QED
      BY Zenon, <1>2, <2>0, <3>1, <3>2, <3>4 DEF InStore, Through
  <2>2. CASE k[1] = b
    <3>1. Gives(c, n, k[2], rules[k])
      BY Zenon, <1>9, <1>10, <1>13, <2>0, <2>2 DEF InStore
    <3>2. CASE k = h.key
      <4>1. c.limitings[n + 1].name = k[2] /\ c.limitings[n + 1].rule = rules'[k]
        BY Zenon, <1>7, <1>12, <3>2
      <4>2. Gives(c, n + 1, k[2], rules'[k])
        BY Zenon, <1>10, <1>11, <4>1, GivesNext
      <4> QED
        BY Zenon, <1>2, <1>9, <1>10, <1>13, <2>2, <4>2 DEF InStore
    <3>3. CASE k # h.key
      <4>1. c.limitings[n + 1].name # k[2]
        BY Zenon, <1>12, <2>0, <2>2, <3>3
      <4>2. Gives(c, n + 1, k[2], rules[k])
        BY Zenon, <1>10, <1>11, <3>1, <4>1, GivesNext
      <4> QED
        BY Zenon, <1>2, <1>7, <1>9, <1>10, <1>13, <2>2, <3>3, <4>2 DEF InStore
    <3> QED
      BY Zenon, <3>2, <3>3
  <2> QED
    BY Zenon, <2>1, <2>2
<1>16. Syncing(b)'
  <2>1. \A i \in 1..Len(sync'.del) : sync'.del[i][1] = b
    BY Zenon, <1>5, <1>8 DEF Syncing
  <2>2. breakerMap'[b] = c
    BY Zenon, <1>2, <1>9
  <2> QED
    BY Zenon, <1>10, <1>14, <1>15, <2>1, <2>2 DEF Syncing
<1> QED
  BY Zenon, <1>2, <1>16 DEF SyncInv, Named

(* Every step keeps SyncInv.                                               *)
LEMMA SyncInvNext == StoreInv /\ StoreInv' /\ SyncInv /\ [Next]_vars => SyncInv'
<1> SUFFICES ASSUME StoreInv, StoreInv', SyncInv, [Next]_vars PROVE SyncInv'
  BY Zenon
<1>0. TypeOK /\ TypeOK'
  BY Zenon DEF StoreInv
<1>1. CASE UNCHANGED <<breakerMap, rules, sync>>
  BY Zenon, <1>1, SyncQuiet
<1>2. ASSUME NEW c \in Config, SyncUpdate(c) PROVE SyncInv'
  <2>1. c.name \in Breaker /\ c # NoConfig
    BY Zenon, ConfigKeys
  <2>2. /\ sync = IdleSync /\ rules' = rules
        /\ breakerMap' = [breakerMap EXCEPT ![c.name] = c]
        /\ sync'.del = (IF breakerMap[c.name] = NoConfig THEN <<>> ELSE Keys(breakerMap[c.name]))
        /\ sync'.add = KeyedRules(c)
    BY Zenon, <1>2 DEF SyncUpdate
  <2> QED
    BY Zenon, <1>0, <2>1, <2>2, SyncTakesUp
<1>3. ASSUME NEW b \in Breaker, SyncDelete(b) PROVE SyncInv'
  <2>1. /\ sync = IdleSync /\ rules' = rules
        /\ breakerMap' = [breakerMap EXCEPT ![b] = NoConfig]
        /\ sync'.del = Keys(breakerMap[b]) /\ breakerMap[b] # NoConfig
        /\ sync'.add = <<>>
    BY Zenon, <1>3 DEF SyncDelete, IdleSync
  <2> QED
    BY Zenon, <1>0, <2>1, SyncTakesUp
<1>4. ASSUME NEW c \in Config, SyncRecover(c) PROVE SyncInv'
  BY Zenon, <1>4, SyncQuiet DEF SyncRecover, store, IdleSync
<1>5. CASE UnregisterRule
  BY Zenon, <1>0, <1>5, SyncUnregisters
<1>6. CASE RegisterRule
  BY Zenon, <1>0, <1>6, SyncRegisters
<1>7. CASE RecoverRule
  <2>1. sync'.del = sync.del /\ sync'.add = sync.add
    BY Zenon, <1>0, <1>7 DEF RecoverRule, TypeOK, SyncType
  <2> QED
    BY Zenon, <1>7, <2>1, SyncQuiet DEF RecoverRule, store
<1>8. CASE LoopStep \/ Tick \/ \E st \in StateId : TimerFires(st)
  BY Zenon, <1>1, <1>8 DEF LoopStep, LoopGet, LoopRead, LoopRequeue, LoopDelete, LoopRecover, LoopDone, Tick, TimerFires, store
<1>9. ASSUME NEW r \in Request, RequestStep(r) \/ \E seeds \in Lookup : Start(r, seeds) PROVE SyncInv'
  BY Zenon, <1>1, <1>9 DEF RequestStep, Start, LookUp, PickRule, ForceOpened, ForceClosed, LimiterOnly, Normal, Reset, Trigger,
        Return, RegisterState, InsertState, AddStateAfter, store
<1>10. CASE UNCHANGED vars
  BY Zenon, <1>1, <1>10 DEF vars
<1> QED
  BY Zenon, <1>2, <1>3, <1>4, <1>5, <1>6, <1>7, <1>8, <1>9, <1>10 DEF Next, SyncStep

(* At the start nothing is registered and no configuration is known.       *)
LEMMA SyncInvInit == Init => SyncInv
<1> SUFFICES ASSUME Init PROVE SyncInv
  BY Zenon
<1>1. PICK b \in Breaker : TRUE
  BY Zenon, NameAssumption
<1>2. breakerMap = [a \in Breaker |-> NoConfig] /\ rules = [k \in Key |-> NoRule] /\ sync = IdleSync
  BY Zenon DEF Init
<1>3. Named
  BY Zenon, <1>2 DEF Named
<1>4. \A k \in Key : InStore(k, b)
  BY Zenon, <1>2 DEF InStore, Key
<1>5. Syncing(b)
  BY <1>2, <1>4 DEF Syncing, IdleSync
<1> QED
  BY Zenon, <1>3, <1>5 DEF SyncInv

(* Once a Sync call is through, whatever ran between its steps, the store  *)
(* holds for every name the rule its CircuitBreaker's configuration gives  *)
(* it, the last one of that name, and nothing left over from an earlier    *)
(* configuration (updateRules, registerRules, unregisterRules).            *)
THEOREM StoreMatched == Spec => []StoreMatchesConfig
<1>1. Init => StoreInv /\ SyncInv
  BY Zenon, StoreInvInit, SyncInvInit
<1>2. StoreInv /\ SyncInv /\ [Next]_vars => (StoreInv /\ SyncInv)'
  BY Zenon, StoreInvNext, SyncInvNext
<1>3. StoreInv /\ SyncInv => StoreMatchesConfig
  <2> SUFFICES ASSUME StoreInv, SyncInv, sync = IdleSync, NEW b \in Breaker, NEW l \in Limiting
               PROVE  rules[<<b, l>>] = IF breakerMap[b] = NoConfig THEN NoRule ELSE RuleOf(breakerMap[b], l)
    BY Zenon DEF StoreMatchesConfig
  <2>1. <<b, l>> \in Key /\ <<b, l>>[1] = b /\ <<b, l>>[2] = l
    BY Zenon DEF Key
  <2>2. TypeOK /\ sync.del = <<>> /\ sync.add = <<>>
    BY Zenon DEF StoreInv, IdleSync
  <2>3. /\ breakerMap[b] = NoConfig => rules[<<b, l>>] = NoRule
        /\ breakerMap[b] # NoConfig => Gives(breakerMap[b], Len(breakerMap[b].limitings), l, rules[<<b, l>>])
    BY Zenon, <2>1, <2>2, SyncedStore
  <2>4. breakerMap[b] # NoConfig => breakerMap[b] \in Config
    BY Zenon, <2>2 DEF TypeOK, StoreType
  <2> QED
    BY Zenon, <2>3, <2>4, GivesRuleOf
<1> QED
  BY <1>1, <1>2, <1>3, PTL DEF Spec

-----------------------------------------------------------------------------
(* The recovery lease.                                                     *)
OrphansKept == \A k \in orphaned : stateSet[k] # NoState

LeaseMutex ==
    \A r1, r2 \in Request : req[r1].pc = "addAfter" /\ req[r2].pc = "addAfter" => r1 = r2

LeaseInv == OneTimerPerKey /\ QueueShape /\ OrphansKept /\ LeaseMutex

-----------------------------------------------------------------------------
(* The queue: its sequence holds the dirty items that are not being        *)
(* processed, each once.                                                   *)
Shape(q) ==
    /\ \A i, j \in 1..Len(q.queue) : q.queue[i] = q.queue[j] => i = j
    /\ {q.queue[i] : i \in 1..Len(q.queue)} = q.dirty \ q.processing

(* Appending an item that is not in a sequence of distinct items.          *)
LEMMA AppendDistinct ==
    ASSUME NEW s \in Seq(StateId), NEW x \in StateId,
           \A i, j \in 1..Len(s) : s[i] = s[j] => i = j,
           x \notin {s[i] : i \in 1..Len(s)}
    PROVE  /\ \A i, j \in 1..Len(Append(s, x)) : Append(s, x)[i] = Append(s, x)[j] => i = j
           /\ {Append(s, x)[i] : i \in 1..Len(Append(s, x))} = {s[i] : i \in 1..Len(s)} \cup {x}
  OBVIOUS

(* Removing the first item of a sequence of distinct items.                *)
LEMMA TailDistinct ==
    ASSUME NEW s \in Seq(StateId), s # <<>>,
           \A i, j \in 1..Len(s) : s[i] = s[j] => i = j
    PROVE  /\ \A i, j \in 1..Len(Tail(s)) : Tail(s)[i] = Tail(s)[j] => i = j
           /\ {Tail(s)[i] : i \in 1..Len(Tail(s))} = {s[i] : i \in 1..Len(s)} \ {Head(s)}
           /\ Head(s) \in {s[i] : i \in 1..Len(s)}
<1>1. /\ Len(Tail(s)) = Len(s) - 1
      /\ \A i \in 1..Len(Tail(s)) : Tail(s)[i] = s[i + 1]
      /\ Head(s) = s[1]
      /\ Len(s) \in Nat \ {0}
  OBVIOUS
<1>2. \A i, j \in 1..Len(Tail(s)) : Tail(s)[i] = Tail(s)[j] => i = j
  BY <1>1
<1>3. ASSUME NEW y PROVE y \in {Tail(s)[i] : i \in 1..Len(Tail(s))} <=> y \in {s[i] : i \in 1..Len(s)} \ {Head(s)}
  <2>1. ASSUME NEW i \in 1..Len(Tail(s)), y = Tail(s)[i]
        PROVE  y \in {s[j] : j \in 1..Len(s)} /\ y # Head(s)
    <3>1. i + 1 \in 1..Len(s) /\ 1 \in 1..Len(s) /\ i + 1 # 1
      BY <1>1
    <3> QED
      BY Zenon, <1>1, <2>1, <3>1
  <2>2. ASSUME NEW i \in 1..Len(s), y = s[i], y # Head(s)
        PROVE  y \in {Tail(s)[j] : j \in 1..Len(Tail(s))}
    <3>1. i - 1 \in 1..Len(Tail(s)) /\ (i - 1) + 1 = i
      BY <1>1, <2>2
    <3> QED
      BY Zenon, <1>1, <2>2, <3>1
  <2> QED
    BY Zenon, <2>1, <2>2
<1>4. {Tail(s)[i] : i \in 1..Len(Tail(s))} = {s[i] : i \in 1..Len(s)} \ {Head(s)}
  <2> DEFINE A == {Tail(s)[i] : i \in 1..Len(Tail(s))}
             B == {s[i] : i \in 1..Len(s)} \ {Head(s)}
  <2>1. \A y : y \in A <=> y \in B
    BY Zenon, <1>3
  <2> HIDE DEF A, B
  <2>2. A = B
    BY Zenon, <2>1
  <2> QED
    BY Zenon, <2>2 DEF A, B
<1>5. Head(s) \in {s[i] : i \in 1..Len(s)}
  BY <1>1
<1> QED
  BY Zenon, <1>2, <1>4, <1>5

(* Add keeps the shape of the work queue and adds at most the one state to *)
(* what is dirty.                                                          *)
LEMMA AddShape ==
    ASSUME NEW q \in Queue, Shape(q), NEW x \in StateId
    PROVE  /\ Shape(Add(q, x))
           /\ Add(q, x).dirty = q.dirty \cup {x}
           /\ Add(q, x).processing = q.processing
           /\ Add(q, x).waiting = q.waiting
<1>1. CASE x \in q.dirty
  BY Zenon, <1>1 DEF Add
<1>2. CASE x \notin q.dirty
  <2>1. /\ Add(q, x).dirty = q.dirty \cup {x}
        /\ Add(q, x).processing = q.processing
        /\ Add(q, x).waiting = q.waiting
        /\ Add(q, x).queue = IF x \in q.processing THEN q.queue ELSE Append(q.queue, x)
    BY Zenon, <1>2 DEF Add, Queue
  <2>2. q.queue \in Seq(StateId)
    BY Zenon DEF Queue
  <2>3. CASE x \in q.processing
    BY Zenon, <2>1, <2>3 DEF Shape
  <2>4. CASE x \notin q.processing
    <3>1. x \notin {q.queue[i] : i \in 1..Len(q.queue)}
      BY Zenon, <1>2 DEF Shape
    <3>2. /\ \A i, j \in 1..Len(Append(q.queue, x)) : Append(q.queue, x)[i] = Append(q.queue, x)[j] => i = j
          /\ {Append(q.queue, x)[i] : i \in 1..Len(Append(q.queue, x))} = {q.queue[i] : i \in 1..Len(q.queue)} \cup {x}
      BY Zenon, <2>2, <3>1, AppendDistinct DEF Shape
    <3> QED
      BY <2>1, <2>4, <3>2 DEF Shape
  <2> QED
    BY Zenon, <2>1, <2>3, <2>4
<1> QED
  BY Zenon, <1>1, <1>2

(* AddAfter keeps the shape: it arms a timer or adds at once.              *)
LEMMA AddAfterShape ==
    ASSUME NEW q \in Queue, Shape(q), NEW x \in StateId, NEW d \in Ticks
    PROVE  /\ Shape(AddAfter(q, x, d))
           /\ AddAfter(q, x, d).processing = q.processing
           /\ \/ /\ AddAfter(q, x, d).dirty = q.dirty \cup {x}
                 /\ AddAfter(q, x, d).waiting = q.waiting
              \/ /\ AddAfter(q, x, d).dirty = q.dirty
                 /\ \E t \in Ticks \ {NoTime} : AddAfter(q, x, d).waiting = [q.waiting EXCEPT ![x] = t]
<1>1. CASE d <= 0
  BY Zenon, <1>1, AddShape DEF AddAfter
<1>2. CASE ~(d <= 0)
  <2> DEFINE t == IF q.waiting[x] = NoTime \/ d < q.waiting[x] THEN d ELSE q.waiting[x]
  <2>1. t \in Ticks \ {NoTime}
    BY <1>2 DEF Queue, Ticks, NoTime
  <2>2. AddAfter(q, x, d) = [q EXCEPT !.waiting = [q.waiting EXCEPT ![x] = t]]
    BY Zenon, <1>2 DEF AddAfter, Queue
  <2> HIDE DEF t
  <2> QED
    BY <2>1, <2>2 DEF Shape, Queue
<1> QED
  BY Zenon, <1>1, <1>2

(* Get keeps the shape and moves the head of the queue to processing.      *)
LEMMA GetShape ==
    ASSUME NEW q \in Queue, Shape(q), q.queue # <<>>
    PROVE  /\ Shape(Get(q))
           /\ Head(q.queue) \in q.dirty \ q.processing
           /\ Get(q).dirty = q.dirty \ {Head(q.queue)}
           /\ Get(q).processing = q.processing \cup {Head(q.queue)}
           /\ Get(q).waiting = q.waiting
<1>1. q.queue \in Seq(StateId)
  BY Zenon DEF Queue
<1>2. /\ \A i, j \in 1..Len(Tail(q.queue)) : Tail(q.queue)[i] = Tail(q.queue)[j] => i = j
      /\ {Tail(q.queue)[i] : i \in 1..Len(Tail(q.queue))} = {q.queue[i] : i \in 1..Len(q.queue)} \ {Head(q.queue)}
      /\ Head(q.queue) \in {q.queue[i] : i \in 1..Len(q.queue)}
  BY Zenon, <1>1, TailDistinct DEF Shape
<1>3. /\ Get(q).dirty = q.dirty \ {Head(q.queue)}
      /\ Get(q).processing = q.processing \cup {Head(q.queue)}
      /\ Get(q).waiting = q.waiting
      /\ Get(q).queue = Tail(q.queue)
  BY Zenon DEF Get, Queue
<1>4. Head(q.queue) \in q.dirty \ q.processing
  BY Zenon, <1>2 DEF Shape
<1>5. {Tail(q.queue)[i] : i \in 1..Len(Tail(q.queue))} = Get(q).dirty \ Get(q).processing
  <2>1. {Tail(q.queue)[i] : i \in 1..Len(Tail(q.queue))} = (q.dirty \ q.processing) \ {Head(q.queue)}
    BY Zenon, <1>2 DEF Shape
  <2>2. (q.dirty \ q.processing) \ {Head(q.queue)} = Get(q).dirty \ Get(q).processing
    BY Zenon, <1>3
  <2> QED
    BY Zenon, <2>1, <2>2
<1>6. Shape(Get(q))
  BY <1>2, <1>3, <1>5 DEF Shape
<1> QED
  BY Zenon, <1>3, <1>4, <1>6

(* Done keeps the shape; a state made dirty meanwhile goes back.           *)
LEMMA DoneShape ==
    ASSUME NEW q \in Queue, Shape(q), NEW x \in q.processing
    PROVE  /\ Shape(Done(q, x))
           /\ Done(q, x).dirty = q.dirty
           /\ Done(q, x).processing = q.processing \ {x}
           /\ Done(q, x).waiting = q.waiting
<1>1. x \in StateId /\ q.queue \in Seq(StateId)
  BY Zenon DEF Queue
<1>2. /\ Done(q, x).dirty = q.dirty
      /\ Done(q, x).processing = q.processing \ {x}
      /\ Done(q, x).waiting = q.waiting
      /\ Done(q, x).queue = IF x \in q.dirty THEN Append(q.queue, x) ELSE q.queue
  BY Zenon DEF Done, Queue
<1>3. CASE x \notin q.dirty
  BY ZenonT(60), <1>2, <1>3 DEF Shape
<1>4. CASE x \in q.dirty
  <2>1. x \notin {q.queue[i] : i \in 1..Len(q.queue)}
    BY Zenon DEF Shape
  <2>2. /\ \A i, j \in 1..Len(Append(q.queue, x)) : Append(q.queue, x)[i] = Append(q.queue, x)[j] => i = j
        /\ {Append(q.queue, x)[i] : i \in 1..Len(Append(q.queue, x))} = {q.queue[i] : i \in 1..Len(q.queue)} \cup {x}
    BY Zenon, <1>1, <2>1, AppendDistinct DEF Shape
  <2> QED
    BY <1>2, <1>4, <2>2 DEF Shape
<1> QED
  BY Zenon, <1>2, <1>3, <1>4

-----------------------------------------------------------------------------
(* QueueShape, the property of the run, is Shape of the state's queue.     *)
LEMMA QueueShapeIsShape ==
    QueueShape <=> Shape(stateQueue) /\ stateQueue.processing = {loop.st} \ {NoState}
  BY Zenon DEF QueueShape, Shape

(* A step that neither touches the lease and its loop nor starts or ends   *)
(* the critical part of a registration preserves LeaseInv, if it leaves    *)
(* the key of every state object that is in use as it was.                 *)
LEMMA LeaseKept ==
    ASSUME StoreInv, LeaseInv, UNCHANGED <<stateSet, stateQueue, orphaned, loop>>,
           \A st \in StateId : heap'[st].key = heap[st].key \/ ~Live(st),
           \A r \in Request : \/ req'[r].pc = req[r].pc /\ req'[r].cur = req[r].cur
                              \/ req'[r].pc # "addAfter" /\ req[r].pc # "addAfter"
    PROVE  LeaseInv'
<1> USE DEF StoreInv, TypeOK, LeaseInv
<1>1. Registering' = Registering
  BY Zenon DEF Registering
<1>2. QueueShape' /\ OrphansKept' /\ LeaseMutex'
  <2>1. QueueShape' /\ OrphansKept'
    BY DEF QueueShape, OrphansKept
  <2>2. LeaseMutex'
    BY Zenon DEF LeaseMutex
  <2> QED
    BY Zenon, <2>1, <2>2
<1>3. ASSUME NEW st \in StateId, ~Live(st)
      PROVE  /\ ~Waiting(st) /\ ~Queued(st) /\ ~InLoop(st) /\ ~Adding(st)
             /\ \A k \in Key : stateSet[k] # st
  BY Zenon, <1>3 DEF Live, Waiting, Queued, InLoop, Adding, Registering, LeaseType
<1>4. OneTimerPerKey'
  <2>1. ASSUME NEW k \in Key, stateSet[k] # NoState
        PROVE  /\ heap'[stateSet[k]].key = k
               /\ k \notin orphaned => LET st == stateSet[k] IN Waiting(st) \/ Queued(st) \/ InLoop(st) \/ Adding(st)
    <3>1. stateSet[k] \in StateId /\ Live(stateSet[k])
      BY Zenon, <2>1 DEF LeaseType, Live
    <3> QED
      BY Zenon, <2>1, <3>1 DEF OneTimerPerKey
  <2>2. ASSUME NEW st \in StateId
        PROVE  /\ Waiting(st) \/ Queued(st) \/ InLoop(st) \/ Adding(st) =>
                     stateSet[heap'[st].key] = st /\ heap'[st].key \notin orphaned
               /\ Waiting(st) => ~Queued(st) /\ ~InLoop(st) /\ ~Adding(st)
               /\ Queued(st) => ~InLoop(st) /\ ~Adding(st)
               /\ InLoop(st) => ~Adding(st)
    BY Zenon, <1>3 DEF OneTimerPerKey
  <2> QED
    BY Zenon, <1>1, <2>1, <2>2 DEF OneTimerPerKey, Waiting, Queued, InLoop, Adding
<1> QED
  BY Zenon, <1>2, <1>4

(* Where a request goes on after a rule.                                   *)
LEMMA ProceedPc ==
    ASSUME NEW q \in ReqRecord, NEW a, NEW pc
    PROVE  /\ Proceed(q).pc = "next"
           /\ Proceed([q EXCEPT !.allowed = a]).pc = "next"
           /\ [q EXCEPT !.pc = pc].pc = pc
           /\ [q EXCEPT !.pc = pc, !.allowed = a].pc = pc
BY Zenon DEF Proceed, ReqRecord

(* The steps of Sync, and of requests that do not register.                *)
LEMMA OtherSteps ==
    ASSUME StoreInv, LeaseInv,
           \/ \E c \in Config : SyncUpdate(c) \/ SyncRecover(c)
           \/ (\E b \in Breaker : SyncDelete(b)) \/ SyncStep
           \/ \E r \in Request :
                 \/ \E seeds \in Lookup : Start(r, seeds)
                 \/ LookUp(r) \/ PickRule(r) \/ Normal(r) \/ Return(r) \/ RegisterState(r)
                 \/ ForceOpened(r) \/ ForceClosed(r) \/ LimiterOnly(r) \/ Reset(r) \/ Trigger(r)
    PROVE  LeaseInv'
<1> USE DEF StoreInv, TypeOK
<1>1. CASE \/ \E c \in Config : SyncUpdate(c) \/ SyncRecover(c)
           \/ \E b \in Breaker : SyncDelete(b)
           \/ UnregisterRule
  BY Zenon, <1>1, LeaseKept DEF SyncUpdate, SyncRecover, SyncDelete, UnregisterRule, lease
<1>2. CASE RegisterRule
  <2>1. UNCHANGED <<lease, loop, req>>
    BY Zenon, <1>2 DEF RegisterRule
  <2>2. \A st \in StateId : heap'[st].key = heap[st].key \/ ~Live(st)
    BY Zenon, <1>2 DEF RegisterRule, HeapType
  <2> QED
    BY Zenon, <2>1, <2>2, LeaseKept DEF lease
<1>3. CASE RecoverRule
  <2>1. UNCHANGED <<lease, loop, req>>
    BY Zenon, <1>3 DEF RecoverRule
  <2>2. \A st \in StateId : heap'[st].key = heap[st].key
    BY Zenon, <1>3 DEF RecoverRule, recoverBreaker, HeapType
  <2> QED
    BY Zenon, <2>1, <2>2, LeaseKept DEF lease
<1>4. ASSUME NEW r \in Request,
             \/ \E seeds \in Lookup : Start(r, seeds)
             \/ LookUp(r) \/ PickRule(r) \/ Normal(r) \/ Return(r) \/ RegisterState(r)
      PROVE  LeaseInv'
  <2>1. UNCHANGED <<heap, lease, loop>>
    BY Zenon, <1>4 DEF Start, LookUp, PickRule, Normal, Return, RegisterState
  <2>2. req[r].pc # "addAfter" /\ req'[r].pc # "addAfter"
    <3>1. CASE \E seeds \in Lookup : Start(r, seeds)
      BY Zenon, <3>1 DEF Start, ReqType, ReqRecord
    <3>2. CASE LookUp(r)
      <4>1. /\ req[r].pc = "lookup"
            /\ \/ \E S : req' = [req EXCEPT ![r] = [req[r] EXCEPT !.pc = "next", !.seeds = <<>>, !.todo = S]]
               \/ \E q : req' = [req EXCEPT ![r] = [req[r] EXCEPT !.seeds = q]]
               \/ req' = [req EXCEPT ![r] = IdleReq]
        BY Zenon, <3>2 DEF LookUp, ReqType
      <4>2. /\ req[r] \in ReqRecord
            /\ \/ \E S : req'[r] = [req[r] EXCEPT !.pc = "next", !.seeds = <<>>, !.todo = S]
               \/ \E q : req'[r] = [req[r] EXCEPT !.seeds = q]
               \/ req'[r] = IdleReq
        BY Zenon, <4>1 DEF ReqType
      <4>3. req'[r].pc \in {"next", "lookup", "idle"}
        <5>1. ASSUME NEW S, req'[r] = [req[r] EXCEPT !.pc = "next", !.seeds = <<>>, !.todo = S] PROVE req'[r].pc = "next"
          BY Zenon, <4>2, <5>1 DEF ReqRecord
        <5>2. ASSUME NEW q, req'[r] = [req[r] EXCEPT !.seeds = q] PROVE req'[r].pc = "lookup"
          BY Zenon, <4>1, <4>2, <5>2 DEF ReqRecord
        <5>3. ASSUME req'[r] = IdleReq PROVE req'[r].pc = "idle"
          BY <5>3 DEF IdleReq
        <5> QED
          BY Zenon, <4>2, <5>1, <5>2, <5>3
      <4> QED
        BY Zenon, <4>1, <4>3
    <3>3. CASE PickRule(r)
      <4>1. PICK e \in req[r].todo :
                req' = [req EXCEPT ![r].todo = @ \ {e}, ![r].cur = e, ![r].pc = "policy",
                                   ![r].allowed = @ /\ ~Opened(e.st)]
        BY Zenon, <3>3 DEF PickRule
      <4>2. req'[r].pc = "policy"
        BY Zenon, <4>1 DEF ReqType, ReqRecord
      <4> QED
        BY Zenon, <3>3, <4>2 DEF PickRule
    <3>4. CASE Normal(r)
      <4>1. /\ req[r].pc = "policy"
            /\ \/ req' = [req EXCEPT ![r] = Proceed(req[r])]
               \/ \E a \in BOOLEAN :
                     req' = [req EXCEPT ![r].pc = IF a THEN "reset" ELSE "trigger", ![r].allowed = @ /\ a]
        BY Zenon, <3>4 DEF Normal
      <4>2. req[r] \in ReqRecord /\ req \in [Request -> ReqRecord]
        BY Zenon DEF ReqType
      <4>3. CASE req' = [req EXCEPT ![r] = Proceed(req[r])]
        BY Zenon, <4>1, <4>2, <4>3, ProceedPc
      <4>4. ASSUME NEW a \in BOOLEAN,
                   req' = [req EXCEPT ![r].pc = IF a THEN "reset" ELSE "trigger", ![r].allowed = @ /\ a]
            PROVE  req'[r].pc # "addAfter"
        <5> DEFINE to == IF a THEN "reset" ELSE "trigger"
        <5>1. req'[r] = [req[r] EXCEPT !.pc = to, !.allowed = @ /\ a]
          BY Zenon, <4>2, <4>4
        <5>2. to # "addAfter"
          BY Zenon
        <5> HIDE DEF to
        <5>3. req'[r].pc = to
          BY <4>2, <5>1, ProceedPc
        <5> QED
          BY Zenon, <5>2, <5>3
      <4> QED
        BY Zenon, <4>1, <4>3, <4>4
    <3>5. CASE Return(r)
      BY Zenon, <3>5 DEF Return, IdleReq, ReqType, ReqRecord
    <3>6. CASE RegisterState(r)
      BY Zenon, <3>6 DEF RegisterState, Proceed, ReqType, ReqRecord
    <3> QED
      BY Zenon, <1>4, <3>1, <3>2, <3>3, <3>4, <3>5, <3>6
  <2>3. \A p \in Request \ {r} : req'[p] = req[p]
    BY Zenon, <1>4 DEF Start, LookUp, PickRule, Normal, Return, RegisterState, ReqType
  <2> QED
    BY Zenon, <2>1, <2>2, <2>3, LeaseKept DEF lease
<1>5. ASSUME NEW r \in Request, ForceOpened(r) \/ ForceClosed(r) \/ LimiterOnly(r) \/ Reset(r) \/ Trigger(r)
      PROVE  LeaseInv'
  <2>1. UNCHANGED <<lease, loop>>
    BY Zenon, <1>5 DEF ForceOpened, ForceClosed, LimiterOnly, Reset, Trigger
  <2>2. req[r].pc # "addAfter" /\ req'[r].pc # "addAfter"
    <3>1. CASE ForceOpened(r)
      BY Zenon, <3>1, ProceedPc DEF ForceOpened, ReqType
    <3>2. CASE ForceClosed(r)
      BY Zenon, <3>2, ProceedPc DEF ForceClosed, ReqType
    <3>3. CASE LimiterOnly(r)
      <4>1. PICK a \in BOOLEAN : req' = [req EXCEPT ![r] = Proceed([req[r] EXCEPT !.allowed = req[r].allowed /\ a])]
        BY <3>3, Zenon DEF LimiterOnly
      <4>2. req[r] \in ReqRecord /\ req'[r] = Proceed([req[r] EXCEPT !.allowed = req[r].allowed /\ a])
        BY Zenon, <4>1 DEF ReqType
      <4> QED
        BY Zenon, <3>3, <4>2, ProceedPc DEF LimiterOnly
    <3>4. CASE Reset(r)
      BY Zenon, <3>4, ProceedPc DEF Reset, ReqType
    <3>5. CASE Trigger(r)
      <4>1. /\ req[r].pc = "trigger"
            /\ \/ req' = [req EXCEPT ![r] = [req[r] EXCEPT !.pc = "register"]]
               \/ req' = [req EXCEPT ![r] = Proceed(req[r])]
               \/ req' = [req EXCEPT ![r] = IdleReq]
        BY Zenon, <3>5 DEF Trigger, ReqType
      <4>2. /\ req[r] \in ReqRecord
            /\ req'[r] \in {[req[r] EXCEPT !.pc = "register"], Proceed(req[r]), IdleReq}
        BY Zenon, <4>1 DEF ReqType
      <4>3. req'[r].pc \in {"register", "next", "idle"}
        <5>1. [req[r] EXCEPT !.pc = "register"].pc = "register"
          BY Zenon, <4>2 DEF ReqRecord
        <5>2. Proceed(req[r]).pc = "next"
          BY Zenon, <4>2 DEF Proceed, ReqRecord
        <5>3. IdleReq.pc = "idle"
          BY Zenon DEF IdleReq
        <5> QED
          BY Zenon, <4>2, <5>1, <5>2, <5>3
      <4> QED
        BY Zenon, <4>1, <4>3
    <3> QED
      BY Zenon, <1>5, <3>1, <3>2, <3>3, <3>4, <3>5
  <2>3. \A p \in Request \ {r} : req'[p] = req[p]
    BY Zenon, <1>5 DEF ForceOpened, ForceClosed, LimiterOnly, Reset, Trigger, ReqType
  <2>4. \A st \in StateId : heap'[st].key = heap[st].key
    <3>1. CASE ForceOpened(r)
      BY Zenon, <3>1 DEF ForceOpened, triggerBreaker, HeapType
    <3>2. CASE ForceClosed(r)
      BY Zenon, <3>2 DEF ForceClosed, recoverBreaker, HeapType
    <3>3. CASE LimiterOnly(r)
      BY Zenon, <3>3 DEF LimiterOnly, recoverBreaker, HeapType
    <3>4. CASE Reset(r)
      BY Zenon, <3>4 DEF Reset, recoverBreaker, HeapType
    <3>5. CASE Trigger(r)
      <4>1. \/ heap' = [heap EXCEPT ![req[r].cur.st] = triggerBreakerWithTimeWindow(@, req[r].cur.rule.window)]
            \/ heap' = [heap EXCEPT ![req[r].cur.st] = triggerBreaker(@)]
            \/ heap' = heap
        BY Zenon, <3>5 DEF Trigger
      <4>2. ASSUME NEW o \in [key : Key, state : {"OPENED", "CLOSED"}, recoverAt : Ticks], NEW w
            PROVE  triggerBreakerWithTimeWindow(o, w).key = o.key /\ triggerBreaker(o).key = o.key
        BY Zenon DEF triggerBreaker, triggerBreakerWithTimeWindow
      <4> QED
        BY <4>1, <4>2 DEF HeapType
    <3> QED
      BY Zenon, <1>5, <3>1, <3>2, <3>3, <3>4, <3>5
  <2> QED
    BY Zenon, <2>1, <2>2, <2>3, <2>4, LeaseKept DEF lease
<1> QED
  BY Zenon, <1>1, <1>2, <1>3, <1>4, <1>5 DEF SyncStep

(* OneTimerPerKey as set algebra: the timers in their four places, what    *)
(* they say of stateSet, and that the places do not overlap.               *)
WaitingSet == {st \in StateId : Waiting(st)}
LoopSet == {st \in StateId : InLoop(st)}
Timed == WaitingSet \cup stateQueue.dirty \cup LoopSet \cup Registering

Owned ==
    /\ \A k \in Key : stateSet[k] # NoState =>
          heap[stateSet[k]].key = k /\ (k \notin orphaned => stateSet[k] \in Timed)
    /\ \A st \in Timed : stateSet[heap[st].key] = st /\ heap[st].key \notin orphaned

Apart ==
    /\ WaitingSet \cap stateQueue.dirty = {} /\ WaitingSet \cap LoopSet = {} /\ WaitingSet \cap Registering = {}
    /\ stateQueue.dirty \cap LoopSet = {} /\ stateQueue.dirty \cap Registering = {}
    /\ LoopSet \cap Registering = {}

(* The states that requests are registering are state objects.             *)
LEMMA RegisteringType == ReqType => Registering \subseteq StateId
<1> SUFFICES ASSUME ReqType, NEW r \in Request, req[r].pc = "addAfter" PROVE req[r].cur.st \in StateId
  BY Zenon DEF Registering
<1>1. req[r].cur \in Entry
  BY Zenon DEF ReqType, ReqRecord, Handling
<1> QED
  BY Zenon, <1>1 DEF Entry

(* OneTimerPerKey, split into what one key owns and that no two share.     *)
LEMMA OwnedAndApart == TypeOK => (OneTimerPerKey <=> Owned /\ Apart)
<1> SUFFICES ASSUME TypeOK PROVE OneTimerPerKey <=> Owned /\ Apart
  BY Zenon
<1> USE DEF TypeOK
<1>1. /\ \A st \in StateId : /\ st \in WaitingSet <=> Waiting(st)
                             /\ st \in stateQueue.dirty <=> Queued(st)
                             /\ st \in LoopSet <=> InLoop(st)
                             /\ st \in Registering <=> Adding(st)
                             /\ st \in Timed <=> Waiting(st) \/ Queued(st) \/ InLoop(st) \/ Adding(st)
      /\ Timed \subseteq StateId /\ WaitingSet \subseteq StateId /\ stateQueue.dirty \subseteq StateId
      /\ LoopSet \subseteq StateId /\ Registering \subseteq StateId
  BY Zenon, RegisteringType DEF WaitingSet, LoopSet, Timed, Queued, Adding, LeaseType
<1>2. \A k \in Key : stateSet[k] # NoState => stateSet[k] \in StateId
  BY Zenon DEF LeaseType
<1>3. OneTimerPerKey => Owned
  BY Zenon, <1>1, <1>2 DEF OneTimerPerKey, Owned
<1>4. OneTimerPerKey => Apart
  BY Zenon, <1>1 DEF OneTimerPerKey, Apart
<1>5. Owned /\ Apart => OneTimerPerKey
  <2> SUFFICES ASSUME Owned, Apart PROVE OneTimerPerKey
    BY Zenon
  <2>1. ASSUME NEW k \in Key, stateSet[k] # NoState
        PROVE  /\ heap[stateSet[k]].key = k
               /\ k \notin orphaned => LET st == stateSet[k] IN Waiting(st) \/ Queued(st) \/ InLoop(st) \/ Adding(st)
    BY Zenon, <1>1, <1>2, <2>1 DEF Owned
  <2>2. ASSUME NEW st \in StateId
        PROVE  /\ Waiting(st) \/ Queued(st) \/ InLoop(st) \/ Adding(st) =>
                     stateSet[heap[st].key] = st /\ heap[st].key \notin orphaned
               /\ Waiting(st) => ~Queued(st) /\ ~InLoop(st) /\ ~Adding(st)
               /\ Queued(st) => ~InLoop(st) /\ ~Adding(st)
               /\ InLoop(st) => ~Adding(st)
    BY Zenon, <1>1 DEF Owned, Apart
  <2> QED
    BY Zenon, <2>1, <2>2 DEF OneTimerPerKey
<1> QED
  BY Zenon, <1>3, <1>4, <1>5

(* Moving a timer from one place to another leaves its owner as it is.     *)
LEMMA TimedKept ==
    ASSUME StoreInv, StoreInv', LeaseInv, Timed' = Timed, Apart', UNCHANGED <<stateSet, orphaned>>,
           \A st \in StateId : heap'[st].key = heap[st].key
    PROVE  OneTimerPerKey'
<1>1. Owned /\ Timed \subseteq StateId
  BY Zenon, OwnedAndApart, RegisteringType DEF LeaseInv, StoreInv, TypeOK, Timed, WaitingSet, LoopSet, LeaseType
<1>2. \A k \in Key : stateSet[k] # NoState => stateSet[k] \in StateId
  BY Zenon DEF StoreInv, TypeOK, LeaseType
<1>3. Owned'
  BY Zenon, <1>1, <1>2 DEF Owned
<1> QED
  BY <1>3, OwnedAndApart, PTL DEF StoreInv

(* What the invariants say of the current state, in terms of sets.         *)
LEMMA LeaseFacts ==
    ASSUME StoreInv, LeaseInv
    PROVE  /\ Owned /\ Apart /\ OrphansKept /\ LeaseMutex
           /\ Shape(stateQueue) /\ stateQueue.processing = {loop.st} \ {NoState}
           /\ Timed \subseteq StateId
           /\ stateQueue \in Queue
           /\ \A k \in Key : stateSet[k] # NoState => stateSet[k] \in StateId
  BY Zenon, OwnedAndApart, RegisteringType, QueueShapeIsShape
     DEF StoreInv, TypeOK, LeaseInv, LeaseType, Queue, Timed, WaitingSet, LoopSet

(* How LeaseInv is put together again after a step.                        *)
LEMMA LeaseFactsNext ==
    ASSUME StoreInv', Owned', Apart', OrphansKept', LeaseMutex',
           Shape(stateQueue)', (stateQueue.processing = {loop.st} \ {NoState})'
    PROVE  LeaseInv'
  BY OwnedAndApart, QueueShapeIsShape, PTL DEF LeaseInv, StoreInv

(* A registration enters stateSet: its key was not there, so no timer of   *)
(* the key is anywhere, and the key is not orphaned.                       *)
LEMMA InsertStep ==
    ASSUME StoreInv, StoreInv', LeaseInv, NEW r \in Request, InsertState(r)
    PROVE  LeaseInv'
<1> USE DEF StoreInv, TypeOK
<1> DEFINE st == req[r].cur.st
           k == heap[st].key
<1>0. /\ req[r] \in ReqRecord /\ req[r].pc = "insert" /\ st \in StateId /\ k \in Key
      /\ \A p \in Request : req[p].pc # "addAfter"
      /\ UNCHANGED <<heap, stateQueue, orphaned, loop>>
  BY Zenon DEF InsertState, LeaseFree, ReqType, ReqRecord, Handling, Entry, HeapType
<1>1. CASE stateSet[k] = NoState /\ heap[st].recoverAt # NoTime
  <2>1. /\ stateSet' = [stateSet EXCEPT ![k] = st]
        /\ req' = [req EXCEPT ![r].pc = "addAfter"]
    BY Zenon, <1>1 DEF InsertState
  <2>2. Registering = {} /\ Registering' = {st}
    <3>1. req'[r].pc = "addAfter" /\ req'[r].cur = req[r].cur
      BY Zenon, <1>0, <2>1 DEF ReqType, ReqRecord
    <3>2. \A p \in Request \ {r} : req'[p] = req[p]
      BY Zenon, <2>1 DEF ReqType
    <3> QED
      BY Zenon, <1>0, <3>1, <3>2 DEF Registering
  <2> HIDE DEF st, k
  <2>3. k = heap[st].key
    BY Zenon DEF k, st
  <2>4. LeaseMutex'
    <3>1. \A p \in Request \ {r} : req'[p].pc # "addAfter"
      BY Zenon, <1>0, <2>1 DEF ReqType
    <3> QED
      BY Zenon, <3>1 DEF LeaseMutex
  <2>5. k \notin orphaned
    BY Zenon, <1>1, LeaseFacts DEF OrphansKept
  <2>6. st \notin Timed
    BY Zenon, <1>1, <2>3, <1>0, LeaseFacts DEF Owned
  <2>7. WaitingSet' = WaitingSet /\ LoopSet' = LoopSet /\ stateQueue'.dirty = stateQueue.dirty
    BY Zenon, <1>0 DEF WaitingSet, LoopSet, Waiting, InLoop
  <2>8. Timed' = Timed \cup {st} /\ Apart'
    BY Zenon, <2>2, <2>6, <2>7, LeaseFacts DEF Timed, Apart
  <2>9. Owned'
    <3>1. ASSUME NEW j \in Key, stateSet'[j] # NoState
          PROVE  heap'[stateSet'[j]].key = j /\ (j \notin orphaned' => stateSet'[j] \in Timed')
      BY Zenon, <1>0, <2>1, <2>3, <2>8, <3>1, LeaseFacts DEF Owned, LeaseType
    <3>2. ASSUME NEW x \in Timed'
          PROVE  stateSet'[heap'[x].key] = x /\ heap'[x].key \notin orphaned'
      BY <1>0, <1>1, <2>1, <2>3, <2>5, <2>8, LeaseFacts DEF Owned, LeaseType
    <3> QED
      BY Zenon, <3>1, <3>2 DEF Owned
  <2>10. OrphansKept'
    BY Zenon, <1>0, <2>1, LeaseFacts DEF OrphansKept, LeaseType
  <2>11. Shape(stateQueue)' /\ (stateQueue.processing = {loop.st} \ {NoState})'
    BY <1>0, LeaseFacts DEF Shape
  <2> QED
    BY Zenon, <2>4, <2>8, <2>9, <2>10, <2>11, LeaseFactsNext
<1>2. CASE ~(stateSet[k] = NoState /\ heap[st].recoverAt # NoTime)
  <2>1. UNCHANGED stateSet /\ req' = [req EXCEPT ![r] = Proceed(req[r])]
    BY Zenon, <1>2 DEF InsertState
  <2>2. req'[r].pc = "next" /\ \A p \in Request \ {r} : req'[p] = req[p]
    BY Zenon, <1>0, <2>1 DEF ReqType, ReqRecord, Proceed
  <2> QED
    BY Zenon, <1>0, <2>1, <2>2, LeaseKept
<1> QED
  BY Zenon, <1>1, <1>2

(* A registration ends: its timer is in the queue, or it panicked and its  *)
(* key is an orphan.                                                       *)
LEMMA AddStep ==
    ASSUME StoreInv, StoreInv', LeaseInv, NEW r \in Request, AddStateAfter(r)
    PROVE  LeaseInv'
<1> USE DEF StoreInv, TypeOK
<1> DEFINE st == req[r].cur.st
<1>0. /\ req[r] \in ReqRecord /\ req[r].pc = "addAfter" /\ st \in StateId
      /\ heap[st].key \in Key /\ heap[st].recoverAt \in Ticks
      /\ UNCHANGED <<heap, stateSet, loop>>
  BY Zenon DEF AddStateAfter, ReqType, ReqRecord, Handling, Entry, HeapType
<1>1. req'[r].pc # "addAfter" /\ \A p \in Request \ {r} : req'[p] = req[p]
  <2>1. req' = [req EXCEPT ![r] = Proceed(req[r])] \/ req' = [req EXCEPT ![r] = IdleReq]
    BY Zenon DEF AddStateAfter
  <2>2. req'[r] = Proceed(req[r]) \/ req'[r] = IdleReq
    BY Zenon, <2>1 DEF ReqType
  <2>3. Proceed(req[r]).pc = "next" /\ IdleReq.pc = "idle"
    BY Zenon, <1>0 DEF Proceed, IdleReq, ReqRecord
  <2> QED
    BY Zenon, <2>1, <2>2, <2>3 DEF ReqType
<1>2. Registering = {st} /\ Registering' = {}
  BY <1>0, <1>1, LeaseFacts DEF Registering, LeaseMutex
<1>3. LeaseMutex'
  BY Zenon, <1>1, LeaseFacts DEF LeaseMutex
<1>4. /\ stateSet[heap[st].key] = st /\ heap[st].key \notin orphaned
      /\ st \notin WaitingSet \cup stateQueue.dirty \cup LoopSet
  <2> HIDE DEF st
  <2>1. Owned /\ Apart
    BY Zenon, LeaseFacts
  <2>2. stateSet[heap[st].key] = st /\ heap[st].key \notin orphaned
    BY Zenon, <1>2, <2>1 DEF Owned, Timed
  <2>3. st \notin WaitingSet \cup stateQueue.dirty \cup LoopSet
    BY Zenon, <1>2, <2>1 DEF Apart
  <2> QED
    BY Zenon, <2>2, <2>3
<1> HIDE DEF st
<1>5. LoopSet' = LoopSet
  BY Zenon, <1>0 DEF LoopSet, InLoop
<1>6. CASE heap[st].recoverAt # NoTime
  <2>1. stateQueue' = AddAfter(stateQueue, st, heap[st].recoverAt) /\ UNCHANGED orphaned
    BY Zenon, <1>6 DEF AddStateAfter, st
  <2>2. /\ Shape(stateQueue)' /\ stateQueue'.processing = stateQueue.processing
        /\ \/ /\ stateQueue'.dirty = stateQueue.dirty \cup {st}
              /\ stateQueue'.waiting = stateQueue.waiting
           \/ /\ stateQueue'.dirty = stateQueue.dirty
              /\ \E t \in Ticks \ {NoTime} : stateQueue'.waiting = [stateQueue.waiting EXCEPT ![st] = t]
    <3> DEFINE added == AddAfter(stateQueue, st, heap[st].recoverAt)
    <3>1. stateQueue \in Queue /\ Shape(stateQueue) /\ st \in StateId /\ heap[st].recoverAt \in Ticks
      BY Zenon, <1>0, LeaseFacts
    <3>2. /\ Shape(added) /\ added.processing = stateQueue.processing
          /\ \/ /\ added.dirty = stateQueue.dirty \cup {st}
                /\ added.waiting = stateQueue.waiting
             \/ /\ added.dirty = stateQueue.dirty
                /\ \E t \in Ticks \ {NoTime} : added.waiting = [stateQueue.waiting EXCEPT ![st] = t]
      BY Zenon, <3>1, AddAfterShape
    <3>3. stateQueue' = added
      BY Zenon, <2>1
    <3> HIDE DEF added
    <3>4. Shape(stateQueue)'
      BY <3>2, <3>3 DEF Shape
    <3> QED
      BY <3>2, <3>3, <3>4, Zenon
  <2>3. \/ WaitingSet' = WaitingSet /\ stateQueue'.dirty = stateQueue.dirty \cup {st}
        \/ WaitingSet' = WaitingSet \cup {st} /\ stateQueue'.dirty = stateQueue.dirty
    <3>1. stateQueue.waiting \in [StateId -> Ticks] /\ st \in StateId
      BY Zenon, <1>0, LeaseFacts DEF Queue
    <3>2. CASE stateQueue'.dirty = stateQueue.dirty \cup {st} /\ stateQueue'.waiting = stateQueue.waiting
      BY Zenon, <3>2 DEF WaitingSet, Waiting
    <3>3. ASSUME stateQueue'.dirty = stateQueue.dirty, NEW t \in Ticks \ {NoTime},
                 stateQueue'.waiting = [stateQueue.waiting EXCEPT ![st] = t]
          PROVE  WaitingSet' = WaitingSet \cup {st}
      BY Zenon, <3>1, <3>3 DEF WaitingSet, Waiting
    <3> QED
      BY Zenon, <2>2, <3>2, <3>3
  <2>4. Timed' = Timed /\ Apart'
    BY Zenon, <1>2, <1>4, <1>5, <2>3, LeaseFacts DEF Timed, Apart
  <2>5. OneTimerPerKey'
    BY Zenon, <1>0, <2>1, <2>4, TimedKept
  <2>6. OrphansKept' /\ (stateQueue.processing = {loop.st} \ {NoState})'
    BY Zenon, <1>0, <2>1, <2>2, LeaseFacts DEF OrphansKept
  <2>7. QueueShape'
    BY <2>2, <2>6, QueueShapeIsShape, PTL
  <2> QED
    BY Zenon, <1>3, <2>5, <2>6, <2>7 DEF LeaseInv
<1>7. CASE heap[st].recoverAt = NoTime
  <2>1. orphaned' = orphaned \cup {heap[st].key} /\ UNCHANGED stateQueue
    BY Zenon, <1>7 DEF AddStateAfter, st
  <2>2. WaitingSet' = WaitingSet /\ stateQueue'.dirty = stateQueue.dirty
    BY Zenon, <2>1 DEF WaitingSet, Waiting
  <2>3. Timed' = Timed \ {st} /\ Apart'
    BY Zenon, <1>2, <1>4, <1>5, <2>2, LeaseFacts DEF Timed, Apart
  <2>4. Owned'
    BY Zenon, <1>0, <1>4, <2>1, <2>3, LeaseFacts DEF Owned
  <2>5. OrphansKept'
    BY Zenon, <1>0, <1>4, <2>1, LeaseFacts DEF OrphansKept
  <2>6. Shape(stateQueue)' /\ (stateQueue.processing = {loop.st} \ {NoState})'
    BY <1>0, <2>1, LeaseFacts DEF Shape
  <2> QED
    BY Zenon, <1>3, <2>3, <2>4, <2>5, <2>6, LeaseFactsNext
<1> QED
  BY Zenon, <1>6, <1>7

(* The steps of processingLoop.                                            *)
LEMMA LoopSteps ==
    ASSUME StoreInv, StoreInv', LeaseInv, LoopStep
    PROVE  LeaseInv'
<1> USE DEF StoreInv, TypeOK
<1>0. /\ UNCHANGED req
      /\ loop.pc # "get" => loop.st \in StateId
  BY Zenon DEF LoopStep, LoopGet, LoopRead, LoopRequeue, LoopDelete, LoopRecover, LoopDone, LoopType
<1>1. Registering' = Registering /\ LeaseMutex'
  BY Zenon, <1>0, LeaseFacts DEF Registering, LeaseMutex
<1>2. CASE LoopGet
  <2> DEFINE h == Head(stateQueue.queue)
  <2>1. /\ stateQueue.queue # <<>> /\ loop.pc = "get" /\ loop.st = NoState
        /\ stateQueue' = Get(stateQueue)
        /\ loop' = [loop EXCEPT !.pc = "read", !.st = h]
        /\ UNCHANGED <<heap, stateSet, orphaned>>
    BY Zenon, <1>2 DEF LoopGet, LoopType
  <2>2. /\ Shape(Get(stateQueue))
        /\ h \in stateQueue.dirty \ stateQueue.processing
        /\ stateQueue'.dirty = stateQueue.dirty \ {h}
        /\ stateQueue'.processing = stateQueue.processing \cup {h}
        /\ stateQueue'.waiting = stateQueue.waiting
    BY Zenon, <2>1, LeaseFacts, GetShape
  <2>3. h \in StateId
    BY Zenon, <2>2, LeaseFacts DEF Timed
  <2> HIDE DEF h
  <2>4. loop'.pc = "read" /\ loop'.st = h
    BY Zenon, <2>1 DEF LoopType
  <2>5. WaitingSet' = WaitingSet /\ LoopSet = {} /\ LoopSet' = {h}
    BY Zenon, <2>1, <2>2, <2>3, <2>4 DEF WaitingSet, LoopSet, Waiting, InLoop
  <2>6. Timed' = Timed /\ Apart'
    BY <1>1, <2>2, <2>5, LeaseFacts DEF Timed, Apart
  <2>7. OneTimerPerKey'
    BY Zenon, <2>1, <2>6, TimedKept
  <2>8. OrphansKept' /\ (stateQueue.processing = {loop.st} \ {NoState})'
    BY Zenon, <2>1, <2>2, <2>3, <2>4, LeaseFacts DEF OrphansKept
  <2>9. Shape(stateQueue)'
    BY <2>1, <2>2 DEF Shape
  <2>10. QueueShape'
    BY <2>8, <2>9, QueueShapeIsShape, PTL
  <2> QED
    BY Zenon, <1>1, <2>7, <2>8, <2>10 DEF LeaseInv
<1>3. CASE LoopRead
  <2>1. /\ UNCHANGED <<heap, stateSet, stateQueue, orphaned>>
        /\ loop.pc = "read" /\ loop'.pc \in {"requeue", "delete"} /\ loop'.st = loop.st
    BY Zenon, <1>3 DEF LoopRead, LoopType, lease
  <2>2. WaitingSet' = WaitingSet /\ LoopSet' = LoopSet /\ stateQueue'.dirty = stateQueue.dirty
    BY Zenon, <2>1 DEF WaitingSet, LoopSet, Waiting, InLoop
  <2>3. Timed' = Timed /\ Apart'
    BY Zenon, <1>1, <2>2, LeaseFacts DEF Timed, Apart
  <2>4. OneTimerPerKey'
    BY Zenon, <2>1, <2>3, TimedKept
  <2>5. OrphansKept'
    BY Zenon, <2>1, LeaseFacts DEF OrphansKept
  <2>5a. Shape(stateQueue)' /\ (stateQueue.processing = {loop.st} \ {NoState})'
    BY <2>1, LeaseFacts DEF Shape
  <2>5b. QueueShape'
    BY <2>5a, QueueShapeIsShape, PTL
  <2> QED
    BY Zenon, <1>1, <2>4, <2>5, <2>5b DEF LeaseInv
<1>4. CASE LoopRequeue
  <2> DEFINE st == loop.st
  <2>1. /\ loop.pc = "requeue" /\ loop'.pc = "done" /\ loop'.st = st
        /\ stateQueue' = AddAfter(stateQueue, st, loop.at)
        /\ st \in StateId /\ loop.at \in Ticks
        /\ UNCHANGED <<heap, stateSet, orphaned>>
    BY Zenon, <1>4 DEF LoopRequeue, LoopType
  <2>2. /\ Shape(AddAfter(stateQueue, st, loop.at)) /\ stateQueue'.processing = stateQueue.processing
        /\ \/ /\ stateQueue'.dirty = stateQueue.dirty \cup {st}
              /\ stateQueue'.waiting = stateQueue.waiting
           \/ /\ stateQueue'.dirty = stateQueue.dirty
              /\ \E t \in Ticks \ {NoTime} : stateQueue'.waiting = [stateQueue.waiting EXCEPT ![st] = t]
    BY <2>1, LeaseFacts, AddAfterShape
  <2>3. LoopSet = {st} /\ LoopSet' = {}
    BY Zenon, <2>1 DEF LoopSet, InLoop
  <2> HIDE DEF st
  <2>4. \/ WaitingSet' = WaitingSet /\ stateQueue'.dirty = stateQueue.dirty \cup {st}
        \/ WaitingSet' = WaitingSet \cup {st} /\ stateQueue'.dirty = stateQueue.dirty
    <3>1. CASE stateQueue'.waiting = stateQueue.waiting /\ stateQueue'.dirty = stateQueue.dirty \cup {st}
      BY Zenon, <3>1 DEF WaitingSet, Waiting
    <3>2. CASE /\ stateQueue'.dirty = stateQueue.dirty
               /\ \E t \in Ticks \ {NoTime} : stateQueue'.waiting = [stateQueue.waiting EXCEPT ![st] = t]
      <4>1. PICK t \in Ticks \ {NoTime} : stateQueue'.waiting = [stateQueue.waiting EXCEPT ![st] = t]
        BY Zenon, <3>2
      <4>2. \A x \in StateId : stateQueue'.waiting[x] = IF x = st THEN t ELSE stateQueue.waiting[x]
        BY Zenon, <4>1, LeaseFacts DEF Queue
      <4> QED
        BY <2>1, <3>2, <4>1, <4>2 DEF WaitingSet, Waiting
    <3> QED
      BY Zenon, <2>2, <3>1, <3>2
  <2>5. Timed' = Timed /\ Apart'
    BY Zenon, <1>1, <2>3, <2>4, LeaseFacts DEF Timed, Apart
  <2>6. OneTimerPerKey'
    BY Zenon, <2>1, <2>5, TimedKept
  <2>7. OrphansKept' /\ (stateQueue.processing = {loop.st} \ {NoState})'
    BY Zenon, <2>1, <2>2, LeaseFacts DEF OrphansKept, st
  <2>8. Shape(stateQueue)'
    BY <2>1, <2>2 DEF Shape
  <2>9. QueueShape'
    BY <2>7, <2>8, QueueShapeIsShape, PTL
  <2> QED
    BY Zenon, <1>1, <2>6, <2>7, <2>9 DEF LeaseInv
<1>5. CASE LoopDelete
  <2> DEFINE st == loop.st
             k == heap[st].key
  <2>1. /\ loop.pc = "delete" /\ loop'.pc = "recover" /\ loop'.st = st
        /\ st \in StateId /\ k \in Key
        /\ stateSet' = [stateSet EXCEPT ![k] = NoState]
        /\ orphaned' = orphaned \ {k}
        /\ UNCHANGED <<heap, stateQueue>>
    BY Zenon, <1>5 DEF LoopDelete, LoopType, HeapType
  <2>2. LoopSet = {st} /\ LoopSet' = {} /\ WaitingSet' = WaitingSet
    BY Zenon, <2>1 DEF LoopSet, InLoop, WaitingSet, Waiting
  <2> HIDE DEF st, k
  <2>3. k = heap[st].key
    BY Zenon DEF k
  <2>4. Timed' = Timed \ {st} /\ Apart' /\ st \in Timed
    BY Zenon, <1>1, <2>1, <2>2, LeaseFacts DEF Timed, Apart
  <2>5. stateSet[k] = st
    BY Zenon, <2>3, <2>4, LeaseFacts DEF Owned
  <2>6. Owned'
    <3>1. ASSUME NEW j \in Key, stateSet'[j] # NoState
          PROVE  heap'[stateSet'[j]].key = j /\ (j \notin orphaned' => stateSet'[j] \in Timed')
      <4>1. j # k /\ stateSet'[j] = stateSet[j]
        BY Zenon, <2>1, <3>1 DEF LeaseType
      <4>2. heap[stateSet[j]].key = j /\ (j \notin orphaned => stateSet[j] \in Timed)
        BY Zenon, <3>1, <4>1, LeaseFacts DEF Owned
      <4>3. stateSet[j] # st
        BY Zenon, <2>3, <4>1, <4>2
      <4> QED
        BY <2>1, <2>4, <4>1, <4>2, <4>3
    <3>2. ASSUME NEW x \in Timed'
          PROVE  stateSet'[heap'[x].key] = x /\ heap'[x].key \notin orphaned'
      <4>1. x \in Timed /\ x # st
        BY Zenon, <2>4
      <4>2. stateSet[heap[x].key] = x /\ heap[x].key \notin orphaned
        BY Zenon, <4>1, LeaseFacts DEF Owned
      <4>3. heap[x].key # k
        BY Zenon, <2>5, <4>1, <4>2
      <4> QED
        BY <2>1, <4>2, <4>3 DEF LeaseType
    <3> QED
      BY Zenon, <3>1, <3>2 DEF Owned
  <2>7. OrphansKept'
    BY Zenon, <2>1, LeaseFacts DEF OrphansKept, LeaseType
  <2>8. Shape(stateQueue)' /\ (stateQueue.processing = {loop.st} \ {NoState})'
    BY <2>1, LeaseFacts DEF Shape, st
  <2> QED
    BY Zenon, <1>1, <2>4, <2>6, <2>7, <2>8, LeaseFactsNext
<1>6. CASE LoopRecover
  <2>1. /\ loop.pc = "recover" /\ loop'.pc = "done" /\ loop'.st = loop.st
        /\ UNCHANGED <<stateSet, stateQueue, orphaned>>
    BY Zenon, <1>6 DEF LoopRecover, LoopType, lease
  <2>2. \A st \in StateId : heap'[st].key = heap[st].key
    BY ZenonT(60), <1>6 DEF LoopRecover, recoverBreaker, HeapType
  <2>3. WaitingSet' = WaitingSet /\ LoopSet' = LoopSet /\ stateQueue'.dirty = stateQueue.dirty
    BY Zenon, <2>1 DEF WaitingSet, LoopSet, Waiting, InLoop
  <2>4. Timed' = Timed /\ Apart'
    BY Zenon, <1>1, <2>3, LeaseFacts DEF Timed, Apart
  <2>5. OneTimerPerKey'
    BY Zenon, <2>1, <2>2, <2>4, TimedKept
  <2>6. OrphansKept'
    BY Zenon, <2>1, LeaseFacts DEF OrphansKept
  <2>6a. Shape(stateQueue)' /\ (stateQueue.processing = {loop.st} \ {NoState})'
    BY <2>1, LeaseFacts DEF Shape
  <2>6b. QueueShape'
    BY <2>6a, QueueShapeIsShape, PTL
  <2> QED
    BY Zenon, <1>1, <2>5, <2>6, <2>6b DEF LeaseInv
<1>7. CASE LoopDone
  <2>1. /\ loop.pc = "done" /\ loop.st \in StateId /\ loop'.pc = "get" /\ loop'.st = NoState
        /\ stateQueue' = Done(stateQueue, loop.st)
        /\ UNCHANGED <<heap, stateSet, orphaned>>
    BY Zenon, <1>7 DEF LoopDone, LoopType, IdleLoop
  <2>2. /\ Shape(Done(stateQueue, loop.st))
        /\ stateQueue'.dirty = stateQueue.dirty
        /\ stateQueue'.processing = stateQueue.processing \ {loop.st}
        /\ stateQueue'.waiting = stateQueue.waiting
    BY Zenon, <2>1, LeaseFacts, DoneShape
  <2>3. WaitingSet' = WaitingSet /\ LoopSet' = {} /\ LoopSet = {}
    BY Zenon, <2>1, <2>2 DEF WaitingSet, LoopSet, Waiting, InLoop
  <2>4. Timed' = Timed /\ Apart'
    BY Zenon, <1>1, <2>2, <2>3, LeaseFacts DEF Timed, Apart
  <2>5. OneTimerPerKey'
    BY Zenon, <2>1, <2>4, TimedKept
  <2>6. OrphansKept' /\ (stateQueue.processing = {loop.st} \ {NoState})'
    BY Zenon, <2>1, <2>2, LeaseFacts DEF OrphansKept
  <2>7. Shape(stateQueue)'
    BY <2>1, <2>2 DEF Shape
  <2>8. QueueShape'
    BY <2>6, <2>7, QueueShapeIsShape, PTL
  <2> QED
    BY Zenon, <1>1, <2>5, <2>6, <2>8 DEF LeaseInv
<1> QED
  BY Zenon, <1>2, <1>3, <1>4, <1>5, <1>6, <1>7 DEF LoopStep

(* A timer that fires moves its state from the heap to the queue.          *)
LEMMA TimerStep ==
    ASSUME StoreInv, StoreInv', LeaseInv, NEW st \in StateId, TimerFires(st)
    PROVE  LeaseInv'
<1> USE DEF StoreInv, TypeOK
<1> DEFINE q == [stateQueue EXCEPT !.waiting[st] = NoTime]
<1>1. /\ UNCHANGED <<heap, stateSet, orphaned, loop, req>>
      /\ stateQueue' = Add(q, st) /\ stateQueue.waiting[st] = 0
  BY Zenon DEF TimerFires, Fire
<1>2. /\ q \in Queue /\ q.queue = stateQueue.queue /\ q.dirty = stateQueue.dirty
      /\ q.processing = stateQueue.processing
      /\ \A x \in StateId : q.waiting[x] = IF x = st THEN NoTime ELSE stateQueue.waiting[x]
  BY Zenon, LeaseFacts DEF Queue, Ticks
<1> HIDE DEF q
<1>3. Shape(q)
  BY <1>2, LeaseFacts DEF Shape
<1>4. /\ Shape(stateQueue') /\ stateQueue'.dirty = stateQueue.dirty \cup {st}
      /\ stateQueue'.processing = stateQueue.processing /\ stateQueue'.waiting = q.waiting
  BY Zenon, <1>1, <1>2, <1>3, AddShape
<1>5. /\ st \in WaitingSet /\ WaitingSet' = WaitingSet \ {st}
      /\ LoopSet' = LoopSet /\ Registering' = Registering
  BY <1>1, <1>2, <1>4 DEF WaitingSet, Waiting, LoopSet, InLoop, Registering, NoTime
<1>6. Timed' = Timed /\ Apart'
  BY ZenonT(60), <1>4, <1>5, LeaseFacts DEF Timed, Apart
<1>7. OneTimerPerKey'
  BY Zenon, <1>1, <1>6, TimedKept
<1>8. OrphansKept' /\ LeaseMutex' /\ (stateQueue.processing = {loop.st} \ {NoState})'
  BY Zenon, <1>1, <1>4, LeaseFacts DEF OrphansKept, LeaseMutex
<1>9. Shape(stateQueue)'
  BY Zenon, <1>4 DEF Shape
<1>10. QueueShape'
  BY <1>8, <1>9, QueueShapeIsShape, PTL
<1> QED
  BY Zenon, <1>7, <1>8, <1>10 DEF LeaseInv

(* A tick changes how long a timer has to go, not whether there is one.    *)
LEMMA TickStep ==
    ASSUME StoreInv, StoreInv', LeaseInv, Tick
    PROVE  LeaseInv'
<1> USE DEF StoreInv, TypeOK
<1>1. /\ UNCHANGED <<stateSet, orphaned, req>>
      /\ loop'.pc = loop.pc /\ loop'.st = loop.st
  BY Zenon DEF Tick, LoopType
<1>2. \A st \in StateId : heap'[st].key = heap[st].key
  BY Zenon DEF Tick, HeapType
<1>3. /\ stateQueue'.queue = stateQueue.queue /\ stateQueue'.dirty = stateQueue.dirty
      /\ stateQueue'.processing = stateQueue.processing
      /\ \A st \in StateId : stateQueue'.waiting[st] = Elapsed(stateQueue.waiting[st])
  BY Zenon, LeaseFacts DEF Tick, Elapse, Queue
<1>4. \A st \in StateId : stateQueue'.waiting[st] = NoTime <=> stateQueue.waiting[st] = NoTime
  BY <1>3, LeaseFacts, WindowAssumption DEF Queue, Elapsed, Ticks, NoTime
<1>5. WaitingSet' = WaitingSet /\ LoopSet' = LoopSet /\ Registering' = Registering
  BY Zenon, <1>1, <1>4 DEF WaitingSet, Waiting, LoopSet, InLoop, Registering
<1>6. Timed' = Timed /\ Apart'
  BY Zenon, <1>3, <1>5, LeaseFacts DEF Timed, Apart
<1>7. OneTimerPerKey'
  BY Zenon, <1>1, <1>2, <1>6, TimedKept
<1>8. OrphansKept' /\ LeaseMutex' /\ (stateQueue.processing = {loop.st} \ {NoState})'
  BY Zenon, <1>1, <1>3, LeaseFacts DEF OrphansKept, LeaseMutex
<1>9. Shape(stateQueue)'
  BY <1>3, LeaseFacts DEF Shape
<1>10. QueueShape'
  BY <1>8, <1>9, QueueShapeIsShape, PTL
<1> QED
  BY Zenon, <1>7, <1>8, <1>10 DEF LeaseInv

-----------------------------------------------------------------------------
(* At start there is no timer.                                             *)
LEMMA LeaseInvInit == Init => LeaseInv
<1> SUFFICES ASSUME Init PROVE LeaseInv
  BY Zenon
<1>1. /\ stateQueue.queue = <<>> /\ stateQueue.dirty = {} /\ stateQueue.processing = {}
      /\ \A st \in StateId : stateQueue.waiting[st] = NoTime
      /\ loop.st = NoState /\ loop.pc = "get" /\ orphaned = {}
      /\ \A k \in Key : stateSet[k] = NoState
      /\ \A r \in Request : req[r].pc = "idle"
  BY Zenon DEF Init, EmptyQueue, IdleLoop, IdleReq
<1>2. OrphansKept /\ LeaseMutex
  BY Zenon, <1>1 DEF OrphansKept, LeaseMutex
<1>3. QueueShape
  BY <1>1 DEF QueueShape
<1>4. OneTimerPerKey
  BY Zenon, <1>1 DEF OneTimerPerKey, Waiting, Queued, InLoop, Adding, Registering
<1> QED
  BY Zenon, <1>2, <1>3, <1>4 DEF LeaseInv

(* Every step of the proxy preserves LeaseInv.                             *)
LEMMA LeaseInvNext == StoreInv /\ StoreInv' /\ LeaseInv /\ [Next]_vars => LeaseInv'
<1> SUFFICES ASSUME StoreInv, StoreInv', LeaseInv, [Next]_vars PROVE LeaseInv'
  BY Zenon
<1>1. CASE UNCHANGED vars
  <2>1. UNCHANGED <<stateSet, stateQueue, orphaned, loop, heap, req>>
    BY Zenon, <1>1 DEF vars
  <2> QED
    BY Zenon, <2>1, LeaseKept
<1>2. CASE Next
  BY Zenon, <1>2, OtherSteps, InsertStep, AddStep, LoopSteps, TimerStep, TickStep DEF Next, RequestStep
<1> QED
  BY Zenon, <1>1, <1>2

(* Whatever requests, Sync calls, recoveries and clock ticks interleave, a *)
(* registered key has exactly one timer, in one place, unless its          *)
(* registration panicked; and the work queue holds every dirty state once  *)
(* and hands it to the loop alone.                                         *)
THEOREM LeaseCorrect == Spec => [](OneTimerPerKey /\ QueueShape)
<1>1. Init => StoreInv /\ LeaseInv
  BY Zenon, StoreInvInit, LeaseInvInit
<1>2. StoreInv /\ LeaseInv /\ [Next]_vars => StoreInv' /\ LeaseInv'
  BY Zenon, StoreInvNext, LeaseInvNext
<1>3. LeaseInv => OneTimerPerKey /\ QueueShape
  BY Zenon DEF LeaseInv
<1> QED
  BY <1>1, <1>2, <1>3, PTL DEF Spec

-----------------------------------------------------------------------------
(* TimerNotLate.  A state object may be tripped by requests that took the  *)
(* same rule out of the store at different times, and by requests that     *)
(* hold it after Sync has dropped it.  What keeps a timer from being late  *)
(* is that all of them were given the same window with it.  That needs     *)
(* configurations that give one window to one name: two limitings of one   *)
(* name share a state object, and one may be tripped by the rule of the    *)
(* other while the longer timer of the other is running.                   *)
OneWindow ==
    \A c \in Config : \A i, j \in 1..Len(c.limitings) :
        c.limitings[i].name = c.limitings[j].name =>
            c.limitings[i].rule.window = c.limitings[j].rule.window

(* The rules that are somewhere together with their state object: in the   *)
(* store, and in the hands of requests.                                    *)
Stored == {[rule |-> rules[k], st |-> states[k]] : k \in {x \in Key : rules[x] # NoRule}}
EntriesOf(q) == q.todo \cup ({q.cur} \cap Entry)
Held == Stored \cup UNION {EntriesOf(req[r]) : r \in Request}

(* No deadline of a state object, in the object, in the delaying queue or  *)
(* in the loop, is further away than w.                                    *)
Within(st, w) ==
    /\ heap[st].recoverAt <= w
    /\ stateQueue.waiting[st] <= w
    /\ loop.st = st => loop.at <= w

WindowInv ==
    \A e \in Held :
        /\ Within(e.st, e.rule.window)
        /\ \A f \in Held : f.st = e.st => f.rule.window = e.rule.window

(* The local recoverAt of the loop is set only while it puts a state back. *)
LoopAtInv == loop.pc # "requeue" => loop.at = NoTime

TimerInv == TimerNotLate /\ WindowInv /\ LoopAtInv

(* What is held are entries.                                               *)
LEMMA HeldType == StoreInv => Stored \subseteq Entry /\ Held \subseteq Entry
<1> SUFFICES ASSUME StoreInv PROVE Stored \subseteq Entry /\ Held \subseteq Entry
  BY Zenon
<1>1. Stored \subseteq Entry
  BY DEF Stored, Entry, StoreInv, TypeOK, StoreType, StoreConsistent
<1>2. ASSUME NEW r \in Request PROVE EntriesOf(req[r]) \subseteq Entry
  BY Zenon DEF EntriesOf, StoreInv, TypeOK, ReqType, ReqRecord
<1> QED
  BY Zenon, <1>1, <1>2 DEF Held

(* What the steps of a request do to what it holds.                        *)
LEMMA EntriesKept ==
    ASSUME NEW q \in ReqRecord, NEW pc, NEW a, NEW s
    PROVE  /\ EntriesOf(IdleReq) = {}
           /\ EntriesOf(Proceed(q)) \subseteq EntriesOf(q)
           /\ EntriesOf(Proceed([q EXCEPT !.allowed = a])) \subseteq EntriesOf(q)
           /\ EntriesOf([q EXCEPT !.pc = pc]) \subseteq EntriesOf(q)
           /\ EntriesOf([q EXCEPT !.seeds = s]) \subseteq EntriesOf(q)
           /\ EntriesOf([q EXCEPT !.pc = pc, !.allowed = a]) \subseteq EntriesOf(q)
           /\ EntriesOf([q EXCEPT !.pc = pc, !.seeds = s]) \subseteq EntriesOf(q)
<1> USE DEF EntriesOf, ReqRecord
<1>1. EntriesOf(IdleReq) = {}
  BY Zenon, NoEntryFact DEF IdleReq
<1>2. EntriesOf(Proceed(q)) \subseteq EntriesOf(q)
  BY Zenon, NoEntryFact DEF Proceed
<1>3. EntriesOf(Proceed([q EXCEPT !.allowed = a])) \subseteq EntriesOf(q)
  BY Zenon, NoEntryFact DEF Proceed
<1>4. /\ EntriesOf([q EXCEPT !.pc = pc]) \subseteq EntriesOf(q)
      /\ EntriesOf([q EXCEPT !.seeds = s]) \subseteq EntriesOf(q)
  BY Zenon
<1>5. /\ EntriesOf([q EXCEPT !.pc = pc, !.allowed = a]) \subseteq EntriesOf(q)
      /\ EntriesOf([q EXCEPT !.pc = pc, !.seeds = s]) \subseteq EntriesOf(q)
  BY Zenon
<1> QED
  BY Zenon, <1>1, <1>2, <1>3, <1>4, <1>5

(* A request step leaves the store alone, and the request afterwards holds *)
(* what it held before or what it has taken out of the store.              *)
LEMMA RequestEntries ==
    ASSUME StoreInv, NEW r \in Request, RequestStep(r) \/ \E seeds \in Lookup : Start(r, seeds)
    PROVE  /\ UNCHANGED <<rules, states, sync, breakerMap>>
           /\ \A p \in Request : p # r => req'[p] = req[p]
           /\ EntriesOf(req'[r]) \subseteq EntriesOf(req[r]) \cup Stored
<1> USE DEF StoreInv, TypeOK
<1>0. req[r] \in ReqRecord /\ req \in [Request -> ReqRecord]
  BY Zenon DEF ReqType
<1>1. UNCHANGED <<rules, states, sync, breakerMap>>
  BY Zenon DEF RequestStep, Start, LookUp, PickRule, ForceOpened, ForceClosed, LimiterOnly, Normal, Reset, Trigger,
        Return, RegisterState, InsertState, AddStateAfter, store
<1>2. SUFFICES \E q : req' = [req EXCEPT ![r] = q] /\ EntriesOf(q) \subseteq EntriesOf(req[r]) \cup Stored
  <2>1. PICK q : req' = [req EXCEPT ![r] = q] /\ EntriesOf(q) \subseteq EntriesOf(req[r]) \cup Stored
    BY Zenon, <1>2
  <2>2. req'[r] = q /\ \A p \in Request : p # r => req'[p] = req[p]
    BY Zenon, <1>0, <2>1
  <2> QED
    BY Zenon, <1>1, <2>1, <2>2
<1>3. CASE \E seeds \in Lookup : Start(r, seeds)
  <2>1. PICK seeds : req' = [req EXCEPT ![r] = [req[r] EXCEPT !.pc = "lookup", !.seeds = seeds]]
    BY Zenon, <1>0, <1>3 DEF Start
  <2>2. EntriesOf([req[r] EXCEPT !.pc = "lookup", !.seeds = seeds]) \subseteq EntriesOf(req[r])
    BY Zenon, <1>0, EntriesKept
  <2> QED
    BY Zenon, <2>1, <2>2
<1>4. CASE LookUp(r)
  <2> DEFINE found == byIndex(Head(req[r].seeds))
  <2>1. found \subseteq Stored
    <3>1. Head(req[r].seeds) \in Seed
      BY <1>0, <1>4 DEF LookUp, ReqRecord
    <3>2. \A k \in indices[Head(req[r].seeds)] : k \in Key /\ rules[k] # NoRule
      BY <3>1 DEF StoreType, StoreConsistent
    <3> QED
      BY Zenon, <3>2 DEF byIndex, Stored
  <2>2. \/ req' = [req EXCEPT ![r] = [req[r] EXCEPT !.pc = "next", !.seeds = <<>>, !.todo = found]]
        \/ req' = [req EXCEPT ![r] = [req[r] EXCEPT !.seeds = Tail(req[r].seeds)]]
        \/ req' = [req EXCEPT ![r] = IdleReq]
    BY Zenon, <1>0, <1>4 DEF LookUp
  <2> HIDE DEF found
  <2>3. EntriesOf([req[r] EXCEPT !.pc = "next", !.seeds = <<>>, !.todo = found]) \subseteq EntriesOf(req[r]) \cup Stored
    BY Zenon, <1>0, <2>1 DEF EntriesOf, ReqRecord
  <2>4. /\ EntriesOf([req[r] EXCEPT !.seeds = Tail(req[r].seeds)]) \subseteq EntriesOf(req[r])
        /\ EntriesOf(IdleReq) = {}
    BY Zenon, <1>0, EntriesKept
  <2> QED
    BY Zenon, <2>2, <2>3, <2>4
<1>5. CASE PickRule(r)
  <2>1. PICK e \in req[r].todo :
            req' = [req EXCEPT ![r] = [req[r] EXCEPT !.todo = @ \ {e}, !.cur = e, !.pc = "policy",
                                                     !.allowed = @ /\ ~Opened(e.st)]]
    BY ZenonT(30), <1>0, <1>5 DEF PickRule
  <2> DEFINE q == [req[r] EXCEPT !.todo = @ \ {e}, !.cur = e, !.pc = "policy", !.allowed = @ /\ ~Opened(e.st)]
  <2>2. q.todo = req[r].todo \ {e} /\ q.cur = e
    BY Zenon, <1>0 DEF ReqRecord
  <2>3. req' = [req EXCEPT ![r] = q]
    BY Zenon, <2>1
  <2> HIDE DEF q
  <2>4. EntriesOf(q) \subseteq EntriesOf(req[r])
    BY Zenon, <2>2 DEF EntriesOf
  <2> QED
    BY Zenon, <2>3, <2>4
<1>6. CASE \/ ForceOpened(r) \/ ForceClosed(r) \/ LimiterOnly(r)
  <2>1. \E a : req' = [req EXCEPT ![r] = Proceed([req[r] EXCEPT !.allowed = a])]
    <3>1. CASE ForceOpened(r)
      BY Zenon, <3>1 DEF ForceOpened
    <3>2. CASE ForceClosed(r)
      BY Zenon, <3>2 DEF ForceClosed
    <3>3. CASE LimiterOnly(r)
      BY <3>3, Zenon DEF LimiterOnly
    <3> QED
      BY Zenon, <1>6, <3>1, <3>2, <3>3
  <2>2. PICK a : req' = [req EXCEPT ![r] = Proceed([req[r] EXCEPT !.allowed = a])]
    BY Zenon, <2>1
  <2>3. EntriesOf(Proceed([req[r] EXCEPT !.allowed = a])) \subseteq EntriesOf(req[r])
    BY Zenon, <1>0, EntriesKept
  <2> QED
    BY Zenon, <2>2, <2>3
<1>7. CASE Normal(r)
  <2>1. \/ req' = [req EXCEPT ![r] = Proceed(req[r])]
        \/ \E pc, a : req' = [req EXCEPT ![r] = [req[r] EXCEPT !.pc = pc, !.allowed = a]]
    <3>1. CASE req' = [req EXCEPT ![r] = Proceed(req[r])]
      BY Zenon, <3>1
    <3>2. ASSUME NEW allow \in BOOLEAN,
                 req' = [req EXCEPT ![r].pc = IF allow THEN "reset" ELSE "trigger", ![r].allowed = @ /\ allow]
          PROVE  \E pc, a : req' = [req EXCEPT ![r] = [req[r] EXCEPT !.pc = pc, !.allowed = a]]
      <4>1. req' = [req EXCEPT ![r] = [req[r] EXCEPT !.pc = IF allow THEN "reset" ELSE "trigger",
                                                     !.allowed = req[r].allowed /\ allow]]
        BY Zenon, <1>0, <3>2 DEF ReqRecord
      <4> QED
        BY <4>1, Zenon
    <3> QED
      BY Zenon, <1>7, <3>1, <3>2 DEF Normal
  <2>2. /\ EntriesOf(Proceed(req[r])) \subseteq EntriesOf(req[r])
        /\ \A pc, a : EntriesOf([req[r] EXCEPT !.pc = pc, !.allowed = a]) \subseteq EntriesOf(req[r])
    BY Zenon, <1>0, EntriesKept
  <2> QED
    BY Zenon, <2>1, <2>2
<1>8. CASE Reset(r) \/ Trigger(r) \/ Return(r) \/ RegisterState(r) \/ InsertState(r) \/ AddStateAfter(r)
  <2>1. \/ req' = [req EXCEPT ![r] = Proceed(req[r])]
        \/ req' = [req EXCEPT ![r] = IdleReq]
        \/ \E pc : req' = [req EXCEPT ![r] = [req[r] EXCEPT !.pc = pc]]
    BY Zenon, <1>0, <1>8 DEF Reset, Trigger, Return, RegisterState, InsertState, AddStateAfter
  <2>2. /\ EntriesOf(Proceed(req[r])) \subseteq EntriesOf(req[r])
        /\ EntriesOf(IdleReq) = {}
        /\ \A pc : EntriesOf([req[r] EXCEPT !.pc = pc]) \subseteq EntriesOf(req[r])
    BY Zenon, <1>0, EntriesKept
  <2> QED
    BY Zenon, <2>1, <2>2
<1> QED
  BY Zenon, <1>3, <1>4, <1>5, <1>6, <1>7, <1>8 DEF RequestStep

(* So no step of a request makes anything be held that was not.            *)
LEMMA RequestHeld ==
    ASSUME StoreInv, NEW r \in Request, RequestStep(r) \/ \E seeds \in Lookup : Start(r, seeds)
    PROVE  Held' \subseteq Held
<1>1. /\ UNCHANGED <<rules, states>>
      /\ \A p \in Request : p # r => req'[p] = req[p]
      /\ EntriesOf(req'[r]) \subseteq EntriesOf(req[r]) \cup Stored
  BY Zenon, RequestEntries
<1>2. Stored' = Stored
  BY Zenon, <1>1 DEF Stored
<1>3. ASSUME NEW p \in Request PROVE EntriesOf(req'[p]) \subseteq Held
  BY Zenon, <1>1, <1>3 DEF Held
<1>4. Held' = Stored' \cup UNION {EntriesOf(req'[p]) : p \in Request}
  BY Zenon DEF Held, EntriesOf
<1> QED
  BY Zenon, <1>2, <1>3, <1>4 DEF Held

(* Nothing new is held and no deadline moves away: the windows still fit.  *)
LEMMA WindowKept ==
    ASSUME WindowInv, Held' \subseteq Held,
           \A e \in Held : Within(e.st, e.rule.window) => Within(e.st, e.rule.window)'
    PROVE  WindowInv'
  BY Zenon DEF WindowInv

(* The times of a state object are comparable.                             *)
LEMMA TimesType ==
    ASSUME StoreInv
    PROVE  /\ \A st \in StateId : heap[st].recoverAt \in Ticks /\ stateQueue.waiting[st] \in Ticks
           /\ loop.at \in Ticks
           /\ \A e \in Held : e.st \in StateId /\ e.rule \in Rule /\ e.rule.window \in 0..MaxWindow
<1>1. Held \subseteq Entry
  BY Zenon, HeldType
<1>2. \A e \in Entry : e.st \in StateId /\ e.rule \in Rule /\ e.rule.window \in 0..MaxWindow
  BY Zenon DEF Entry, Rule
<1>3. /\ \A st \in StateId : heap[st].recoverAt \in Ticks /\ stateQueue.waiting[st] \in Ticks
      /\ loop.at \in Ticks
  BY Zenon DEF StoreInv, TypeOK, HeapType, LeaseType, LoopType
<1> QED
  BY Zenon, <1>1, <1>2, <1>3

(* A step that moves no time, and makes nothing new be held.               *)
LEMMA TimesQuiet ==
    ASSUME TimerInv, UNCHANGED <<heap, stateQueue, loop>>, Held' \subseteq Held
    PROVE  TimerInv'
<1>1. TimerNotLate' /\ LoopAtInv'
  BY Zenon DEF TimerInv, TimerNotLate, LoopAtInv, Opened
<1>2. \A e \in Held : Within(e.st, e.rule.window) => Within(e.st, e.rule.window)'
  BY Zenon DEF Within
<1> QED
  BY Zenon, <1>1, <1>2, WindowKept DEF TimerInv

(* One state object is closed, or opened without a deadline, or opened     *)
(* with the window of an entry that is held; the loop may go on.           *)
LEMMA SwitchTimes ==
    ASSUME StoreInv, TimerInv, NEW x \in StateId, NEW o,
           UNCHANGED stateQueue, loop'.st = loop.st, loop'.at = loop.at, LoopAtInv', Held' \subseteq Held,
           heap' = [heap EXCEPT ![x] = o],
           \/ o = heap[x]
           \/ o.recoverAt = NoTime
           \/ \E e \in Held : e.st = x /\ o.recoverAt = e.rule.window
    PROVE  TimerInv'
<1>1. heap'[x] = o /\ \A st \in StateId : st # x => heap'[st] = heap[st]
  BY Zenon DEF StoreInv, TypeOK, HeapType
<1>2. ASSUME NEW e \in Held PROVE Within(e.st, e.rule.window)'
  <2>1. Within(e.st, e.rule.window)
    BY Zenon DEF TimerInv, WindowInv
  <2>2. e.st \in StateId /\ e.rule.window \in 0..MaxWindow
    BY Zenon, TimesType
  <2>3. heap'[e.st].recoverAt <= e.rule.window
    <3>1. CASE e.st # x \/ o = heap[x]
      BY Zenon, <1>1, <2>1, <2>2, <3>1 DEF Within
    <3>2. CASE e.st = x /\ o.recoverAt = NoTime
      BY <1>1, <2>2, <3>2, WindowAssumption DEF NoTime
    <3>3. CASE e.st = x /\ \E f \in Held : f.st = x /\ o.recoverAt = f.rule.window
      <4>1. o.recoverAt = e.rule.window
        BY Zenon, <3>3 DEF TimerInv, WindowInv
      <4> QED
        BY <1>1, <2>2, <3>3, <4>1
    <3> QED
      BY Zenon, <3>1, <3>2, <3>3
  <2> QED
    BY Zenon, <2>1, <2>3 DEF Within
<1>3. WindowInv'
  BY Zenon, <1>2, WindowKept DEF TimerInv
<1>4. TimerNotLate'
  <2> SUFFICES ASSUME NEW st \in StateId, heap'[st].state = "OPENED", heap'[st].recoverAt # NoTime
               PROVE  /\ stateQueue.waiting[st] <= heap'[st].recoverAt
                      /\ loop.st = st => loop.at <= heap'[st].recoverAt
    BY Zenon DEF TimerNotLate, Opened
  <2>1. CASE st # x \/ o = heap[x]
    BY Zenon, <1>1, <2>1 DEF TimerInv, TimerNotLate, Opened
  <2>2. CASE st = x /\ \E e \in Held : e.st = x /\ o.recoverAt = e.rule.window
    BY Zenon, <1>1, <2>2 DEF TimerInv, WindowInv, Within
  <2> QED
    BY Zenon, <1>1, <2>1, <2>2
<1> QED
  BY Zenon, <1>3, <1>4 DEF TimerInv

(* The times in the queue and in the loop come nearer, or are copied from  *)
(* the state object or from one to the other.                              *)
LEMMA CopyTimes ==
    ASSUME StoreInv, StoreInv', TimerInv, UNCHANGED heap, LoopAtInv', Held' \subseteq Held,
           \A st \in StateId :
               \/ stateQueue'.waiting[st] <= stateQueue.waiting[st]
               \/ stateQueue'.waiting[st] <= heap[st].recoverAt
               \/ stateQueue'.waiting[st] = NoTime
               \/ loop.st = st /\ stateQueue'.waiting[st] <= loop.at,
           \A st \in StateId : loop'.st = st =>
               \/ loop'.at = NoTime
               \/ loop.st = st /\ loop'.at <= loop.at
               \/ loop'.at <= heap[st].recoverAt
    PROVE  TimerInv'
<1>1. /\ \A st \in StateId : /\ heap[st].recoverAt \in Ticks /\ stateQueue.waiting[st] \in Ticks
                             /\ stateQueue'.waiting[st] \in Ticks
      /\ loop.at \in Ticks /\ loop'.at \in Ticks
      /\ \A e \in Held : e.st \in StateId /\ e.rule.window \in 0..MaxWindow
  BY Zenon, TimesType DEF StoreInv, TypeOK, LeaseType, LoopType
<1>2. \A t \in Ticks : t \in Int /\ t >= NoTime
  BY WindowAssumption DEF Ticks, NoTime
<1>3. ASSUME NEW e \in Held PROVE Within(e.st, e.rule.window)'
  <2>1. Within(e.st, e.rule.window)
    BY Zenon DEF TimerInv, WindowInv
  <2>2. e.rule.window \in Int /\ e.rule.window >= NoTime
    BY <1>1, WindowAssumption DEF NoTime
  <2>3. stateQueue'.waiting[e.st] <= e.rule.window
    BY <1>1, <1>2, <2>1, <2>2 DEF Within
  <2>4. loop'.st = e.st => loop'.at <= e.rule.window
    BY <1>1, <1>2, <2>1, <2>2 DEF Within
  <2> QED
    BY Zenon, <2>1, <2>3, <2>4 DEF Within
<1>4. WindowInv'
  BY Zenon, <1>3, WindowKept DEF TimerInv
<1>5. TimerNotLate'
  <2> SUFFICES ASSUME NEW st \in StateId, Opened(st), heap[st].recoverAt # NoTime
               PROVE  /\ stateQueue'.waiting[st] <= heap[st].recoverAt
                      /\ loop'.st = st => loop'.at <= heap[st].recoverAt
    BY Zenon DEF TimerNotLate, Opened
  <2>1. /\ stateQueue.waiting[st] <= heap[st].recoverAt
        /\ loop.st = st => loop.at <= heap[st].recoverAt
    BY Zenon DEF TimerInv, TimerNotLate
  <2>2. stateQueue'.waiting[st] <= heap[st].recoverAt
    BY <1>1, <1>2, <2>1
  <2>3. loop'.st = st => loop'.at <= heap[st].recoverAt
    BY <1>1, <1>2, <2>1
  <2> QED
    BY Zenon, <2>2, <2>3
<1> QED
  BY Zenon, <1>4, <1>5 DEF TimerInv

(* What is held depends on the store and the requests alone.               *)
LEMMA HeldSame ==
    ASSUME UNCHANGED <<rules, states, req>>
    PROVE  Held' = Held
  BY Zenon DEF Held, Stored, EntriesOf

(* AddAfter changes a timer only to the delay it is given.                 *)
LEMMA AddAfterWaiting ==
    ASSUME NEW q \in Queue, NEW x \in StateId, NEW d \in Ticks, NEW y \in StateId
    PROVE  \/ AddAfter(q, x, d).waiting[y] = q.waiting[y]
           \/ y = x /\ AddAfter(q, x, d).waiting[y] = d
<1>1. Add(q, x).waiting = q.waiting
  BY Zenon DEF Add, Queue
<1>2. CASE d <= 0
  BY Zenon, <1>1, <1>2 DEF AddAfter
<1>3. CASE ~(d <= 0)
  BY Zenon, <1>3 DEF AddAfter, Queue
<1> QED
  BY Zenon, <1>2, <1>3

(* The steps of a request.                                                 *)
LEMMA RequestTimes ==
    ASSUME StoreInv, StoreInv', TimerInv, NEW r \in Request,
           RequestStep(r) \/ \E seeds \in Lookup : Start(r, seeds)
    PROVE  TimerInv'
<1>0. Held' \subseteq Held
  BY Zenon, RequestHeld
<1>1. CASE UNCHANGED <<heap, stateQueue, loop>>
  BY Zenon, <1>0, <1>1, TimesQuiet
<1>2. CASE \/ \E seeds \in Lookup : Start(r, seeds)
           \/ LookUp(r) \/ PickRule(r) \/ Normal(r) \/ Return(r) \/ RegisterState(r) \/ InsertState(r)
  BY Zenon, <1>1, <1>2 DEF Start, LookUp, PickRule, Normal, Return, RegisterState, InsertState, lease
<1>3. ASSUME req[r].pc \in Handling
      PROVE  /\ req[r].cur \in Held /\ req[r].cur.st \in StateId
             /\ heap[req[r].cur.st] \in [key : Key, state : {"OPENED", "CLOSED"}, recoverAt : Ticks]
  <2>1. req[r].cur \in Entry
    BY Zenon, <1>3 DEF StoreInv, TypeOK, ReqType, ReqRecord
  <2> QED
    BY SMTT(30), <2>1 DEF Held, EntriesOf, Entry, StoreInv, TypeOK, HeapType
<1>4. CASE ForceOpened(r) \/ ForceClosed(r) \/ LimiterOnly(r) \/ Reset(r) \/ Trigger(r)
  <2>1. req[r].pc \in Handling
    BY Zenon, <1>4 DEF ForceOpened, ForceClosed, LimiterOnly, Reset, Trigger, Handling
  <2>2. UNCHANGED <<stateQueue, loop>> /\ LoopAtInv'
    BY Zenon, <1>4 DEF ForceOpened, ForceClosed, LimiterOnly, Reset, Trigger, lease, TimerInv, LoopAtInv
  <2> DEFINE x == req[r].cur.st
             w == req[r].cur.rule.window
  <2>3. \/ UNCHANGED heap
        \/ heap' = [heap EXCEPT ![x] = triggerBreaker(heap[x])]
        \/ heap' = [heap EXCEPT ![x] = recoverBreaker(heap[x])]
        \/ heap' = [heap EXCEPT ![x] = triggerBreakerWithTimeWindow(heap[x], w)]
    BY Zenon, <1>4 DEF ForceOpened, ForceClosed, LimiterOnly, Reset, Trigger
  <2>4. x \in StateId /\ (\E e \in Held : e.st = x /\ w = e.rule.window)
    BY Zenon, <1>3, <2>1
  <2> HIDE DEF x, w
  <2>5. heap[x] \in [key : Key, state : {"OPENED", "CLOSED"}, recoverAt : Ticks]
    BY Zenon, <2>4 DEF StoreInv, TypeOK, HeapType
  <2>6. /\ triggerBreaker(heap[x]) = heap[x] \/ triggerBreaker(heap[x]).recoverAt = NoTime
        /\ recoverBreaker(heap[x]) = heap[x] \/ recoverBreaker(heap[x]).recoverAt = NoTime
        /\ \/ triggerBreakerWithTimeWindow(heap[x], w) = heap[x]
           \/ triggerBreakerWithTimeWindow(heap[x], w).recoverAt = w
    BY Zenon, <2>5 DEF triggerBreaker, recoverBreaker, triggerBreakerWithTimeWindow
  <2>7. CASE UNCHANGED heap
    BY Zenon, <1>1, <2>2, <2>7
  <2>8. CASE heap' = [heap EXCEPT ![x] = triggerBreaker(heap[x])]
    BY Zenon, <1>0, <2>2, <2>4, <2>6, <2>8, SwitchTimes
  <2>9. CASE heap' = [heap EXCEPT ![x] = recoverBreaker(heap[x])]
    BY Zenon, <1>0, <2>2, <2>4, <2>6, <2>9, SwitchTimes
  <2>10. CASE heap' = [heap EXCEPT ![x] = triggerBreakerWithTimeWindow(heap[x], w)]
    BY Zenon, <1>0, <2>2, <2>4, <2>6, <2>10, SwitchTimes
  <2> QED
    BY Zenon, <2>3, <2>7, <2>8, <2>9, <2>10
<1>5. CASE AddStateAfter(r)
  <2> DEFINE x == req[r].cur.st
  <2>1. x \in StateId
    BY Zenon, <1>3, <1>5 DEF AddStateAfter, Handling
  <2>2. /\ UNCHANGED <<heap, loop>>
        /\ stateQueue' = stateQueue \/ stateQueue' = AddAfter(stateQueue, x, heap[x].recoverAt)
    BY Zenon, <1>5 DEF AddStateAfter
  <2> HIDE DEF x
  <2>3. stateQueue \in Queue /\ heap[x].recoverAt \in Ticks
    BY Zenon, <2>1, TimesType DEF StoreInv, TypeOK, LeaseType, Queue
  <2>4. ASSUME NEW st \in StateId
        PROVE  stateQueue'.waiting[st] = stateQueue.waiting[st] \/ stateQueue'.waiting[st] = heap[st].recoverAt
    BY <2>1, <2>2, <2>3, AddAfterWaiting
  <2>5. \A st \in StateId : /\ stateQueue.waiting[st] <= stateQueue.waiting[st]
                            /\ heap[st].recoverAt <= heap[st].recoverAt
                            /\ loop.at <= loop.at
    BY TimesType, WindowAssumption DEF Ticks, NoTime
  <2>6. LoopAtInv'
    BY Zenon, <2>2 DEF TimerInv, LoopAtInv
  <2>7. \A st \in StateId : \/ stateQueue'.waiting[st] <= stateQueue.waiting[st]
                            \/ stateQueue'.waiting[st] <= heap[st].recoverAt
    BY Zenon, <2>4, <2>5
  <2>8. \A st \in StateId : loop'.st = st => loop.st = st /\ loop'.at <= loop.at
    BY Zenon, <2>2, <2>5
  <2> QED
    BY Zenon, <1>0, <2>2, <2>6, <2>7, <2>8, CopyTimes
<1> QED
  BY Zenon, <1>2, <1>4, <1>5 DEF RequestStep

(* The steps of the loop and of the timers.                                *)
LEMMA LoopTimes ==
    ASSUME StoreInv, StoreInv', TimerInv, LoopStep \/ \E st \in StateId : TimerFires(st)
    PROVE  TimerInv'
<1>0. UNCHANGED <<rules, states, req>> /\ Held' \subseteq Held
  BY Zenon, HeldSame DEF LoopStep, LoopGet, LoopRead, LoopRequeue, LoopDelete, LoopRecover, LoopDone, TimerFires, store
<1>1. \A st \in StateId : /\ stateQueue.waiting[st] <= stateQueue.waiting[st]
                          /\ heap[st].recoverAt <= heap[st].recoverAt
                          /\ loop.at <= loop.at
  BY TimesType, WindowAssumption DEF Ticks, NoTime
<1>2. stateQueue \in Queue
  BY Zenon DEF StoreInv, TypeOK, LeaseType, Queue
<1>3. loop.pc # "requeue" => loop.at = NoTime
  BY Zenon DEF TimerInv, LoopAtInv
<1>4. CASE LoopGet
  <2>1. stateQueue'.waiting = stateQueue.waiting /\ loop'.at = NoTime /\ UNCHANGED heap
    BY Zenon, <1>2, <1>3, <1>4 DEF LoopGet, Get, Queue, StoreInv, TypeOK, LoopType
  <2> QED
    BY Zenon, <1>0, <1>1, <2>1, CopyTimes DEF LoopAtInv
<1>5. CASE LoopRead
  <2>1. stateQueue' = stateQueue /\ UNCHANGED heap /\ loop'.st = loop.st
    BY Zenon, <1>5 DEF LoopRead, lease, StoreInv, TypeOK, LoopType
  <2>2. \/ loop'.pc = "requeue" /\ loop'.at = heap[loop.st].recoverAt
        \/ loop'.at = NoTime
    BY Zenon, <1>3, <1>5 DEF LoopRead, StoreInv, TypeOK, LoopType
  <2>3. LoopAtInv'
    BY Zenon, <2>2 DEF LoopAtInv
  <2>4. \A st \in StateId : loop'.st = st => loop'.at = NoTime \/ loop'.at <= heap[st].recoverAt
    BY Zenon, <1>1, <2>1, <2>2
  <2> QED
    BY Zenon, <1>0, <1>1, <2>1, <2>3, <2>4, CopyTimes
<1>6. CASE LoopRequeue
  <2>1. loop.st \in StateId /\ loop.at \in Ticks
    BY Zenon, <1>6 DEF LoopRequeue, StoreInv, TypeOK, LoopType
  <2>2. /\ stateQueue' = AddAfter(stateQueue, loop.st, loop.at)
        /\ UNCHANGED heap /\ loop'.at = NoTime
    BY Zenon, <1>6 DEF LoopRequeue, StoreInv, TypeOK, LoopType
  <2>3. ASSUME NEW st \in StateId
        PROVE  stateQueue'.waiting[st] = stateQueue.waiting[st] \/ (st = loop.st /\ stateQueue'.waiting[st] = loop.at)
    BY Zenon, <1>2, <2>1, <2>2, AddAfterWaiting
  <2>4. LoopAtInv'
    BY Zenon, <2>2 DEF LoopAtInv
  <2>5. \A st \in StateId : \/ stateQueue'.waiting[st] <= stateQueue.waiting[st]
                            \/ loop.st = st /\ stateQueue'.waiting[st] <= loop.at
    BY Zenon, <1>1, <2>3
  <2> QED
    BY Zenon, <1>0, <2>2, <2>4, <2>5, CopyTimes
<1>7. CASE LoopDelete
  <2>1. /\ UNCHANGED <<heap, stateQueue>>
        /\ loop'.st = loop.st /\ loop'.at = loop.at /\ loop.at = NoTime
    BY Zenon, <1>3, <1>7 DEF LoopDelete, StoreInv, TypeOK, LoopType
  <2> QED
    BY Zenon, <1>0, <1>1, <2>1, CopyTimes DEF LoopAtInv
<1>8. CASE LoopRecover
  <2> DEFINE x == loop.st
  <2>1. x \in StateId
    BY Zenon, <1>8 DEF LoopRecover, StoreInv, TypeOK, LoopType
  <2>2. /\ heap' = [heap EXCEPT ![x] = recoverBreaker(heap[x])] /\ UNCHANGED stateQueue
        /\ loop'.st = loop.st /\ loop'.at = loop.at /\ loop.at = NoTime
    BY Zenon, <1>3, <1>8 DEF LoopRecover, StoreInv, TypeOK, LoopType, lease
  <2> HIDE DEF x
  <2>3. heap[x] \in [key : Key, state : {"OPENED", "CLOSED"}, recoverAt : Ticks]
    BY Zenon, <2>1 DEF StoreInv, TypeOK, HeapType
  <2>4. recoverBreaker(heap[x]) = heap[x] \/ recoverBreaker(heap[x]).recoverAt = NoTime
    BY Zenon, <2>3 DEF recoverBreaker
  <2>5. LoopAtInv'
    BY Zenon, <2>2 DEF LoopAtInv
  <2> QED
    BY Zenon, <1>0, <2>1, <2>2, <2>4, <2>5, SwitchTimes
<1>9. CASE LoopDone
  <2>1. stateQueue'.waiting = stateQueue.waiting /\ loop'.at = NoTime /\ UNCHANGED heap
    BY Zenon, <1>2, <1>9 DEF LoopDone, Done, Queue, IdleLoop
  <2> QED
    BY Zenon, <1>0, <1>1, <2>1, CopyTimes DEF LoopAtInv
<1>10. ASSUME NEW x \in StateId, TimerFires(x) PROVE TimerInv'
  <2> DEFINE q == [stateQueue EXCEPT !.waiting[x] = NoTime]
  <2>1. /\ q \in Queue /\ \A st \in StateId : q.waiting[st] = stateQueue.waiting[st] \/ q.waiting[st] = NoTime
    BY Zenon, <1>2 DEF Queue, Ticks
  <2>2. UNCHANGED <<heap, loop>> /\ stateQueue' = Add(q, x)
    BY Zenon, <1>10 DEF TimerFires, Fire
  <2> HIDE DEF q
  <2>3. stateQueue'.waiting = q.waiting
    BY Zenon, <2>1, <2>2 DEF Add, Queue
  <2>4. LoopAtInv'
    BY Zenon, <2>2 DEF TimerInv, LoopAtInv
  <2>5. \A st \in StateId : stateQueue'.waiting[st] <= stateQueue.waiting[st] \/ stateQueue'.waiting[st] = NoTime
    BY Zenon, <1>1, <2>1, <2>3
  <2>6. \A st \in StateId : loop'.st = st => loop.st = st /\ loop'.at <= loop.at
    BY Zenon, <1>1, <2>2
  <2> QED
    BY Zenon, <1>0, <2>2, <2>4, <2>5, <2>6, CopyTimes
<1> QED
  BY Zenon, <1>4, <1>5, <1>6, <1>7, <1>8, <1>9, <1>10 DEF LoopStep

(* A tick brings all deadlines nearer alike.                               *)
LEMMA TickTimes ==
    ASSUME StoreInv, StoreInv', TimerInv, Tick
    PROVE  TimerInv'
<1>0. Held' \subseteq Held
  BY Zenon, HeldSame DEF Tick, store
<1>1. /\ \A st \in StateId : heap[st].recoverAt \in Ticks /\ stateQueue.waiting[st] \in Ticks
      /\ loop.at \in Ticks
      /\ \A e \in Held : e.st \in StateId /\ e.rule.window \in 0..MaxWindow
  BY Zenon, TimesType
<1>2. \A st \in StateId : /\ heap'[st].state = heap[st].state
                          /\ heap'[st].recoverAt = Elapsed(heap[st].recoverAt)
  BY Zenon DEF Tick, StoreInv, TypeOK, HeapType
<1>3. \A st \in StateId : stateQueue'.waiting[st] = Elapsed(stateQueue.waiting[st])
  BY Zenon DEF Tick, Elapse, StoreInv, TypeOK, LeaseType
<1>4. loop'.st = loop.st /\ loop'.pc = loop.pc /\ loop'.at = Elapsed(loop.at)
  BY Zenon DEF Tick, StoreInv, TypeOK, LoopType
<1>5. /\ \A t \in Ticks : /\ Elapsed(t) \in Ticks /\ Elapsed(t) <= t
                          /\ Elapsed(t) = NoTime <=> t = NoTime
      /\ \A t, u \in Ticks : t <= u => Elapsed(t) <= Elapsed(u)
  BY WindowAssumption DEF Elapsed, Ticks, NoTime
<1>6. \A t \in Ticks : t \in Int
  BY WindowAssumption DEF Ticks, NoTime
<1>7. WindowInv'
  <2>1. ASSUME NEW e \in Held PROVE Within(e.st, e.rule.window)'
    <3>1. Within(e.st, e.rule.window) /\ e.st \in StateId /\ e.rule.window \in Int
      BY <1>1, WindowAssumption DEF TimerInv, WindowInv
    <3>2. heap'[e.st].recoverAt <= e.rule.window
      BY <1>1, <1>2, <1>5, <1>6, <3>1 DEF Within
    <3>3. stateQueue'.waiting[e.st] <= e.rule.window
      BY <1>1, <1>3, <1>5, <1>6, <3>1 DEF Within
    <3>4. loop'.st = e.st => loop'.at <= e.rule.window
      BY <1>1, <1>4, <1>5, <1>6, <3>1 DEF Within
    <3> QED
      BY Zenon, <3>2, <3>3, <3>4 DEF Within
  <2> QED
    BY Zenon, <1>0, <2>1, WindowKept DEF TimerInv
<1>8. TimerNotLate'
  <2> SUFFICES ASSUME NEW st \in StateId, heap'[st].state = "OPENED", heap'[st].recoverAt # NoTime
               PROVE  /\ stateQueue'.waiting[st] <= heap'[st].recoverAt
                      /\ loop'.st = st => loop'.at <= heap'[st].recoverAt
    BY Zenon DEF TimerNotLate, Opened
  <2>1. heap[st].state = "OPENED" /\ heap[st].recoverAt # NoTime
    BY Zenon, <1>1, <1>2, <1>5
  <2>2. /\ stateQueue.waiting[st] <= heap[st].recoverAt
        /\ loop.st = st => loop.at <= heap[st].recoverAt
    BY Zenon, <2>1 DEF TimerInv, TimerNotLate, Opened
  <2> QED
    BY Zenon, <1>1, <1>2, <1>3, <1>4, <1>5, <2>2
<1>9. LoopAtInv'
  BY Zenon, <1>1, <1>4, <1>5 DEF TimerInv, LoopAtInv
<1> QED
  BY Zenon, <1>7, <1>8, <1>9 DEF TimerInv

(* A rule that is registered under a key that is taken has the window of   *)
(* the rule that is there: both are limitings of one name of one           *)
(* configuration.                                                          *)
LEMMA SameWindow ==
    ASSUME StoreInv, SyncInv, OneWindow, sync.del = <<>>, sync.add # <<>>, rules[Head(sync.add).key] # NoRule
    PROVE  rules[Head(sync.add).key].window = Head(sync.add).rule.window
<1> DEFINE S == [key : Key, rule : Rule]
           h == Head(sync.add)
<1>1. sync.add \in Seq(S)
  BY Zenon DEF StoreInv, TypeOK, SyncType
<1> HIDE DEF S
<1>2. h \in S /\ h = sync.add[1] /\ Len(sync.add) \in Nat /\ 1 \in 1..Len(sync.add)
  BY <1>1
<1>3. h.key \in Key
  BY Zenon, <1>2 DEF S
<1> HIDE DEF h
<1>4. PICK b \in Breaker : Syncing(b)
  BY Zenon DEF SyncInv
<1>5. PICK c : c = breakerMap[b]
  BY Zenon
<1>6. c \in Config /\ c # NoConfig /\ c.name = b /\ Len(c.limitings) \in Nat /\ ToAdd(c)
  BY Zenon, <1>4, <1>5, LimitingsType DEF Syncing, StoreInv, TypeOK, StoreType, SyncInv, Named
<1>7. PICK n : n = Len(c.limitings) - Len(sync.add)
  BY Zenon
<1>8. n \in Nat /\ n + 1 \in 1..Len(c.limitings) /\ \A i \in 1..n : i \in 1..Len(c.limitings)
  <2>1. Len(sync.add) <= Len(c.limitings) /\ Len(sync.add) >= 1
    BY <1>2, <1>6 DEF ToAdd
  <2>2. \A a, m \in Nat : a >= 1 /\ a <= m =>
            m - a \in Nat /\ (m - a) + 1 \in 1..m /\ \A i \in 1..(m - a) : i \in 1..m
    OBVIOUS
  <2>3. Len(sync.add) \in Nat /\ Len(c.limitings) \in Nat
    BY Zenon, <1>2, <1>6
  <2> QED
    BY Zenon, <1>7, <2>1, <2>2, <2>3
<1>9. h = [key |-> <<b, c.limitings[n + 1].name>>, rule |-> c.limitings[n + 1].rule]
  <2>1. h = KeyedRules(c)[n + 1]
    BY Zenon, <1>2, <1>6, <1>7 DEF ToAdd
  <2> QED
    BY Zenon, <1>6, <1>8, <2>1 DEF KeyedRules
<1>10. h.key[1] = b /\ h.key[2] = c.limitings[n + 1].name /\ h.rule = c.limitings[n + 1].rule
  BY Zenon, <1>9
<1>11. Through(c, b) = n
  BY Zenon, <1>6, <1>7 DEF Through
<1>12. Gives(c, n, h.key[2], rules[h.key])
  <2>1. InStore(h.key, b)
    BY <1>3, <1>4 DEF Syncing, Pending
  <2> QED
    BY Zenon, <1>5, <1>6, <1>10, <1>11, <2>1 DEF InStore
<1>13. PICK i \in 1..n : c.limitings[i].name = h.key[2] /\ c.limitings[i].rule = rules[h.key]
  BY Zenon, <1>12 DEF Gives, h
<1>14. c.limitings[i].rule.window = c.limitings[n + 1].rule.window
  BY Zenon, <1>6, <1>8, <1>10, <1>13 DEF OneWindow
<1> QED
  BY Zenon, <1>10, <1>13, <1>14 DEF h

(* Registering a rule hands out an object nobody holds, or one whose       *)
(* holders all have the window of the new rule.                            *)
LEMMA RegisterTimes ==
    ASSUME StoreInv, StoreInv', SyncInv, OneWindow, TimerInv, RegisterRule
    PROVE  TimerInv'
<1> DEFINE S == [key : Key, rule : Rule]
           k == Head(sync.add).key
           rule == Head(sync.add).rule
<1>1. sync.add \in Seq(S) /\ sync.add # <<>> /\ sync.del = <<>>
  BY Zenon DEF RegisterRule, StoreInv, TypeOK, SyncType
<1> HIDE DEF S
<1>2. Head(sync.add) \in S
  BY <1>1
<1>3. k \in Key /\ rule \in Rule /\ rule.window \in 0..MaxWindow
  BY Zenon, <1>2 DEF S, Rule
<1>4. rules' = [rules EXCEPT ![k] = rule] /\ UNCHANGED <<stateQueue, loop, req>>
  BY Zenon DEF RegisterRule, lease
<1>5. rules[k] # NoRule => rules[k].window = rule.window
  BY Zenon, <1>1, SameWindow
<1>6. \/ rules[k] # NoRule /\ UNCHANGED <<states, heap>>
      \/ /\ rules[k] = NoRule
         /\ \E st \in StateId : /\ ~Live(st)
                                /\ states' = [states EXCEPT ![k] = st]
                                /\ heap' = [heap EXCEPT ![st] = NewState(k)]
  BY Zenon DEF RegisterRule
<1> HIDE DEF k, rule
<1>7. states'[k] \in StateId /\ \A j \in Key : j # k => rules'[j] = rules[j] /\ states'[j] = states[j]
  BY SMTT(30), <1>3, <1>4, <1>6 DEF StoreInv, TypeOK, StoreType, StoreConsistent
<1>8. rules'[k] = rule
  BY Zenon, <1>3, <1>4 DEF StoreInv, TypeOK, StoreType
<1>0. PICK new : new = [rule |-> rule, st |-> states'[k]]
  BY Zenon
<1>9. Stored' \subseteq Stored \cup {new}
  <2> SUFFICES ASSUME NEW j \in Key, rules'[j] # NoRule
               PROVE  [rule |-> rules'[j], st |-> states'[j]] \in Stored \cup {new}
    BY Zenon DEF Stored
  <2>1. CASE j = k
    BY Zenon, <1>0, <1>8, <2>1
  <2>2. CASE j # k
    BY Zenon, <1>7, <2>2 DEF Stored
  <2> QED
    BY Zenon, <2>1, <2>2
<1>10. Held' \subseteq Held \cup {new}
  <2>1. UNION {EntriesOf(req'[r]) : r \in Request} = UNION {EntriesOf(req[r]) : r \in Request}
    BY Zenon, <1>4
  <2>2. Held' = Stored' \cup UNION {EntriesOf(req'[r]) : r \in Request}
    BY Zenon DEF Held, EntriesOf
  <2> QED
    BY Zenon, <1>9, <2>1, <2>2 DEF Held
<1>11. new.st = states'[k] /\ new.rule = rule
  BY Zenon, <1>0
<1>12. /\ \A e \in Held : e.st \in StateId /\ e.rule.window \in 0..MaxWindow
       /\ \A e \in Held : Within(e.st, e.rule.window)
       /\ \A e, f \in Held : f.st = e.st => f.rule.window = e.rule.window
  BY Zenon, TimesType DEF TimerInv, WindowInv
<1>13. LoopAtInv'
  BY Zenon, <1>4 DEF TimerInv, LoopAtInv
<1>14. CASE rules[k] # NoRule
  <2>1. UNCHANGED <<states, heap>>
    BY Zenon, <1>6, <1>14
  <2> DEFINE old == [rule |-> rules[k], st |-> states[k]]
  <2>2. old \in Held /\ old.st = new.st /\ old.rule.window = new.rule.window
    BY Zenon, <1>3, <1>5, <1>11, <1>14, <2>1 DEF Held, Stored
  <2> HIDE DEF old
  <2>3. \A e \in Held \cup {new} : Within(e.st, e.rule.window)
    BY Zenon, <1>12, <2>2
  <2>4. \A e, f \in Held \cup {new} : f.st = e.st => f.rule.window = e.rule.window
    BY Zenon, <1>12, <2>2
  <2>5. \A e : Within(e.st, e.rule.window) => Within(e.st, e.rule.window)'
    BY Zenon, <1>4, <2>1 DEF Within
  <2>6. WindowInv'
    BY Zenon, <1>10, <2>3, <2>4, <2>5 DEF WindowInv
  <2>7. TimerNotLate'
    BY Zenon, <1>4, <2>1 DEF TimerInv, TimerNotLate, Opened
  <2> QED
    BY Zenon, <1>13, <2>6, <2>7 DEF TimerInv
<1>15. CASE rules[k] = NoRule
  <2>1. PICK st \in StateId : /\ ~Live(st)
                              /\ states' = [states EXCEPT ![k] = st]
                              /\ heap' = [heap EXCEPT ![st] = NewState(k)]
    BY Zenon, <1>6, <1>15
  <2>2. /\ heap'[st].recoverAt = NoTime /\ heap'[st].state = "CLOSED"
        /\ \A x \in StateId : x # st => heap'[x] = heap[x]
    BY Zenon, <2>1 DEF NewState, StoreInv, TypeOK, HeapType
  <2>3. stateQueue.waiting[st] = NoTime /\ loop.st # st /\ new.st = st
    BY Zenon, <1>3, <1>11, <2>1 DEF Live, StoreInv, TypeOK, StoreType
  <2>4. \A e \in Held : e.st # st
    <3>1. \A e \in Stored : e.st # st
      BY SMTT(30), <2>1 DEF Stored, Live
    <3>2. ASSUME NEW r \in Request PROVE \A e \in EntriesOf(req[r]) : e.st # st
      BY Zenon, <2>1 DEF EntriesOf, Live
    <3> QED
      BY Zenon, <3>1, <3>2 DEF Held
  <2>5. \A e \in Held : Within(e.st, e.rule.window)'
    BY Zenon, <1>4, <1>12, <2>2, <2>4 DEF Within
  <2>6. Within(new.st, new.rule.window)'
    BY <1>3, <1>4, <1>11, <2>2, <2>3, WindowAssumption DEF Within, NoTime
  <2>7. WindowInv'
    BY Zenon, <1>10, <1>12, <2>3, <2>4, <2>5, <2>6 DEF WindowInv
  <2>8. TimerNotLate'
    BY Zenon, <1>4, <2>2 DEF TimerInv, TimerNotLate, Opened
  <2> QED
    BY Zenon, <1>13, <2>7, <2>8 DEF TimerInv
<1> QED
  BY Zenon, <1>14, <1>15

(* The steps of Sync.                                                      *)
LEMMA SyncTimes ==
    ASSUME StoreInv, StoreInv', SyncInv, OneWindow, TimerInv,
           \/ \E c \in Config : SyncUpdate(c) \/ SyncRecover(c)
           \/ (\E b \in Breaker : SyncDelete(b)) \/ SyncStep
    PROVE  TimerInv'
<1>1. CASE \/ \E c \in Config : SyncUpdate(c) \/ SyncRecover(c)
           \/ \E b \in Breaker : SyncDelete(b)
  <2>1. UNCHANGED <<rules, states, req, heap, stateQueue, loop>>
    BY Zenon, <1>1 DEF SyncUpdate, SyncRecover, SyncDelete, store, lease
  <2> QED
    BY Zenon, <2>1, HeldSame, TimesQuiet
<1>2. CASE UnregisterRule
  <2> DEFINE k == Head(sync.del)
  <2>1. k \in Key
    BY <1>2 DEF UnregisterRule, StoreInv, TypeOK, SyncType
  <2>2. /\ rules' = [rules EXCEPT ![k] = NoRule] /\ states' = [states EXCEPT ![k] = NoState]
        /\ UNCHANGED <<heap, stateQueue, loop, req>>
    BY Zenon, <1>2 DEF UnregisterRule, lease
  <2> HIDE DEF k
  <2>3. rules'[k] = NoRule /\ \A j \in Key : j # k => rules'[j] = rules[j] /\ states'[j] = states[j]
    BY Zenon, <2>1, <2>2 DEF StoreInv, TypeOK, StoreType
  <2>4. Stored' \subseteq Stored
    BY Zenon, <2>3 DEF Stored
  <2>5. UNION {EntriesOf(req'[r]) : r \in Request} = UNION {EntriesOf(req[r]) : r \in Request}
    BY Zenon, <2>2
  <2>6. Held' = Stored' \cup UNION {EntriesOf(req'[r]) : r \in Request}
    BY Zenon DEF Held, EntriesOf
  <2>7. Held' \subseteq Held
    BY Zenon, <2>4, <2>5, <2>6 DEF Held
  <2> QED
    BY Zenon, <2>2, <2>7, TimesQuiet
<1>3. CASE RegisterRule
  BY Zenon, <1>3, RegisterTimes
<1>4. CASE RecoverRule
  <2> DEFINE x == states[Head(sync.rec)]
  <2>1. UNCHANGED <<rules, states, req, stateQueue, loop>> /\ Held' \subseteq Held
    BY Zenon, <1>4, HeldSame DEF RecoverRule, store, lease
  <2>2. x = NoState \/ x \in StateId
    BY <1>4 DEF RecoverRule, StoreInv, TypeOK, SyncType, StoreType
  <2>3. heap' = IF x = NoState THEN heap ELSE [heap EXCEPT ![x] = recoverBreaker(heap[x])]
    BY Zenon, <1>4 DEF RecoverRule
  <2> HIDE DEF x
  <2>4. CASE x = NoState
    BY Zenon, <2>1, <2>3, <2>4, TimesQuiet
  <2>5. CASE x \in StateId
    <3>1. heap[x] \in [key : Key, state : {"OPENED", "CLOSED"}, recoverAt : Ticks]
      BY Zenon, <2>5 DEF StoreInv, TypeOK, HeapType
    <3>2. recoverBreaker(heap[x]) = heap[x] \/ recoverBreaker(heap[x]).recoverAt = NoTime
      BY Zenon, <3>1 DEF recoverBreaker
    <3>3. heap' = [heap EXCEPT ![x] = recoverBreaker(heap[x])]
      BY Zenon, <2>3, <2>5
    <3>4. LoopAtInv'
      BY Zenon, <2>1 DEF TimerInv, LoopAtInv
    <3> QED
      BY Zenon, <2>1, <2>5, <3>2, <3>3, <3>4, SwitchTimes
  <2> QED
    BY Zenon, <2>2, <2>4, <2>5
<1> QED
  BY Zenon, <1>1, <1>2, <1>3, <1>4 DEF SyncStep

(* At start nothing is held and there is no deadline.                      *)
LEMMA TimerInvInit == Init => TimerInv
<1> SUFFICES ASSUME Init PROVE TimerInv
  BY Zenon
<1>1. /\ \A st \in StateId : heap[st].state = "CLOSED"
      /\ \A k \in Key : rules[k] = NoRule
      /\ loop.at = NoTime
      /\ \A r \in Request : req[r] = IdleReq
  BY Zenon DEF Init, NewState, IdleLoop
<1>2. TimerNotLate /\ LoopAtInv
  BY Zenon, <1>1 DEF TimerNotLate, LoopAtInv, Opened
<1>3. Held = {}
  <2>1. EntriesOf(IdleReq) = {}
    BY Zenon, NoEntryFact DEF EntriesOf, IdleReq
  <2> QED
    BY Zenon, <1>1, <2>1 DEF Held, Stored
<1>4. WindowInv
  BY Zenon, <1>3 DEF WindowInv
<1> QED
  BY Zenon, <1>2, <1>4 DEF TimerInv

(* Every step keeps TimerInv.                                              *)
LEMMA TimerInvNext ==
    ASSUME OneWindow
    PROVE  StoreInv /\ StoreInv' /\ SyncInv /\ TimerInv /\ [Next]_vars => TimerInv'
<1> SUFFICES ASSUME StoreInv, StoreInv', SyncInv, TimerInv, [Next]_vars PROVE TimerInv'
  BY Zenon
<1>1. CASE UNCHANGED vars
  BY Zenon, <1>1, HeldSame, TimesQuiet DEF vars
<1>2. CASE Next
  BY Zenon, <1>2, SyncTimes, RequestTimes, LoopTimes, TickTimes DEF Next
<1> QED
  BY Zenon, <1>1, <1>2

(* When every configuration gives one window to one name, no timer of the  *)
(* lease is later than the deadline of the open breaker it is to close,    *)
(* however requests with old and new rules, Sync, the loop and the clock   *)
(* interleave (registerState, processingLoop, triggerBreakerWithTimeWindow *)
(* and the delaying queue).                                                *)
THEOREM TimerCorrect ==
    ASSUME OneWindow
    PROVE  Spec => []TimerNotLate
<1>1. Init => StoreInv /\ SyncInv /\ TimerInv
  BY Zenon, StoreInvInit, SyncInvInit, TimerInvInit
<1>2. StoreInv /\ SyncInv /\ TimerInv /\ [Next]_vars => (StoreInv /\ SyncInv /\ TimerInv)'
  BY Zenon, StoreInvNext, SyncInvNext, TimerInvNext
<1>3. TimerInv => TimerNotLate
  BY Zenon DEF TimerInv
<1> QED
  BY <1>1, <1>2, <1>3, PTL DEF Spec
=============================================================================
