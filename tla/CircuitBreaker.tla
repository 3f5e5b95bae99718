--------------------------- MODULE CircuitBreaker ---------------------------
(***************************************************************************)
(* The circuit breaker of ctrlmesh-proxy (pkg/proxy/circuitbreaker): the   *)
(* limiter store with its state objects, the recovery lease with its       *)
(* delaying queue, Sync, and the requests validated against the rules.     *)
(*                                                                         *)
(* Three kinds of goroutine run at once.                                   *)
(*   - Sync (one at a time, under manager.mu) replaces the rules of one    *)
(*     CircuitBreaker one rule at a time; store.mu is taken per rule, so   *)
(*     requests run between two of its steps.                              *)
(*   - A request takes rule and state pointers out of the store and goes   *)
(*     through them with no store lock held: it may trip or close a state  *)
(*     object that Sync has thrown away meanwhile.  State objects have an  *)
(*     identity (StateId) for that reason.                                 *)
(*   - lease.processingLoop closes the breakers whose window has elapsed.  *)
(*                                                                         *)
(* What is abstracted: a rate limiter's Allow() is a free choice; a rule's *)
(* index values are members of Seed; a request brings the sequence of      *)
(* index values it looks up; the hash of a configuration is the            *)
(* configuration itself; times are ticks left until a deadline.            *)
(***************************************************************************)
EXTENDS Integers, Sequences, FiniteSets, DelayingQueue

CONSTANTS
    Breaker,    \* names of CircuitBreaker objects
    Limiting,   \* names of the limiting rules inside one CircuitBreaker
    Seed,       \* index values ("ns:apiGroup:resource:verb", "url:method")
    Config,     \* the configurations the manager may send
    Lookup,     \* the seed sequences requests look up, most specific first
    Request,    \* request goroutines
    StateId,    \* identities of state objects
    MaxWindow,  \* bound on sleepingWindowSize, in ticks
    Options,    \* the Sync options used: a subset of {"UPDATE", "DELETE", "RECOVER"}
    NoRule, NoConfig, NoState   \* Go's nil

Policy == {"FORCE_OPENED", "FORCE_CLOSED", "LIMITER_ONLY", "NORMAL"}
RecoverPolicy == {"MANUAL", "SLEEPING_WINDOW", "NIL"}

(* A window of 0 is a sleepingWindowSize that does not parse.              *)
Rule == [seeds : SUBSET Seed, policy : Policy, recover : RecoverPolicy, window : 0..MaxWindow]
Key == Breaker \X Limiting

ASSUME ConfigAssumption ==
    Config \subseteq [name : Breaker, limitings : Seq([name : Limiting, rule : Rule])]
ASSUME LookupAssumption == Lookup \subseteq Seq(Seed) \ {<<>>}
ASSUME WindowAssumption == MaxWindow \in Nat
ASSUME NameAssumption == Breaker # {} /\ Limiting # {}
ASSUME NilAssumption == NoRule \notin Rule /\ NoConfig \notin Config /\ NoState \notin StateId

VARIABLES
    breakerMap, \* manager.breakerMap
    rules,      \* store.rules
    states,     \* store.states
    indices,    \* store.indices: the keys under every index value
    heap,       \* the state objects themselves
    stateSet,   \* lease.stateSet
    stateQueue, \* lease.stateQueue
    loop,       \* the goroutine of lease.processingLoop
    sync,       \* what the Sync call under manager.mu has still to do
    req,        \* the request goroutines
    orphaned    \* history: keys put in stateSet by a registration that then panicked

store == <<breakerMap, rules, states, indices>>
lease == <<stateSet, stateQueue, orphaned>>
vars == <<breakerMap, rules, states, indices, heap, stateSet, stateQueue, loop, sync, req, orphaned>>

-----------------------------------------------------------------------------
(* state objects                                                           *)

NewState(k) == [key |-> k, state |-> "CLOSED", recoverAt |-> NoTime]

Opened(st) == heap[st].state = "OPENED"

triggerBreaker(o) ==
    IF o.state = "OPENED" THEN o ELSE [o EXCEPT !.state = "OPENED", !.recoverAt = NoTime]

triggerBreakerWithTimeWindow(o, window) ==
    IF o.state = "OPENED" THEN o ELSE [o EXCEPT !.state = "OPENED", !.recoverAt = window]

recoverBreaker(o) ==
    IF o.state = "CLOSED" THEN o ELSE [o EXCEPT !.state = "CLOSED", !.recoverAt = NoTime]

(* A state object some goroutine, map or queue still points to.            *)
Live(st) ==
    \/ \E k \in Key : st \in {states[k], stateSet[k]}
    \/ st \in stateQueue.dirty \cup stateQueue.processing
    \/ stateQueue.waiting[st] # NoTime
    \/ loop.st = st
    \/ \E r \in Request : st = req[r].cur.st \/ \E e \in req[r].todo : e.st = st

-----------------------------------------------------------------------------
(* Sync                                                                    *)

IdleSync == [del |-> <<>>, add |-> <<>>, rec |-> <<>>]

Keys(c) == [i \in 1..Len(c.limitings) |-> <<c.name, c.limitings[i].name>>]

KeyedRules(c) ==
    [i \in 1..Len(c.limitings) |-> [key |-> <<c.name, c.limitings[i].name>>, rule |-> c.limitings[i].rule]]

(* Mutant: the old rules stay registered.                                  *)
SyncUpdateKeepsOld(c) ==
    /\ "UPDATE" \in Options
    /\ sync = IdleSync
    /\ breakerMap[c.name] # c
    /\ breakerMap' = [breakerMap EXCEPT ![c.name] = c]
    /\ sync' = [IdleSync EXCEPT !.add = KeyedRules(c)]
    /\ UNCHANGED <<rules, states, indices, heap, lease, loop, req>>

(* UPDATE: nothing if the hash is the same, else unregister what was there *)
(* and register the new rules.  Only Sync reads breakerMap.                *)
SyncUpdate(c) ==
    /\ "UPDATE" \in Options
    /\ sync = IdleSync
    /\ breakerMap[c.name] # c
    /\ breakerMap' = [breakerMap EXCEPT ![c.name] = c]
    /\ sync' = [del |-> IF breakerMap[c.name] = NoConfig THEN <<>> ELSE Keys(breakerMap[c.name]),
                add |-> KeyedRules(c),
                rec |-> <<>>]
    /\ UNCHANGED <<rules, states, indices, heap, lease, loop, req>>

SyncDelete(b) ==
    /\ "DELETE" \in Options
    /\ sync = IdleSync
    /\ breakerMap[b] # NoConfig
    /\ breakerMap' = [breakerMap EXCEPT ![b] = NoConfig]
    /\ sync' = [IdleSync EXCEPT !.del = Keys(breakerMap[b])]
    /\ UNCHANGED <<rules, states, indices, heap, lease, loop, req>>

(* RECOVER names its rules in the message; they need not be registered.    *)
SyncRecover(c) ==
    /\ "RECOVER" \in Options
    /\ sync = IdleSync
    /\ sync' = [IdleSync EXCEPT !.rec = Keys(c)]
    /\ UNCHANGED <<store, heap, lease, loop, req>>

(* Mutant: an index value that is left without rules is kept.              *)
deleteFromIndicesKeepsLast(ind, rule, k) ==
    [s \in Seed |-> IF s \in rule.seeds /\ ind[s] # {k} THEN ind[s] \ {k} ELSE ind[s]]

deleteFromIndices(ind, rule, k) ==
    [s \in Seed |-> IF s \in rule.seeds THEN ind[s] \ {k} ELSE ind[s]]

updateIndices(ind, old, rule, k) ==
    LET cleared == IF old = NoRule THEN ind ELSE deleteFromIndices(ind, old, k)
    IN  [s \in Seed |-> IF s \in rule.seeds THEN cleared[s] \cup {k} ELSE cleared[s]]

(* store.deleteRule for the next rule to unregister.                       *)
UnregisterRule ==
    /\ sync.del # <<>>
    /\ LET k == Head(sync.del)
       IN  /\ indices' = IF rules[k] = NoRule THEN indices
                         ELSE deleteFromIndices(indices, rules[k], k)
           /\ rules' = [rules EXCEPT ![k] = NoRule]
           /\ states' = [states EXCEPT ![k] = NoState]
    /\ sync' = [sync EXCEPT !.del = Tail(@)]
    /\ UNCHANGED <<breakerMap, heap, lease, loop, req>>

(* store.createOrUpdateRule: a new rule gets a new, closed state object; a *)
(* rule whose key is taken already (two limitings of one name) keeps it.   *)
RegisterRule ==
    /\ sync.del = <<>>
    /\ sync.add # <<>>
    /\ LET k == Head(sync.add).key
           rule == Head(sync.add).rule
       IN  /\ indices' = updateIndices(indices, rules[k], rule, k)
           /\ rules' = [rules EXCEPT ![k] = rule]
           /\ \/ /\ rules[k] = NoRule
                 /\ \E st \in StateId :
                       /\ ~Live(st)
                       /\ states' = [states EXCEPT ![k] = st]
                       /\ heap' = [heap EXCEPT ![st] = NewState(k)]
              \/ /\ rules[k] # NoRule
                 /\ UNCHANGED <<states, heap>>
    /\ sync' = [sync EXCEPT !.add = Tail(@)]
    /\ UNCHANGED <<breakerMap, lease, loop, req>>

(* manager.recoverBreaker for the next rule named by RECOVER.              *)
RecoverRule ==
    /\ sync.rec # <<>>
    /\ LET st == states[Head(sync.rec)]
       IN  heap' = IF st = NoState THEN heap ELSE [heap EXCEPT ![st] = recoverBreaker(@)]
    /\ sync' = [sync EXCEPT !.rec = Tail(@)]
    /\ UNCHANGED <<store, lease, loop, req>>

-----------------------------------------------------------------------------
(* requests                                                                *)

NoEntry == [rule |-> NoRule, st |-> NoState]
IdleReq == [pc |-> "idle", seeds |-> <<>>, todo |-> {}, cur |-> NoEntry, allowed |-> TRUE]

(* What byIndex returns for one index value: pointers to rules and states. *)
byIndex(s) == {[rule |-> rules[k], st |-> states[k]] : k \in indices[s]}

Start(r, seeds) ==
    /\ req[r].pc = "idle"
    /\ req' = [req EXCEPT ![r].pc = "lookup", ![r].seeds = seeds]
    /\ UNCHANGED <<store, heap, lease, loop, sync>>

(* ValidateResource and ValidateRest: the first index value with rules     *)
(* decides; if there is none the request is allowed.                       *)
LookUp(r) ==
    /\ req[r].pc = "lookup"
    /\ LET found == byIndex(Head(req[r].seeds))
           rest == Tail(req[r].seeds)
       IN  \/ /\ found # {}
              /\ req' = [req EXCEPT ![r].pc = "next", ![r].seeds = <<>>, ![r].todo = found]
           \/ /\ found = {} /\ rest # <<>>
              /\ req' = [req EXCEPT ![r].seeds = rest]
           \/ /\ found = {} /\ rest = <<>>
              /\ req' = [req EXCEPT ![r] = IdleReq]
    /\ UNCHANGED <<store, heap, lease, loop, sync>>

(* doValidation takes the rules in the order of a map iteration.  It reads *)
(* the status first and refuses the request if it is OPENED.               *)
PickRule(r) ==
    /\ req[r].pc = "next"
    /\ \E e \in req[r].todo :
          req' = [req EXCEPT ![r].todo = @ \ {e},
                             ![r].cur = e,
                             ![r].pc = "policy",
                             ![r].allowed = @ /\ ~Opened(e.st)]
    /\ UNCHANGED <<store, heap, lease, loop, sync>>

(* The request is back at the head of the loop over its rules.             *)
Proceed(q) ==
    [q EXCEPT !.pc = "next", !.cur = NoEntry]

ForceOpened(r) ==
    /\ req[r].pc = "policy"
    /\ req[r].cur.rule.policy = "FORCE_OPENED"
    /\ heap' = [heap EXCEPT ![req[r].cur.st] = triggerBreaker(@)]
    /\ req' = [req EXCEPT ![r] = Proceed([@ EXCEPT !.allowed = FALSE])]
    /\ UNCHANGED <<store, lease, loop, sync>>

ForceClosed(r) ==
    /\ req[r].pc = "policy"
    /\ req[r].cur.rule.policy = "FORCE_CLOSED"
    /\ heap' = [heap EXCEPT ![req[r].cur.st] = recoverBreaker(@)]
    /\ req' = [req EXCEPT ![r] = Proceed([@ EXCEPT !.allowed = TRUE])]
    /\ UNCHANGED <<store, lease, loop, sync>>

LimiterOnly(r) ==
    /\ req[r].pc = "policy"
    /\ req[r].cur.rule.policy = "LIMITER_ONLY"
    /\ heap' = [heap EXCEPT ![req[r].cur.st] = recoverBreaker(@)]
    /\ \E allow \in BOOLEAN :
          req' = [req EXCEPT ![r] = Proceed([req[r] EXCEPT !.allowed = req[r].allowed /\ allow])]
    /\ UNCHANGED <<store, lease, loop, sync>>

(* Mutant: the limiter is asked although the breaker is open.              *)
NormalAlwaysAsks(r) ==
    /\ req[r].pc = "policy"
    /\ req[r].cur.rule.policy = "NORMAL"
    /\ \E allow \in BOOLEAN :
          req' = [req EXCEPT ![r].pc = IF allow THEN "reset" ELSE "trigger",
                             ![r].allowed = @ /\ allow]
    /\ UNCHANGED <<store, heap, lease, loop, sync>>

(* NORMAL: a second, unlocked read of the state; the limiter is asked only *)
(* if it is CLOSED.                                                        *)
Normal(r) ==
    /\ req[r].pc = "policy"
    /\ req[r].cur.rule.policy = "NORMAL"
    /\ \/ /\ Opened(req[r].cur.st)
          /\ req' = [req EXCEPT ![r] = Proceed(@)]
       \/ /\ ~Opened(req[r].cur.st)
          /\ \E allow \in BOOLEAN :
                req' = [req EXCEPT ![r].pc = IF allow THEN "reset" ELSE "trigger",
                                   ![r].allowed = @ /\ allow]
    /\ UNCHANGED <<store, heap, lease, loop, sync>>

(* The limiter allowed the request: the breaker is closed.                 *)
Reset(r) ==
    /\ req[r].pc = "reset"
    /\ heap' = [heap EXCEPT ![req[r].cur.st] = recoverBreaker(@)]
    /\ req' = [req EXCEPT ![r] = Proceed(@)]
    /\ UNCHANGED <<store, lease, loop, sync>>

(* The limiter refused it: the breaker opens, by the recover policy.  A    *)
(* rule without one is a nil dereference; net/http ends the request.       *)
Trigger(r) ==
    /\ req[r].pc = "trigger"
    /\ LET st == req[r].cur.st
           recover == req[r].cur.rule.recover
       IN  \/ /\ recover = "SLEEPING_WINDOW"
              /\ heap' = [heap EXCEPT ![st] = triggerBreakerWithTimeWindow(@, req[r].cur.rule.window)]
              /\ req' = [req EXCEPT ![r].pc = "register"]
           \/ /\ recover = "MANUAL"
              /\ heap' = [heap EXCEPT ![st] = triggerBreaker(@)]
              /\ req' = [req EXCEPT ![r] = Proceed(@)]
           \/ /\ recover = "NIL"
              /\ heap' = heap
              /\ req' = [req EXCEPT ![r] = IdleReq]
    /\ UNCHANGED <<store, lease, loop, sync>>

(* All rules are handled: doValidation returns its result.                 *)
Return(r) ==
    /\ req[r].pc = "next"
    /\ req[r].todo = {}
    /\ req' = [req EXCEPT ![r] = IdleReq]
    /\ UNCHANGED <<store, heap, lease, loop, sync>>

-----------------------------------------------------------------------------
(* lease                                                                   *)

(* lease.mu is held only by a registration between its test of recoverAt   *)
(* and its second read of it.                                              *)
LeaseFree == \A r \in Request : req[r].pc # "addAfter"

(* Mutant: the tripped state is never handed to the lease.                 *)
RegisterStateForgets(r) ==
    /\ req[r].pc = "register"
    /\ req' = [req EXCEPT ![r] = Proceed(@)]
    /\ UNCHANGED <<store, heap, lease, loop, sync>>

(* registerState, the test before the lock.                                *)
RegisterState(r) ==
    /\ req[r].pc = "register"
    /\ req' = [req EXCEPT ![r] = IF Opened(req[r].cur.st) THEN [@ EXCEPT !.pc = "insert"] ELSE Proceed(@)]
    /\ UNCHANGED <<store, heap, lease, loop, sync>>

(* Mutant: a key that is in stateSet already is registered again.          *)
InsertStateAgain(r) ==
    /\ req[r].pc = "insert"
    /\ LeaseFree
    /\ LET st == req[r].cur.st
       IN  IF heap[st].recoverAt # NoTime
           THEN /\ stateSet' = [stateSet EXCEPT ![heap[st].key] = st]
                /\ req' = [req EXCEPT ![r].pc = "addAfter"]
           ELSE /\ req' = [req EXCEPT ![r] = Proceed(@)]
                /\ UNCHANGED stateSet
    /\ UNCHANGED <<store, heap, stateQueue, orphaned, loop, sync>>

(* Under lease.mu: nothing if the key is there or recoverAt is nil.        *)
InsertState(r) ==
    /\ req[r].pc = "insert"
    /\ LeaseFree
    /\ LET st == req[r].cur.st
           k == heap[st].key
       IN  IF stateSet[k] = NoState /\ heap[st].recoverAt # NoTime
           THEN /\ stateSet' = [stateSet EXCEPT ![k] = st]
                /\ req' = [req EXCEPT ![r].pc = "addAfter"]
           ELSE /\ req' = [req EXCEPT ![r] = Proceed(@)]
                /\ UNCHANGED stateSet
    /\ UNCHANGED <<store, heap, stateQueue, orphaned, loop, sync>>

(* recoverAt is read again, without the state's lock.  If it was cleared   *)
(* meanwhile this is a nil dereference: the deferred unlock runs, net/http *)
(* ends the request, and the key stays in stateSet with nothing queued.    *)
AddStateAfter(r) ==
    /\ req[r].pc = "addAfter"
    /\ LET st == req[r].cur.st
       IN  \/ /\ heap[st].recoverAt # NoTime
              /\ stateQueue' = AddAfter(stateQueue, st, heap[st].recoverAt)
              /\ req' = [req EXCEPT ![r] = Proceed(@)]
              /\ UNCHANGED orphaned
           \/ /\ heap[st].recoverAt = NoTime
              /\ req' = [req EXCEPT ![r] = IdleReq]
              /\ orphaned' = orphaned \cup {heap[st].key}
              /\ UNCHANGED stateQueue
    /\ UNCHANGED <<store, heap, stateSet, loop, sync>>

-----------------------------------------------------------------------------
(* processingLoop.  loop.at is the local recoverAt, in ticks left.         *)

IdleLoop == [pc |-> "get", st |-> NoState, at |-> NoTime]

LoopGet ==
    /\ loop.pc = "get"
    /\ stateQueue.queue # <<>>
    /\ stateQueue' = Get(stateQueue)
    /\ loop' = [loop EXCEPT !.pc = "read", !.st = Head(stateQueue.queue)]
    /\ UNCHANGED <<store, heap, stateSet, orphaned, sync, req>>

(* A deadline in the future sends the state back to the queue; one that    *)
(* has passed, and none at all, closes it.                                 *)
LoopRead ==
    /\ loop.pc = "read"
    /\ LET at == heap[loop.st].recoverAt
       IN  loop' = IF at > 0 THEN [loop EXCEPT !.pc = "requeue", !.at = at]
                   ELSE [loop EXCEPT !.pc = "delete"]
    /\ UNCHANGED <<store, heap, lease, sync, req>>

(* Mutant: a state is put back for a whole window.                         *)
LoopRequeueWholeWindow ==
    /\ loop.pc = "requeue"
    /\ stateQueue' = AddAfter(stateQueue, loop.st, MaxWindow)
    /\ loop' = [loop EXCEPT !.pc = "done", !.at = NoTime]
    /\ UNCHANGED <<store, heap, stateSet, orphaned, sync, req>>

LoopRequeue ==
    /\ loop.pc = "requeue"
    /\ stateQueue' = AddAfter(stateQueue, loop.st, loop.at)
    /\ loop' = [loop EXCEPT !.pc = "done", !.at = NoTime]
    /\ UNCHANGED <<store, heap, stateSet, orphaned, sync, req>>

LoopDelete ==
    /\ loop.pc = "delete"
    /\ LeaseFree
    /\ stateSet' = [stateSet EXCEPT ![heap[loop.st].key] = NoState]
    /\ orphaned' = orphaned \ {heap[loop.st].key}
    /\ loop' = [loop EXCEPT !.pc = "recover"]
    /\ UNCHANGED <<store, heap, stateQueue, sync, req>>

LoopRecover ==
    /\ loop.pc = "recover"
    /\ heap' = [heap EXCEPT ![loop.st] = recoverBreaker(@)]
    /\ loop' = [loop EXCEPT !.pc = "done"]
    /\ UNCHANGED <<store, lease, sync, req>>

LoopDone ==
    /\ loop.pc = "done"
    /\ stateQueue' = Done(stateQueue, loop.st)
    /\ loop' = IdleLoop
    /\ UNCHANGED <<store, heap, stateSet, orphaned, sync, req>>

(* The queue's own goroutine moves a due state to the queue.               *)
TimerFires(st) ==
    /\ stateQueue.waiting[st] = 0
    /\ stateQueue' = Fire(stateQueue, st)
    /\ UNCHANGED <<store, heap, stateSet, orphaned, loop, sync, req>>

(* Time passes while some deadline is ahead.                               *)
Tick ==
    /\ \/ \E st \in StateId : heap[st].recoverAt > 0 \/ stateQueue.waiting[st] > 0
       \/ loop.at > 0
    /\ heap' = [st \in StateId |-> [heap[st] EXCEPT !.recoverAt = Elapsed(@)]]
    /\ stateQueue' = Elapse(stateQueue)
    /\ loop' = [loop EXCEPT !.at = Elapsed(@)]
    /\ UNCHANGED <<store, stateSet, orphaned, sync, req>>

-----------------------------------------------------------------------------
Init ==
    /\ breakerMap = [b \in Breaker |-> NoConfig]
    /\ rules = [k \in Key |-> NoRule]
    /\ states = [k \in Key |-> NoState]
    /\ indices = [s \in Seed |-> {}]
    /\ heap = [st \in StateId |-> NewState(CHOOSE k \in Key : TRUE)]
    /\ stateSet = [k \in Key |-> NoState]
    /\ stateQueue = EmptyQueue(StateId)
    /\ loop = IdleLoop
    /\ sync = IdleSync
    /\ req = [r \in Request |-> IdleReq]
    /\ orphaned = {}

SyncStep == UnregisterRule \/ RegisterRule \/ RecoverRule

RequestStep(r) ==
    \/ LookUp(r) \/ PickRule(r)
    \/ ForceOpened(r) \/ ForceClosed(r) \/ LimiterOnly(r) \/ Normal(r)
    \/ Reset(r) \/ Trigger(r) \/ Return(r)
    \/ RegisterState(r) \/ InsertState(r) \/ AddStateAfter(r)

LoopStep == LoopGet \/ LoopRead \/ LoopRequeue \/ LoopDelete \/ LoopRecover \/ LoopDone

Next ==
    \/ \E c \in Config : SyncUpdate(c) \/ SyncRecover(c)
    \/ \E b \in Breaker : SyncDelete(b)
    \/ SyncStep
    \/ \E r \in Request : RequestStep(r) \/ \E seeds \in Lookup : Start(r, seeds)
    \/ LoopStep
    \/ \E st \in StateId : TimerFires(st)
    \/ Tick

(* A goroutine that can run eventually runs, and time passes.  No fairness *)
(* for what the outside does: new requests and Sync calls.                 *)
Fairness ==
    /\ WF_vars(SyncStep) /\ WF_vars(LoopStep) /\ WF_vars(Tick)
    /\ \A r \in Request : WF_vars(RequestStep(r))
    /\ \A st \in StateId : WF_vars(TimerFires(st))

Spec == Init /\ [][Next]_vars /\ Fairness

-----------------------------------------------------------------------------
(* properties                                                              *)

Entry == [rule : Rule, st : StateId]
Ticks == 0..MaxWindow \cup {NoTime}

StoreType ==
    /\ breakerMap \in [Breaker -> Config \cup {NoConfig}]
    /\ rules \in [Key -> Rule \cup {NoRule}]
    /\ states \in [Key -> StateId \cup {NoState}]
    /\ indices \in [Seed -> SUBSET Key]

HeapType ==
    heap \in [StateId -> [key : Key, state : {"OPENED", "CLOSED"}, recoverAt : Ticks]]

LeaseType ==
    /\ stateSet \in [Key -> StateId \cup {NoState}]
    /\ stateQueue \in [waiting : [StateId -> Ticks], dirty : SUBSET StateId,
                       queue : Seq(StateId), processing : SUBSET StateId]
    /\ orphaned \subseteq Key

LoopType ==
    /\ loop \in [pc : {"get", "read", "requeue", "delete", "recover", "done"},
                 st : StateId \cup {NoState}, at : Ticks]
    /\ loop.pc = "get" <=> loop.st = NoState

SyncType ==
    sync \in [del : Seq(Key), add : Seq([key : Key, rule : Rule]), rec : Seq(Key)]

Handling == {"policy", "reset", "trigger", "register", "insert", "addAfter"}

ReqRecord ==
    {q \in [pc : {"idle", "lookup", "next"} \cup Handling, seeds : Seq(Seed),
            todo : SUBSET Entry, cur : Entry \cup {NoEntry}, allowed : BOOLEAN] :
        /\ q.pc = "lookup" => q.seeds # <<>>
        /\ q.cur \in Entry <=> q.pc \in Handling}

ReqType == req \in [Request -> ReqRecord]

(* Every variable has the type of the Go value it stands for; a request    *)
(* holds a rule and a state object exactly while it handles one, and never *)
(* a nil rule or state out of the store.                                   *)
TypeOK == StoreType /\ HeapType /\ LeaseType /\ LoopType /\ SyncType /\ ReqType

(* The three maps of the store agree at every moment a request may look:   *)
(* a rule has a state object, made for its key, and is found under exactly *)
(* its own index values.  Sync replaces rules one by one, and removes from *)
(* the index with the values of the rule it finds there.                   *)
StoreConsistent ==
    /\ \A k \in Key : rules[k] = NoRule <=> states[k] = NoState
    /\ \A k \in Key : states[k] # NoState => heap[states[k]].key = k
    /\ \A s \in Seed, k \in Key : k \in indices[s] <=> rules[k] # NoRule /\ s \in rules[k].seeds

(* The rule a configuration gives to one name: of several limitings of the *)
(* same name the last one wins.                                            *)
RuleOf(c, l) ==
    LET at == {i \in 1..Len(c.limitings) : c.limitings[i].name = l}
    IN  IF at = {} THEN NoRule
        ELSE c.limitings[CHOOSE i \in at : \A j \in at : j <= i].rule

(* Once a Sync call is through, the store holds the rules of the           *)
(* configurations in breakerMap and nothing left over from earlier ones.   *)
StoreMatchesConfig ==
    sync = IdleSync =>
        \A b \in Breaker, l \in Limiting :
            rules[<<b, l>>] = IF breakerMap[b] = NoConfig THEN NoRule ELSE RuleOf(breakerMap[b], l)

(* The four places where the timer of a state object can be.               *)
Waiting(st) == stateQueue.waiting[st] # NoTime
Queued(st) == st \in stateQueue.dirty
InLoop(st) == loop.st = st /\ loop.pc \in {"read", "requeue", "delete"}
Registering == {req[r].cur.st : r \in {p \in Request : req[p].pc = "addAfter"}}
Adding(st) == st \in Registering

(* A key in lease.stateSet has one timer, in one place; a timer belongs to *)
(* the state object its key has in stateSet.  So registerState may skip a  *)
(* key that is there, and no state is ever queued twice.  The exception is *)
(* a registration that panicked: its key has no timer (orphaned).          *)
OneTimerPerKey ==
    /\ \A k \in Key : LET st == stateSet[k] IN
          st # NoState =>
              /\ heap[st].key = k
              /\ k \notin orphaned => Waiting(st) \/ Queued(st) \/ InLoop(st) \/ Adding(st)
    /\ \A st \in StateId :
          /\ Waiting(st) \/ Queued(st) \/ InLoop(st) \/ Adding(st) =>
                stateSet[heap[st].key] = st /\ heap[st].key \notin orphaned
          /\ Waiting(st) => ~Queued(st) /\ ~InLoop(st) /\ ~Adding(st)
          /\ Queued(st) => ~InLoop(st) /\ ~Adding(st)
          /\ InLoop(st) => ~Adding(st)

(* "Every element of queue should be in the dirty set and not in the       *)
(* processing set" (workqueue/queue.go), it is there once, and the one     *)
(* loop of the lease processes one item at a time.                         *)
QueueShape ==
    /\ \A i, j \in 1..Len(stateQueue.queue) : stateQueue.queue[i] = stateQueue.queue[j] => i = j
    /\ {stateQueue.queue[i] : i \in 1..Len(stateQueue.queue)} = stateQueue.dirty \ stateQueue.processing
    /\ stateQueue.processing = {loop.st} \ {NoState}

(* A timer is never later than the deadline of the breaker it will close:  *)
(* a timer left over from an earlier opening may fire early and be put     *)
(* back, but no opening is extended by it.  Two limitings of one name share*)
(* a state object; the configurations give them the same window.           *)
TimerNotLate ==
    \A st \in StateId :
        Opened(st) /\ heap[st].recoverAt # NoTime =>
            /\ stateQueue.waiting[st] <= heap[st].recoverAt
            /\ loop.st = st => loop.at <= heap[st].recoverAt

(* "RecoverPolicy defines how the circuit-breaking policy recovered from   *)
(* 'Opened' to 'Closed'" (ThrottlingConfig's Limiting type): the open      *)
(* breaker of a NORMAL rule closes when its window is over or by RECOVER.  *)
ClosedByPolicy ==
    [][\A k \in Key : LET st == states[k] IN
          st # NoState /\ rules[k].policy = "NORMAL" /\ Opened(st) /\ heap'[st].state = "CLOSED" =>
              \/ rules[k].recover = "SLEEPING_WINDOW" /\ heap[st].recoverAt = 0
              \/ sync.rec # <<>> /\ Head(sync.rec) = k]_vars

(* An open breaker with a window closes, or is replaced: whichever request *)
(* opened it has registered it with the lease, and the lease wakes up.     *)
WindowRecovers ==
    \A k \in Key :
        (states[k] # NoState /\ Opened(states[k]) /\ heap[states[k]].recoverAt # NoTime)
            ~> (states[k] = NoState \/ ~Opened(states[k]))
=============================================================================
