--------------------------- MODULE DelayingQueue ---------------------------
(***************************************************************************)
(* The delaying work queue of k8s.io/client-go (vendored under             *)
(* vendor/k8s.io/client-go/util/workqueue), as pure operators on a queue   *)
(* value.  A queue value is a record                                       *)
(*                                                                         *)
(*   waiting    : the delay heap; ticks left for an item, NoTime if the    *)
(*                item is not waiting                                      *)
(*   dirty      : items that need processing                               *)
(*   queue      : the order in which they are handed out                   *)
(*   processing : items handed out by Get and not yet given back by Done   *)
(*                                                                         *)
(* Times are relative (ticks left), so a model needs no bound on the       *)
(* clock.  The buffered channel between AddAfter and waitingLoop is not    *)
(* modelled: an item on it is an item of the heap that has not fired yet.  *)
(* ShutDown is not modelled either.                                        *)
(***************************************************************************)
EXTENDS Integers, Sequences

NoTime == -1

EmptyQueue(Item) ==
    [waiting |-> [x \in Item |-> NoTime], dirty |-> {}, queue |-> <<>>, processing |-> {}]

Add(q, x) ==
    IF x \in q.dirty
    THEN q
    ELSE [q EXCEPT !.dirty = @ \cup {x},
                   !.queue = IF x \in q.processing THEN @ ELSE Append(@, x)]

(* A waiting item keeps the earlier of its old and its new deadline.       *)
AddAfter(q, x, d) ==
    IF d <= 0
    THEN Add(q, x)
    ELSE [q EXCEPT !.waiting[x] = IF @ = NoTime \/ d < @ THEN d ELSE @]

(* waitingLoop moves a due item from the heap to the queue.                *)
Fire(q, x) ==
    Add([q EXCEPT !.waiting[x] = NoTime], x)

Get(q) ==
    [q EXCEPT !.queue = Tail(@),
              !.processing = @ \cup {Head(q.queue)},
              !.dirty = @ \ {Head(q.queue)}]

Done(q, x) ==
    [q EXCEPT !.processing = @ \ {x},
              !.queue = IF x \in q.dirty THEN Append(@, x) ELSE @]

(* One tick of the clock.                                                  *)
Elapsed(t) ==
    IF t > 0 THEN t - 1 ELSE t

Elapse(q) ==
    [q EXCEPT !.waiting = [x \in DOMAIN @ |-> Elapsed(@[x])]]
=============================================================================
