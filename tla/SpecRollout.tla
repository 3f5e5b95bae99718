----------------------------- MODULE SpecRollout ----------------------------
(***************************************************************************)
(* What the sharding protocol promises, without its messages: each Pod of  *)
(* a ShardingConfig runs at most one spec, a spec is taken on only while   *)
(* no other Pod runs a different one, and a Pod gives its spec up only by  *)
(* going down.  ShardDelivery implements it.                               *)
(***************************************************************************)
CONSTANTS Pod, Hash, None

VARIABLES
    running,  \* running[p]: the spec the proxy of p serves with, None if it does not
    saved     \* saved[p]: the spec that survives a crash of the proxy of p

Init == running = [p \in Pod |-> None] /\ saved = [p \in Pod |-> None]

Others(p) == {running[q] : q \in Pod \ {p}} \ {None}

(* A Pod commits to its first spec.                                        *)
Commit(p, h) ==
    /\ saved[p] = None /\ Others(p) \subseteq {h}
    /\ saved' = [saved EXCEPT ![p] = h]
    /\ UNCHANGED running

(* A Pod serves with the spec it is committed to.                          *)
Serve(p) ==
    /\ running[p] = None /\ saved[p] # None
    /\ running' = [running EXCEPT ![p] = saved[p]]
    /\ UNCHANGED saved

(* A Pod goes down, keeping its spec or losing it.                         *)
GoDown(p) ==
    /\ running' = [running EXCEPT ![p] = None]
    /\ saved' \in {saved, [saved EXCEPT ![p] = None]}

Next == \E p \in Pod : GoDown(p) \/ Serve(p) \/ \E h \in Hash : Commit(p, h)

Spec == Init /\ [][Next]_<<running, saved>>
=============================================================================
