-------------------------- MODULE MCCircuitBreaker --------------------------
(* Instances of CircuitBreaker for TLC.                                    *)
EXTENDS CircuitBreaker, TLC

R(seeds, policy, recover, window) == [seeds |-> seeds, policy |-> policy, recover |-> recover, window |-> window]
L(name, rule) == [name |-> name, rule |-> rule]
C(name, limitings) == [name |-> name, limitings |-> limitings]

WindowRule == R({"s1"}, "NORMAL", "SLEEPING_WINDOW", MaxWindow)

WindowConfig == {C("b1", <<L("l1", WindowRule)>>)}

(* The window rule, and the same key with a rule of another window (none,  *)
(* as of a size that does not parse) and with one of each other policy.    *)
EveryPolicy ==
    WindowConfig \cup {C("b1", <<L("l1", [WindowRule EXCEPT !.window = 0])>>)}
        \cup {C("b1", <<L("l1", [WindowRule EXCEPT !.policy = policy])>>) :
                  policy \in {"FORCE_OPENED", "FORCE_CLOSED", "LIMITER_ONLY"}}

OneSeed == {<<"s1">>}

Symmetric == Permutations(StateId) \cup Permutations(Request)
=============================================================================
