------------------------ MODULE MCBreakerController ------------------------
(* Instances of BreakerController for TLC.                                 *)
EXTENDS BreakerController

CONSTANTS b1, p1, l1, l2, h1, h2

MCBreaker == {b1}
MCPod == {p1}
MCLabel == {l1, l2}
MCHash == {h1, h2}

(* Two hashes under one selector, and a selector change that keeps the hash. *)
MCSpecs == {[hash |-> h1, label |-> l1], [hash |-> h2, label |-> l1], [hash |-> h1, label |-> l2]}

EnvAll == EnvKind
=============================================================================
