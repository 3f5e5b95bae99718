----------------------------- MODULE MCRollout ------------------------------
(* Instances of Rollout for TLC: two configs, with two Pods and one (the   *)
(* name of p1 is a prefix of the name of p10), or with one Pod each.       *)
EXTENDS Rollout, TLC

CONSTANTS p1, p10, q1, A, B

MCOrder == <<A, B>>
MCConfigOf == (p1 :> A) @@ (p10 :> A) @@ (q1 :> B)
MCSmallConfigOf == (p1 :> A) @@ (q1 :> B)
MCRollTypes == {{A, B}, {B}}
MCPrefix == {<<p1, p10>>}
=============================================================================
