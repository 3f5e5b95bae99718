--------------------------- MODULE ShardingWebhook --------------------------
(***************************************************************************)
(* The validating webhook of ShardingConfigs (pkg/webhook/shardingconfig), *)
(* which users' roots and the children AutoSharding creates both pass.  An *)
(* object has a selector ("ok", "empty" or "bad"), its limits as the list  *)
(* of the <<API group, resource>> pairs they name, and perhaps a root.     *)
(***************************************************************************)
EXTENDS Integers, Sequences

CONSTANT Nil

(* A pair may not follow itself or the wildcard of its resource.           *)
HasConflict(limits) ==
    \E j \in DOMAIN limits : \E i \in 1 .. j - 1 :
        limits[i][2] = limits[j][2] /\ limits[i][1] \in {"*", limits[j][1]}

validateRootConfig(root) ==
    /\ root.canary # Nil =>
          /\ root.canary.inShardHash # {} \/ root.canary.inNamespaces # {}
          /\ root.canary.replicas # Nil
    /\ root.auto # Nil => root.auto.everyShardReplicas # 0 /\ root.auto.shardingSize # 0

validate(obj) ==
    /\ obj.root # Nil => validateRootConfig(obj.root)
    /\ obj.selector # "bad" /\ (obj.selector = "empty" => obj.root # Nil)
    /\ \/ obj.limits = Nil /\ obj.root # Nil
       \/ /\ obj.limits # Nil /\ ~ HasConflict(obj.limits)
          /\ obj.controller # Nil => obj.controller.leaderElectionName # ""
          /\ obj.webhook # Nil => obj.webhook.certDir # "" /\ obj.webhook.port > 0

validateUpdate(obj, oldObj) == obj.selector = oldObj.selector

(* Handle; old is Nil for a creation.  validateConfigResource lets every   *)
(* object pass, as nothing sets enableForceValidate.                       *)
Admits(obj, old) ==
    obj.ignoreValidate \/ (validate(obj) /\ (old # Nil => validateUpdate(obj, old)))
=============================================================================
