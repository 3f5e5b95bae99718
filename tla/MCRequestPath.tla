--------------------------- MODULE MCRequestPath ----------------------------
EXTENDS RequestPath

MCLabel == {"ns", "hash"}
MCValue == {0, 1}

NoLabels == [k \in MCLabel |-> Nil]
Expr(key, values) == [key |-> key, in |-> TRUE, values |-> values]
Except(key, values) == [key |-> key, in |-> FALSE, values |-> values]
ByExpr(es) == [matchLabels |-> NoLabels, matchExpressions |-> es]
ByLabel(k, v) == [matchLabels |-> [NoLabels EXCEPT ![k] = v], matchExpressions |-> {}]
Limit(resources, selector) == [resources |-> resources, selector |-> selector]

(* The limits of a normal shard as AutoSharding writes them, and two       *)
(* limits of which one names every resource.                               *)
MCLimits ==
    { <<Limit({"pods"}, ByExpr({Except("ns", {1}), Expr("hash", {0})})), Limit({"secrets"}, Nil)>>,
      <<Limit({"*"}, ByExpr({Expr("ns", {0})})), Limit({"pods"}, ByExpr({Expr("hash", {1})}))>> }

(* Limits written with matchLabels.                                        *)
LabelLimits == { <<Limit({"pods"}, ByLabel("ns", 0))>> }

Api == [server |-> "api", url |-> "ok", resource |-> "pods", subresource |-> "", lock |-> "none", verb |-> "list",
        query |-> "ok", selector |-> Nil, upgrade |-> FALSE]

AllRequests ==
    { Api, [Api EXCEPT !.verb = "watch", !.selector = ByExpr({Expr("hash", {0, 1})})],
      [Api EXCEPT !.selector = ByLabel("ns", 1), !.resource = "secrets"], [Api EXCEPT !.selector = ByLabel("ns", 1)],
      [Api EXCEPT !.query = "bad"], [Api EXCEPT !.verb = "get"], [Api EXCEPT !.resource = Nil],
      [Api EXCEPT !.lock = "ours"], [Api EXCEPT !.lock = "bad"], [Api EXCEPT !.subresource = "exec", !.verb = "create"],
      [Api EXCEPT !.url = "unprefixed"], [Api EXCEPT !.url = "bad"],
      [Api EXCEPT !.server = "rest", !.url = "bad"], [Api EXCEPT !.server = "rest", !.upgrade = TRUE] }

Connections == 1 .. 2
MCArrivals == [r \in Connections |-> IF r = 1 THEN AllRequests ELSE {[Api EXCEPT !.verb = "watch"]}]

MCSwitches == {"EnvEnableFaultInjection", "EnvEnableRestFaultInjection", "EnvEnableRestCircuitBreaker"}
=============================================================================
