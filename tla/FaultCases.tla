----------------------------- MODULE FaultCases -----------------------------
(* The objects, requests and times FaultInjection is checked on.           *)
EXTENDS Naturals

CONSTANTS f1, f2, None

Anything == [groups |-> {}, resources |-> {"*"}, verbs |-> {}, namespaces |-> {}]
DeletePods == [groups |-> {"*"}, resources |-> {"pods"}, verbs |-> {"delete"}, namespaces |-> {}]
Exact(x) == [exact |-> x, regex |-> ""]
Regex(x) == [exact |-> "", regex |-> x]
PostA == [method |-> "POST", host |-> Exact("a"), path |-> None]
LikeA == [method |-> "", host |-> Regex("a.*"), path |-> Regex("(")]
LikeB == [method |-> "*", host |-> Regex("b.*"), path |-> Exact("/")]
Night == [start |-> 3, end |-> 1, daysOfWeek |-> {}, daysOfMonth |-> {}, months |-> {}]
Sunday == [start |-> 0, end |-> 2, daysOfWeek |-> {0}, daysOfMonth |-> {}, months |-> {12}]

Fails(n, code, p, m, t) == [name |-> n, delay |-> None, abort |-> [status |-> code, percent |-> p], match |-> m, time |-> t]
Slows(n, d, p, m, t) == [name |-> n, delay |-> [fixed |-> d, percent |-> p], abort |-> None, match |-> m, time |-> t]
FaultConfig(f, h, rules) == [name |-> f, hash |-> h, rules |-> rules]

MCFaultSpecs ==
    {FaultConfig(f1, "A", <<Fails("r1", 409, 100, [resources |-> {DeletePods}, http |-> {PostA, LikeB}], None)>>),
     FaultConfig(f1, "B", <<Fails("r1", 200, 0, [resources |-> {}, http |-> {LikeB}], Sunday),
                       Slows("r1", 2, 100, [resources |-> {Anything}, http |-> {LikeA}], Night)>>),
     FaultConfig(f2, "C", <<Slows("r1", 1, 50, [resources |-> {}, http |-> {LikeB}], None),
                       Fails("r2", 500, 50, [resources |-> {Anything}, http |-> {}], Night)>>),
     FaultConfig(f2, "D", <<Slows("r1", 1, None, [resources |-> {Anything}, http |-> {}], None),
                       Fails("r2", 404, 100, [resources |-> {DeletePods}, http |-> {PostA}], None)>>)}

MCFaultRequests ==
    {[kind |-> "resource", namespace |-> "n", group |-> "", resource |-> "pods", verb |-> "delete"],
     [kind |-> "url", host |-> "a", path |-> "/", method |-> "POST"],
     [kind |-> "url", host |-> "bc", path |-> "/", method |-> "GET"]}

MCNow == {[second |-> 1, weekday |-> 0, day |-> 5, month |-> 12], [second |-> 3, weekday |-> 2, day |-> 1, month |-> 1]}
MCMatching == {<<"b.*", "bc">>, <<"a.*", "a">>, <<"(", "/">>}
=============================================================================
