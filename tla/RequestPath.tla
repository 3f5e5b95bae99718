----------------------------- MODULE RequestPath ----------------------------
(***************************************************************************)
(* The way of a request through ctrlmesh-proxy.  Requests of the operator  *)
(* to the API server pass the handler chain of pkg/proxy/apiserver: panic  *)
(* recovery, request info, fault injection, circuit breaker, and then the  *)
(* handler that adapts leader election locks and injects the selector of   *)
(* the shard into lists and watches.  REST requests pass the transparent   *)
(* proxy of pkg/proxy/http.  What the fault injection and the breaker say  *)
(* is modelled in FaultInjection, TrafficIntercept and CircuitBreaker;     *)
(* here either verdict may come.                                           *)
(***************************************************************************)
EXTENDS ReverseProxy, Sequences, SequencesExt

CONSTANTS
    Label,        \* the keys of labels
    Value,        \* and their values
    Arrivals,     \* Arrivals[r]: the requests that may come on the connection r
    Limits,       \* the lists of limits a spec may have
    MaxRequests,  \* how many requests and restarts there are
    Switches      \* the environment variables that are "true"

VARIABLES
    process,      \* "starting" until main has started the two servers
    spec,         \* the limits of the current spec, Nil before one is loaded
    req,          \* req[r]: the request r and what became of it
    count         \* how many requests and restarts may still come

pathVars == <<transfer, pool, process, spec, req, count>>

-----------------------------------------------------------------------------
(* Label selectors: the value each key must have, Nil if any, and a set of *)
(* expressions.                                                            *)
Object == [Label -> Value \cup {Nil}]

Holds(e, o) == IF e.in THEN o[e.key] \in e.values ELSE o[e.key] \notin e.values

(* ValidatedLabelSelectorAsSelector, by what it selects.                   *)
Selects(sel, o) ==
    /\ sel # Nil
    /\ \A k \in Label : sel.matchLabels[k] # Nil => o[k] = sel.matchLabels[k]
    /\ \A e \in sel.matchExpressions : Holds(e, o)

MergeLabelSelector(a, b) ==
    IF b = Nil THEN a ELSE IF a = Nil THEN b
    ELSE [matchLabels |-> [k \in Label |-> IF b.matchLabels[k] # Nil THEN b.matchLabels[k] ELSE a.matchLabels[k]],
          matchExpressions |-> a.matchExpressions \cup b.matchExpressions]

(* The limits that have a selector and are about the resource.             *)
isGRMatchedAPIResources(gr, resources) == resources \cap {gr, "*"} # {}

Applies(limit, gr) == limit.selector # Nil /\ (limit.resources # {} => isGRMatchedAPIResources(gr, limit.resources))

getObjectSelector(limits, gr) ==
    FoldLeft(MergeLabelSelector, Nil,
             [i \in DOMAIN limits |-> IF Applies(limits[i], gr) THEN limits[i].selector ELSE Nil])

(* Every request is for one of the two servers and asks to switch          *)
(* protocols or not, and no selector is Nil.                               *)
ASSUME PathAssumption ==
    \A r \in Request : \A k \in Arrivals[r] :
        /\ k.server \in {"api", "rest"} /\ k.upgrade \in BOOLEAN
        /\ \A limits \in Limits :
              LET shard == getObjectSelector(limits, k.resource) IN
              shard # Nil /\ k.selector # Nil => MergeLabelSelector(shard, k.selector) # Nil

-----------------------------------------------------------------------------
NoRequest == [pc |-> "none", kind |-> Nil, selector |-> Nil, answers |-> {}, verdicts |-> {}]

PathInit ==
    /\ ReverseInit
    /\ process = "starting" /\ spec = Nil /\ req = [r \in Request |-> NoRequest] /\ count = MaxRequests

Ask(r, q) == req' = [req EXCEPT ![r] = q]
Answer(r, code) == Ask(r, [req[r] EXCEPT !.pc = "over", !.answers = @ \cup {code}])

(* main waits for the first spec of the manager before it starts the two   *)
(* servers: grpcClient.Start returns when one has come, whether it was     *)
(* loaded, refused for its hash (SpecProxy) or dropped for want of limits. *)
(* A request that comes before its server listens reaches nobody.          *)
Main ==
    /\ process = "starting" /\ process' = "started"
    /\ spec' \in {spec} \cup {limits \in Limits : spec \in {Nil, limits}}
    /\ UNCHANGED <<transfer, pool, req, count>>

(* The outermost filter answers a panic of the handlers with a 500.        *)
WithPanicRecovery(r) == Answer(r, "panic")

Arrive(r) ==
    /\ process = "started" /\ count > 0 /\ count' = count - 1
    /\ req[r].pc = "none" \/ (req[r].pc = "over" /\ Now(r).pc = "idle") \/ Ended(r)
    /\ \E k \in Arrivals[r] : Ask(r, [NoRequest EXCEPT !.pc = k.server, !.kind = k])
    /\ Become(r, NoTransfer)
    /\ UNCHANGED <<pool, process, spec>>

(* WithRequestInfo: a URL without the prefix is answered with an error,    *)
(* and the request still goes on.                                          *)
WithRequestInfo(r) ==
    LET q == req[r]
        trimmed == IF q.kind.url = "unprefixed" THEN {"trim failed"} ELSE {}
    IN  /\ q.pc = "api"
        /\ Ask(r, IF q.kind.url = "bad" THEN [q EXCEPT !.pc = "over", !.answers = {"500"}]
                  ELSE [q EXCEPT !.pc = "fault", !.answers = trimmed])
        /\ UNCHANGED <<transfer, pool, process, spec, count>>

(* handleHTTP up to the gates: the real endpoint comes in a header.        *)
RealEndpoint(r) ==
    /\ req[r].pc = "rest"
    /\ IF req[r].kind.url = "bad" THEN Answer(r, "500") ELSE Ask(r, [req[r] EXCEPT !.pc = "fault"])
    /\ UNCHANGED <<transfer, pool, process, spec, count>>

(* The gates in front of the handlers, in their order: NewProxy wraps the  *)
(* breaker in the fault injection, and handleHTTP asks the fault injection *)
(* and the interception if they are switched on, and the breaker always.   *)
(* Mutant: the breaker is outside the fault injection.                     *)
MutGates(server) == CASE server = "api" -> <<"breaker", "fault">> [] server = "rest" -> <<"breaker", "fault", "intercept">>

Gates(server) == CASE server = "api" -> <<"fault", "breaker">> [] server = "rest" -> <<"fault", "intercept", "breaker">>

SwitchedOn(server, gate) ==
    CASE server = "api" /\ gate = "fault" -> "EnvEnableFaultInjection" \in Switches
      [] server = "api" /\ gate = "breaker" -> "EnvDisableCircuitBreaker" \notin Switches
      [] server = "rest" /\ gate = "fault" -> "EnvEnableRestFaultInjection" \in Switches
      [] server = "rest" /\ gate = "intercept" -> "EnvEnableRestCircuitBreaker" \in Switches
      [] OTHER -> TRUE

Enabled(server) == {i \in DOMAIN Gates(server) : SwitchedOn(server, Gates(server)[i])}

AskGates(r) ==
    LET q == req[r]
        gate == Gates(q.kind.server)
        enabled == Enabled(q.kind.server)
    IN  /\ q.pc = "fault"
        /\ \/ Ask(r, [q EXCEPT !.pc = "handler", !.verdicts = {<<gate[i], "allow">> : i \in enabled}])
           \/ \E i \in enabled :
                Ask(r, [q EXCEPT !.pc = "over", !.answers = @ \cup {"refused"},
                                 !.verdicts = {<<gate[j], "allow">> : j \in {e \in enabled : e < i}} \cup {<<gate[i], "refuse">>}])
        /\ UNCHANGED <<transfer, pool, process, spec, count>>

(* GetObjectSelector follows a nil pointer if no spec is loaded.           *)
Limited(k) == k.resource # Nil /\ k.verb \in {"list", "watch"}
Panics(k) == Limited(k) /\ spec = Nil

(* injectSelector: the query must parse, then the two selectors are merged.*)
Injects(k) == Limited(k) /\ spec # Nil /\ getObjectSelector(spec, k.resource) # Nil
injectSelector(k) ==
    IF Injects(k) THEN MergeLabelSelector(getObjectSelector(spec, k.resource), k.selector) ELSE k.selector

Forward(r, selector) ==
    /\ Ask(r, [req[r] EXCEPT !.pc = "sent", !.selector = selector])
    /\ Become(r, BeginTransfer(req[r].kind.upgrade, req[r].kind.server = "api"))

(* handler.ServeHTTP.  exec and attach go to the upgrade-aware handler of  *)
(* the Kubernetes libraries, which is not modelled.  For a list or a watch *)
(* without a spec the injector follows a nil pointer, and the panic is     *)
(* answered; a first spec without limits starts the servers that way.      *)
Upgrades(k) == k.resource # Nil /\ k.subresource \in {"exec", "attach"}

ServeHTTP(r) ==
    LET k == req[r].kind IN
    /\ req[r].pc = "handler"
    /\ \/ /\ k.server = "api" /\ Upgrades(k)
          /\ Answer(r, "upgraded") /\ UNCHANGED transfer
       \/ /\ k.server = "rest" \/ (~Upgrades(k) /\ k.lock = "ours")
          /\ Forward(r, k.selector)
       \/ /\ k.server = "api" /\ ~Upgrades(k) /\ k.lock = "bad"
          /\ Answer(r, "400") /\ UNCHANGED transfer
       \/ /\ k.server = "api" /\ ~Upgrades(k) /\ k.lock = "none"
          /\ IF Panics(k) THEN WithPanicRecovery(r) /\ UNCHANGED transfer
             ELSE IF Injects(k) /\ k.query = "bad" THEN Answer(r, "500") /\ UNCHANGED transfer
             ELSE Forward(r, IF k.resource = Nil THEN k.selector ELSE injectSelector(k))
    /\ UNCHANGED <<pool, process, spec, count>>

(* A spec with another hash is not loaded while there is one (SpecProxy);  *)
(* specs with the same hash have the same limits.                          *)
(* Mutant: any spec is loaded.                                             *)
MutLoadable(limits) == limits # spec

checkLoadable(limits) == spec \in {Nil, limits}

LoadLimits ==
    /\ process = "started" /\ \E limits \in Limits : checkLoadable(limits) /\ spec' = limits
    /\ UNCHANGED <<transfer, pool, process, req, count>>

(* The process starts again, with or without the files of its spec.        *)
RestartProxy ==
    /\ count > 0 /\ count' = count - 1
    /\ process' = "starting" /\ spec' \in {Nil, spec} /\ pool' = {}
    /\ req' = [r \in Request |-> NoRequest] /\ transfer' = [r \in Request |-> NoTransfer]

Proxying(r) == req[r].pc = "sent" /\ UNCHANGED <<process, spec, req, count>>
Handling(r) == WithRequestInfo(r) \/ RealEndpoint(r) \/ AskGates(r) \/ ServeHTTP(r)

PathNext ==
    \/ Main \/ LoadLimits \/ RestartProxy
    \/ \E r \in Request : Arrive(r) \/ Handling(r) \/ (Proxying(r) /\ (Goroutines(r) \/ Peers(r)))

(* The goroutines of the proxy run; clients and backends may not.          *)
PathFairness ==
    \A r \in Request : WF_pathVars(Handling(r)) /\ WF_pathVars(Proxying(r) /\ Goroutines(r))

PathSpec == PathInit /\ [][PathNext]_pathVars /\ PathFairness

-----------------------------------------------------------------------------
(* No client asks for another value of a label that a limit fixes with     *)
(* matchLabels.  AutoSharding writes its limits with matchExpressions.     *)
ClientsKeepOut ==
    \A limits \in Limits, r \in Request : \A k \in Arrivals[r] :
        LET shard == getObjectSelector(limits, k.resource) IN
        shard # Nil /\ k.selector # Nil => \A x \in Label :
            shard.matchLabels[x] = Nil \/ k.selector.matchLabels[x] \in {Nil, shard.matchLabels[x]}

(* No list or watch of a resource runs without a spec, however early it    *)
(* comes after a start: it would show the objects of every shard.  And one *)
(* of a limited resource selects, for as long as it runs, exactly what     *)
(* both the current spec of the shard and the client select (README: shard *)
(* isolation is achieved through the selectors).                           *)
ShardIsolated ==
    \A r \in Request :
        LET k == req[r].kind
            shard == getObjectSelector(spec, k.resource)
        IN  req[r].pc = "sent" /\ k.server = "api" /\ k.lock = "none" /\ Limited(k) =>
                /\ spec # Nil
                /\ shard # Nil => \A o \in Object :
                      Selects(req[r].selector, o) <=> Selects(shard, o) /\ (k.selector # Nil => Selects(k.selector, o))

(* A request reaches the backend only if every gate that is switched on    *)
(* let it pass and no answer was written before, except the one for a URL  *)
(* without the prefix; a request a fault was injected into was not counted *)
(* by the breaker.                                                         *)
GatesRespected ==
    \A r \in Request :
        /\ req[r].pc = "sent" =>
              /\ req[r].answers \subseteq {"trim failed"}
              /\ \A i \in Enabled(req[r].kind.server) : <<Gates(req[r].kind.server)[i], "allow">> \in req[r].verdicts
        /\ <<"fault", "refuse">> \in req[r].verdicts => <<"breaker", "allow">> \notin req[r].verdicts
=============================================================================
