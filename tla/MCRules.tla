------------------------------ MODULE MCRules -------------------------------
(***************************************************************************)
(* The rules of the proxy: what its stores hold, and which rules a request *)
(* meets.  Four parts that share no state are checked beside each other;   *)
(* `part` says which of them runs:                                         *)
(*   intercept   the traffic intercept store    (TrafficIntercept)         *)
(*   limiter     the limiter store              (CircuitBreaker)           *)
(*   lookup      the order of the index values  (RuleLookup)               *)
(*   fault       the fault injection store      (FaultInjection)           *)
(***************************************************************************)
EXTENDS MCTrafficIntercept, FaultCases

CONSTANTS NoState, NoSeed, StateId

VARIABLES
    part,
    lBreakerMap, lRules, states, lIndices, heap, stateSet, stateQueue, loop, lSync, lReq, orphaned,
    kind, indices, target, seeds, found,
    faultInjectionMap, resourcesMatchRules, restMatchRules, regexMap, fSync, fReq, sent

limiterVars == <<lBreakerMap, lRules, states, lIndices, heap, stateSet, stateQueue, loop,
                 lSync, lReq, orphaned>>
lookupVars == <<kind, indices, target, seeds, found>>
faultVars == <<faultInjectionMap, resourcesMatchRules, restMatchRules, regexMap,
               fSync, fReq, sent>>
ruleVars == <<part, vars, limiterVars, lookupVars, faultVars>>

(* Two breakers, whose rules are edited, moved to another index value,     *)
(* given the same name twice, and overlap under one index value.  One rule *)
(* has no policy, and is a normal one.                                     *)
Pods(ns) == <<ns, "", "pods", "list">>
Call == <<"http://h/x", "GET">>
ListsPods(ns) == {[namespaces |-> ns, apiGroups |-> {""}, resources |-> {"pods"}, verbs |-> {"list"}]}
Calls == {[url |-> "http://h/x", method |-> "GET"]}
Manual == [type |-> "Manual", sleepingWindowSize |-> NoRule]
Lim(name, resources, rests, policy, recover) ==
    [name |-> name, resourceRules |-> resources, restRules |-> rests, triggerPolicy |-> policy, recoverPolicy |-> recover]
Limits(name, limitings) == V!RateLimitings([name |-> name, rateLimitings |-> limitings])
LimiterConfigs ==
    {Limits("b1", <<Lim("l1", ListsPods({"*", "ns"}), {}, "", NoRule), Lim("l1", ListsPods({"*"}), {}, "Normal", Manual)>>),
     Limits("b1", <<Lim("l2", ListsPods({"*"}), {}, "ForceOpened", NoRule), Lim("l1", ListsPods({"ns"}), {}, "LimiterOnly", NoRule)>>),
     Limits("b2", <<Lim("l1", ListsPods({"*"}), Calls, "ForceClosed", Manual)>>)}

L == INSTANCE CircuitBreaker WITH
        Limiting <- {"l1", "l2"}, Seed <- {Pods("*"), Pods("ns"), Call}, Config <- LimiterConfigs,
        Lookup <- {<<Pods("ns"), Pods("*")>>}, MaxWindow <- 1, Options <- {"UPDATE", "DELETE", "RECOVER"},
        breakerMap <- lBreakerMap, rules <- lRules, indices <- lIndices,
        sync <- lSync, req <- lReq

(* A namespaced and a cluster-scoped resource.                             *)
U == INSTANCE RuleLookup WITH
        Resource <- {<<"a", "a", "a", "a">>, <<"", "a", "b", "a">>}, Word <- {"a", "b"},
        Segment <- {"x", "y"}, MaxDepth <- 3, Any <- "*"

F == INSTANCE FaultInjection WITH
        Fault <- {f1, f2}, RuleName <- {"r1", "r2"}, Spec0 <- MCFaultSpecs,
        Request <- MCFaultRequests, Now <- MCNow, Compiles <- {"a.*", "b.*"},
        Matching <- MCMatching, MaxSync <- 4, sync <- fSync, req <- fReq

RuleInit ==
    /\ Init /\ L!Init /\ F!FaultInit
    /\ part \in {"intercept", "limiter", "lookup", "fault"}
    /\ part # "intercept" => req = [r \in Request |-> IdleReq("u1", "GET")]
    /\ \/ /\ part \in {"intercept", "limiter", "fault"}
          /\ kind = "none" /\ indices = {} /\ target = NoSeed /\ seeds = <<>> /\ found = NoSeed
       \/ /\ part = "lookup"
          /\ U!InitResource \/ U!InitRest

RuleNext ==
    \/ part = "intercept" /\ Next /\ UNCHANGED <<part, limiterVars, lookupVars, faultVars>>
    \/ part = "limiter" /\ L!Next /\ UNCHANGED <<part, vars, lookupVars, faultVars>>
    \/ part = "lookup" /\ U!LookUp /\ UNCHANGED <<part, vars, limiterVars, faultVars>>
    \/ part = "fault" /\ F!FaultNext /\ UNCHANGED <<part, vars, limiterVars, lookupVars>>

RuleSpec == RuleInit /\ [][RuleNext]_ruleVars

(* When no Sync call is under way each store holds exactly the rules of    *)
(* the configurations in force, and finds them under their index values.   *)
StoresMatchConfig ==
    /\ part = "intercept" => TypeOK /\ IndexesMatchConfig
    /\ part = "limiter" => L!TypeOK /\ L!StoreMatchesConfig
    /\ part = "fault" => F!FaultTypeOK /\ F!FaultRulesMatchConfig

(* The first index value tried is that of the rule meant for the request:  *)
(* the most specific one for a resource, the longest prefix for a URL.     *)
RightRuleDecides == part = "lookup" => U!PriorRuleDecides /\ U!LongestPrefixDecides

(* An injected fault is the one that some configuration in force during    *)
(* the request calls for.                                                  *)
FaultsAsConfigured == F!FaultsAsConfigured

Symmetric == Permutations(StateId)
=============================================================================
