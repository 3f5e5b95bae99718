--------------------------- MODULE RuleConversion ---------------------------
(***************************************************************************)
(* A CircuitBreaker as a user writes it, and as the controller sends it to *)
(* the proxies (pkg/apis/ctrlmesh/utils/conv).  No schema restricts the    *)
(* words of the written rules: one the conversion does not know leaves the *)
(* enumeration at its first value.  The values under which the limiter     *)
(* store indexes a rule come with it.  The hash of a configuration is the  *)
(* configuration itself; buckets are left out, like the limiters they fill.*)
(***************************************************************************)
EXTENDS Integers, Sequences, FiniteSets

CONSTANT Nil

(* The enumerations, and the word of each of their values.                 *)
TriggerPolicy ==
    [Normal |-> "NORMAL", LimiterOnly |-> "LIMITER_ONLY", ForceOpened |-> "FORCE_OPENED", ForceClosed |-> "FORCE_CLOSED"]
RecoverType == [Manual |-> "MANUAL", SleepingWindow |-> "SLEEPING_WINDOW"]
InterceptType == [Whitelist |-> "WHITELIST", Blacklist |-> "BLACKLIST"]
ContentType == [Normal |-> "NORMAL", Regexp |-> "REGEXP"]

Convert(enum, word, first) == IF word \in DOMAIN enum THEN enum[word] ELSE first

(* The index values of a limiting: every combination of a resource rule,   *)
(* and every rest rule.                                                    *)
indexFuncForResource(rules) == UNION {r.namespaces \X r.apiGroups \X r.resources \X r.verbs : r \in rules}
indexFuncForRest(rules) == {<<r.url, r.method>> : r \in rules}

ConvertResourceRule(r) ==
    [resources |-> r.resources, verbs |-> r.verbs, apiGroups |-> r.apiGroups, namespaces |-> r.namespaces]

(* A limiting without a recover policy is sent without one; a window that  *)
(* is not given, or is not a duration, is 0.                               *)
ConvertRecoverPolicy(p) ==
    IF p = Nil THEN [recover |-> "NIL", window |-> 0]
    ELSE [recover |-> Convert(RecoverType, p.type, "MANUAL"),
          window |-> IF p.sleepingWindowSize = Nil THEN 0 ELSE p.sleepingWindowSize]

ConvertLimiting(limit) ==
    LET recovery == ConvertRecoverPolicy(limit.recoverPolicy) IN
    [name |-> limit.name,
     rule |-> [seeds |-> indexFuncForResource({ConvertResourceRule(r) : r \in limit.resourceRules}) \cup indexFuncForRest(limit.restRules),
               policy |-> Convert(TriggerPolicy, limit.triggerPolicy, "NORMAL"),
               recover |-> recovery.recover, window |-> recovery.window]]

ConvertTrafficInterceptRule(rule) ==
    [name |-> rule.name,
     rule |-> [type |-> Convert(InterceptType, rule.interceptType, "WHITELIST"),
               content |-> Convert(ContentType, rule.contentType, "NORMAL"),
               contents |-> rule.contents, methods |-> rule.methods]]

(* What the limiter store and the intercept store take of a configuration. *)
RateLimitings(breaker) ==
    [name |-> breaker.name,
     limitings |-> [i \in DOMAIN breaker.rateLimitings |-> ConvertLimiting(breaker.rateLimitings[i])]]
TrafficInterceptRules(breaker) ==
    [name |-> breaker.name,
     intercepts |-> [i \in DOMAIN breaker.trafficInterceptRules |->
                        ConvertTrafficInterceptRule(breaker.trafficInterceptRules[i])]]
=============================================================================
