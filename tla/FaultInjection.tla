--------------------------- MODULE FaultInjection ---------------------------
(***************************************************************************)
(* Fault injection in the proxy (pkg/proxy/faultinjection): the rules of   *)
(* FaultInjection objects as the manager converts and sends them, the      *)
(* store Sync keeps them in, and the requests that look rules up in it.    *)
(*                                                                         *)
(* Sync runs under the manager's lock and takes the store's lock for one   *)
(* rule at a time.  A request takes neither: it ranges over a map of the   *)
(* store while Sync may be changing it.                                    *)
(***************************************************************************)
EXTENDS Integers, Sequences, SequencesExt, FiniteSets

CONSTANTS
    Fault,        \* names of FaultInjection objects
    RuleName,     \* names of their HTTP fault injections
    Spec0,        \* the specs users write: [name, hash, rules]
    Request,      \* requests: by resource or by URL
    Now,          \* times of day and dates
    Compiles,     \* the regular expressions that compile
    Matching,     \* pairs <<regex, content>> that match
    MaxSync,      \* bound on configurations sent
    None

VARIABLES
    faultInjectionMap,     \* configurations by name
    resourcesMatchRules,   \* rules by key, for resource requests
    restMatchRules,        \* rules by key, for URLs
    regexMap,              \* compiled expressions; never removed
    sync,                  \* the Sync under way and what it has still to do
    req,                   \* a request under way
    sent                   \* configurations sent so far

faultVars == <<faultInjectionMap, resourcesMatchRules, restMatchRules, regexMap, sync, req, sent>>

Key == Fault \X (RuleName \cup {""})

-----------------------------------------------------------------------------
(* ConvertHTTPFaultInjection: a percentage that does not parse makes the   *)
(* rule nil, and nil arrives as a rule with no fields.                     *)
NilRule == [name |-> "", delay |-> None, abort |-> None, match |-> None, time |-> None]

Parses(f) == f = None \/ f.percent # None

ConvertHTTPFaultInjection(r) == IF Parses(r.delay) /\ Parses(r.abort) THEN r ELSE NilRule

ConvertFaultInjection(s) ==
    [name |-> s.name, hash |-> s.hash,
     rules |-> [i \in DOMAIN s.rules |-> ConvertHTTPFaultInjection(s.rules[i])]]

-----------------------------------------------------------------------------
(* Matching.                                                               *)
matchInList(list, t) == list = {} \/ "*" \in list \/ t \in list

resourceMatch(matches, r) ==
    \E m \in matches :
        /\ matchInList(m.groups, r.group) /\ matchInList(m.resources, r.resource)
        /\ matchInList(m.verbs, r.verb) /\ matchInList(m.namespaces, r.namespace)

matchContent(mc, content) ==
    IF mc.exact # "" THEN mc.exact = content
    ELSE mc.regex \in regexMap /\ <<mc.regex, content>> \in Matching

matchRest(matches, r) ==
    \E m \in matches :
        /\ m.method \in {"*", "", r.method}
        /\ m.host = None \/ matchContent(m.host, r.host)
        /\ m.path = None \/ matchContent(m.path, r.path)

Hits(rule, r) ==
    IF r.kind = "resource" THEN resourceMatch(rule.match.resources, r)
    ELSE matchRest(rule.match.http, r)

(* Whether t is in force at n.  Start and end are seconds of one day, so a *)
(* range over midnight is never in force; an empty end means always.       *)
isEffectiveTimeRange(t, n) ==
    \/ t.start = None \/ t.end = None
    \/ /\ t.start <= n.second /\ n.second <= t.end
       /\ t.daysOfWeek = {} \/ n.weekday \in t.daysOfWeek
       /\ t.daysOfMonth = {} \/ n.day \in t.daysOfMonth
       /\ t.months = {} \/ n.month \in t.months

(* The values isInPercentRange may return: zero means always.              *)
isInPercentRange(v) ==
    IF v < 0 \/ v > 100 THEN {FALSE} ELSE IF v \in {0, 100} THEN {TRUE} ELSE BOOLEAN

(* A throw of the dice for each rule of a sequence.                        *)
Throws(f, n) == {x \in [1 .. n -> BOOLEAN] : \A i \in 1 .. n : f[i] = None \/ x[i] \in isInPercentRange(f[i].percent)}

(* getInjector on the rules found, in the order the map gave them: delays  *)
(* add up, and the first abort that applies is the only one.               *)
getInjector(rules, now, delayed, aborted) ==
    LET On(i) == rules[i].time = None \/ isEffectiveTimeRange(rules[i].time, now)
        delays == {i \in DOMAIN rules : On(i) /\ rules[i].delay # None /\ delayed[i]}
        aborts == {i \in DOMAIN rules : On(i) /\ rules[i].abort # None /\ aborted[i]}
    IN  [delay |-> SumFunction([i \in delays |-> rules[i].delay.fixed]),
         code |-> IF aborts = {} THEN 0
                  ELSE rules[CHOOSE i \in aborts : \A j \in aborts : i <= j].abort.status]

(* Do: whether the request ends here, after the delay.                     *)
Do(injector) == injector.code \notin {0, 200}

-----------------------------------------------------------------------------
(* Sync.                                                                   *)
NoSync == [pc |-> "idle", config |-> None, todo |-> <<>>]

Rules(f) == IF faultInjectionMap[f] = None THEN <<>> ELSE faultInjectionMap[f].rules

(* A request under way, when Sync has touched a configuration and removed  *)
(* the given keys.                                                         *)
Disturbed(gone) ==
    IF req.pc = "range"
    THEN [req EXCEPT !.touched = @ \cup {sync.config.name}, !.held = @ \ gone] ELSE req

SyncUpdate(s) ==
    LET config == ConvertFaultInjection(s)
        fi == faultInjectionMap[s.name]
    IN
    /\ sync.pc = "idle" /\ sent < MaxSync
    /\ sent' = sent + 1
    /\ sync' = IF fi # None /\ fi.hash = config.hash THEN NoSync
               ELSE [pc |-> "unregister", config |-> config, todo |-> Rules(s.name)]
    /\ UNCHANGED <<faultInjectionMap, resourcesMatchRules, restMatchRules, regexMap, req>>

SyncDelete(f) ==
    /\ sync.pc = "idle" /\ sent < MaxSync
    /\ sent' = sent + 1
    /\ sync' = IF faultInjectionMap[f] = None THEN NoSync
               ELSE [pc |-> "delete", config |-> [name |-> f], todo |-> Rules(f)]
    /\ UNCHANGED <<faultInjectionMap, resourcesMatchRules, restMatchRules, regexMap, req>>

(* unregisterRules and deleteRule, for the next rule.                      *)
unregisterRules ==
    LET key == <<sync.config.name, Head(sync.todo).name>> IN
    /\ sync.pc \in {"unregister", "delete"} /\ sync.todo # <<>>
    /\ resourcesMatchRules' = [resourcesMatchRules EXCEPT ![key] = None]
    /\ restMatchRules' = [restMatchRules EXCEPT ![key] = None]
    /\ sync' = [sync EXCEPT !.todo = Tail(@)]
    /\ req' = Disturbed({key})
    /\ UNCHANGED <<faultInjectionMap, regexMap, sent>>

Unregistered ==
    /\ sync.pc \in {"unregister", "delete"} /\ sync.todo = <<>>
    /\ IF sync.pc = "delete"
       THEN /\ faultInjectionMap' = [faultInjectionMap EXCEPT ![sync.config.name] = None]
            /\ sync' = NoSync
       ELSE /\ faultInjectionMap' = [faultInjectionMap EXCEPT ![sync.config.name] = sync.config]
            /\ sync' = [sync EXCEPT !.pc = "register", !.todo = sync.config.rules]
    /\ req' = Disturbed({})
    /\ UNCHANGED <<resourcesMatchRules, restMatchRules, regexMap, sent>>

(* createOrUpdateRule: where a rule is stored and the expressions it adds. *)
Expressions(rule) == UNION {{c.regex : c \in {m.host, m.path} \ {None}} : m \in rule.match.http}

(* Mutant: the host's expression is not compiled.                          *)
MutRegexes(rule) == {m.path.regex : m \in {x \in rule.match.http : x.path # None}} \cap Compiles

Regexes(rule) == Expressions(rule) \cap Compiles

createOrUpdateRule(key, rule) ==
    /\ resourcesMatchRules' = IF rule.match.resources = {} THEN resourcesMatchRules
                              ELSE [resourcesMatchRules EXCEPT ![key] = rule]
    /\ restMatchRules' = IF rule.match.http = {} THEN restMatchRules
                         ELSE [restMatchRules EXCEPT ![key] = rule]
    /\ regexMap' = regexMap \cup Regexes(rule)

(* registerRules, for the next rule.  A rule without a match is a nil      *)
(* dereference: the call panics, and the configuration stays in the map.   *)
registerRules ==
    LET rule == Head(sync.todo) IN
    /\ sync.pc = "register" /\ sync.todo # <<>>
    /\ IF rule.match = None
       THEN /\ sync' = NoSync
            /\ UNCHANGED <<resourcesMatchRules, restMatchRules, regexMap>>
       ELSE /\ createOrUpdateRule(<<sync.config.name, rule.name>>, rule)
            /\ sync' = [sync EXCEPT !.todo = Tail(@)]
    /\ req' = Disturbed({})
    /\ UNCHANGED <<faultInjectionMap, sent>>

Registered ==
    /\ sync.pc = "register" /\ sync.todo = <<>>
    /\ sync' = NoSync
    /\ UNCHANGED <<faultInjectionMap, resourcesMatchRules, restMatchRules, regexMap, req, sent>>

-----------------------------------------------------------------------------
(* A request ranges over the map for its kind and collects the rules that  *)
(* match.  An entry removed before it is reached is not produced, one that *)
(* is added may be.                                                        *)
NoReq == [pc |-> "idle", r |-> None, visited |-> {}, found |-> <<>>, held |-> {}, touched |-> {},
          result |-> None]

MapFor(r) == IF r.kind = "resource" THEN resourcesMatchRules ELSE restMatchRules
KeysIn(m) == {k \in Key : m[k] # None}

Start(r) ==
    /\ req.pc # "range"
    /\ req' = [NoReq EXCEPT !.pc = "range", !.r = r, !.held = KeysIn(MapFor(r)),
                            !.touched = IF sync.pc = "idle" THEN {} ELSE {sync.config.name}]
    /\ UNCHANGED <<faultInjectionMap, resourcesMatchRules, restMatchRules, regexMap, sync, sent>>

Visit(k) ==
    LET m == MapFor(req.r) IN
    /\ req.pc = "range" /\ m[k] # None /\ k \notin req.visited
    /\ req' = [req EXCEPT !.visited = @ \cup {k},
                          !.found = IF Hits(m[k], req.r) THEN Append(@, [key |-> k, rule |-> m[k]]) ELSE @]
    /\ UNCHANGED <<faultInjectionMap, resourcesMatchRules, restMatchRules, regexMap, sync, sent>>

Finish ==
    /\ req.pc = "range"
    /\ KeysIn(MapFor(req.r)) \cap req.held \subseteq req.visited
    /\ LET rules == [i \in DOMAIN req.found |-> req.found[i].rule] IN
       \E now \in Now,
          delayed \in Throws([i \in DOMAIN rules |-> rules[i].delay], Len(rules)),
          aborted \in Throws([i \in DOMAIN rules |-> rules[i].abort], Len(rules)) :
             req' = [req EXCEPT !.pc = "done", !.result = getInjector(rules, now, delayed, aborted)]
    /\ UNCHANGED <<faultInjectionMap, resourcesMatchRules, restMatchRules, regexMap, sync, sent>>

FaultInit ==
    /\ faultInjectionMap = [f \in Fault |-> None]
    /\ resourcesMatchRules = [k \in Key |-> None] /\ restMatchRules = [k \in Key |-> None]
    /\ regexMap = {} /\ sync = NoSync /\ req = NoReq /\ sent = 0

FaultNext ==
    \/ \E s \in Spec0 : SyncUpdate(s)
    \/ \E f \in Fault : SyncDelete(f)
    \/ unregisterRules \/ Unregistered \/ registerRules \/ Registered
    \/ \E r \in Request : Start(r)
    \/ \E k \in Key : Visit(k)
    \/ Finish

FaultSpec == FaultInit /\ [][FaultNext]_faultVars

-----------------------------------------------------------------------------
(* The type of the state.                                                  *)
FaultTypeOK ==
    LET rule == UNION {{ConvertFaultInjection(s).rules[i] : i \in DOMAIN s.rules} : s \in Spec0}
        config == {ConvertFaultInjection(s) : s \in Spec0}
    IN
    /\ faultInjectionMap \in [Fault -> config \cup {None}]
    /\ resourcesMatchRules \in [Key -> rule \cup {None}] /\ restMatchRules \in [Key -> rule \cup {None}]
    /\ regexMap \subseteq Compiles
    /\ sync.pc \in {"idle", "unregister", "delete", "register"} /\ Range(sync.todo) \subseteq rule
    /\ req.pc \in {"idle", "range", "done"} /\ req.visited \subseteq Key /\ req.touched \subseteq Fault
    /\ sent \in 0 .. MaxSync

(* The rule the configurations in force give a key: the last one of that   *)
(* name that matches requests of the kind.                                 *)
Given(k, kind) ==
    LET rules == Rules(k[1])
        of(m) == IF kind = "resource" THEN m.resources ELSE m.http
        named == {i \in DOMAIN rules : rules[i].name = k[2] /\ rules[i].match # None /\ of(rules[i].match) # {}}
    IN  IF named = {} THEN None ELSE rules[CHOOSE i \in named : \A j \in named : j <= i]

(* Between two calls of Sync the store holds the rules of the              *)
(* configurations in force, those of removed or replaced ones are gone,    *)
(* and so for any sequence of updates, deletions and failed calls.  Only a *)
(* configuration that made its call panic is not held to this.             *)
FaultRulesMatchConfig ==
    sync.pc = "idle" =>
        \A k \in Key : (\A i \in DOMAIN Rules(k[1]) : Rules(k[1])[i].match # None) =>
            /\ resourcesMatchRules[k] = Given(k, "resource")
            /\ restMatchRules[k] = Given(k, "url")

(* Matching as the objects specify it, whatever was compiled before.       *)
Meets(mc, content) == IF mc.exact # "" THEN mc.exact = content
                      ELSE mc.regex \in Compiles /\ <<mc.regex, content>> \in Matching

ShouldHit(rule, r) ==
    IF r.kind = "resource" THEN resourceMatch(rule.match.resources, r)
    ELSE \E m \in rule.match.http :
            /\ m.method \in {"*", "", r.method}
            /\ \A part \in {<<m.host, r.host>>, <<m.path, r.path>>} : part[1] = None \/ Meets(part[1], part[2])

(* However Sync and a request interleave, a configuration that Sync did    *)
(* not touch meanwhile applies to the request in full and exactly once:    *)
(* all its rules that should match were found, and no other.               *)
FaultsAsConfigured ==
    [][req.pc = "range" /\ req'.pc = "done" =>
        \A f \in Fault \ req.touched :
            LET got == {i \in DOMAIN req.found : req.found[i].key[1] = f}
                due == {k \in Key : k[1] = f /\ Given(k, req.r.kind) # None
                                    /\ ShouldHit(Given(k, req.r.kind), req.r)}
            IN  (\A i \in DOMAIN Rules(f) : Rules(f)[i].match # None) =>
                    /\ {req.found[i].key : i \in got} = due /\ Cardinality(got) = Cardinality(due)
                    /\ \A i \in got : req.found[i].rule = Given(req.found[i].key, req.r.kind)]_faultVars
=============================================================================
