-------------------------- MODULE TrafficIntercept --------------------------
(***************************************************************************)
(* The traffic intercept store of ctrlmesh-proxy (pkg/proxy/circuitbreaker *)
(* store.go and ValidateTrafficIntercept): white and black lists of URLs,  *)
(* found through an index of exact URLs or by regular expression.          *)
(*                                                                         *)
(* Sync changes the store rule by rule under store.mu.  A request reads    *)
(* its three maps one after the other and takes no lock, so it may run     *)
(* between any two changes and in the middle of one.  The Go runtime ends  *)
(* the process when it notices the latter; kubelet starts it again, with   *)
(* an empty store.                                                         *)
(*                                                                         *)
(* What is abstracted: contents are model values, and which URLs a regular *)
(* expression matches is the constant Matched.                             *)
(***************************************************************************)
EXTENDS Integers, Sequences, FiniteSets

CONSTANTS
    Breaker,    \* names of CircuitBreaker objects
    Name,       \* names of traffic intercept rules
    Content,    \* contents of rules: URLs and regular expressions
    URL,        \* the URLs requests ask for
    Method,     \* their HTTP methods
    AnyMethod,  \* "*"
    Matched,    \* the URLs that a content matches as a regular expression
    Invalid,    \* the contents that do not compile as one
    Config,     \* the configurations the manager may send
    Request,    \* request goroutines
    Options,    \* the Sync options used: a subset of {"UPDATE", "DELETE"}
    NoRule, NoConfig, NoKey   \* Go's nil

Rule == [type : {"WHITELIST", "BLACKLIST"}, content : {"NORMAL", "REGEXP"},
         contents : SUBSET Content, methods : SUBSET (Method \cup {AnyMethod})]
Key == Breaker \X Name
Slot == Content \X (Method \cup {AnyMethod})
Pattern == [reg : Content, type : {"WHITELIST", "BLACKLIST"}, method : Method \cup {AnyMethod}]

ASSUME ContentAssumption ==
    URL \subseteq Content /\ Invalid \subseteq Content /\ Matched \in [Content -> SUBSET URL]
ASSUME RulesAssumption ==
    Config \subseteq [name : Breaker, intercepts : Seq([name : Name, rule : Rule])]
ASSUME NoValueAssumption == NoRule \notin Rule /\ NoConfig \notin Config /\ NoKey \notin Key

VARIABLES
    breakerMap,     \* manager.breakerMap
    rules,          \* trafficInterceptStore.rules
    normalIndexes,  \* trafficInterceptStore.normalIndexes
    regexpIndexes,  \* trafficInterceptStore.regexpIndexes
    sync,           \* what the Sync call under manager.mu has still to do
    req             \* the request goroutines

store == <<breakerMap, rules, normalIndexes, regexpIndexes>>
vars == <<breakerMap, rules, normalIndexes, regexpIndexes, sync, req>>

-----------------------------------------------------------------------------
(* Sync                                                                    *)

(* writing: the store is locked and a map of it is being changed.          *)
IdleSync == [del |-> <<>>, add |-> <<>>, writing |-> FALSE]

Keys(c) == [i \in 1..Len(c.intercepts) |-> <<c.name, c.intercepts[i].name>>]

KeyedRules(c) ==
    [i \in 1..Len(c.intercepts) |-> [key |-> <<c.name, c.intercepts[i].name>>, rule |-> c.intercepts[i].rule]]

(* A request that a Sync call overlaps is told so (history).               *)
Disturbed == [r \in Request |-> [req[r] EXCEPT !.quiet = FALSE]]

SyncUpdate(c) ==
    /\ "UPDATE" \in Options
    /\ sync = IdleSync
    /\ breakerMap[c.name] # c
    /\ breakerMap' = [breakerMap EXCEPT ![c.name] = c]
    /\ sync' = [IdleSync EXCEPT
                  !.del = IF breakerMap[c.name] = NoConfig THEN <<>> ELSE Keys(breakerMap[c.name]),
                  !.add = KeyedRules(c)]
    /\ req' = Disturbed
    /\ UNCHANGED <<rules, normalIndexes, regexpIndexes>>

SyncDelete(b) ==
    /\ "DELETE" \in Options
    /\ sync = IdleSync
    /\ breakerMap[b] # NoConfig
    /\ breakerMap' = [breakerMap EXCEPT ![b] = NoConfig]
    /\ sync' = [IdleSync EXCEPT !.del = Keys(breakerMap[b])]
    /\ req' = Disturbed
    /\ UNCHANGED <<rules, normalIndexes, regexpIndexes>>

Slots(rule) == IF rule.content = "NORMAL" THEN rule.contents \X rule.methods ELSE {}

Patterns(rule) ==
    IF rule.content = "REGEXP"
    THEN [reg : rule.contents \ Invalid, type : {rule.type}, method : rule.methods]
    ELSE {}

(* deleteFromIndex looks only where a rule of its content type would be.   *)
WithoutSlots(rule, k) ==
    [s \in Slot |-> IF s \in Slots(rule) THEN normalIndexes[s] \ {k} ELSE normalIndexes[s]]

WithoutPatterns(rule, k) ==
    IF rule.content = "REGEXP" THEN [regexpIndexes EXCEPT ![k] = {}] ELSE regexpIndexes

(* store.mu is taken and the maps of the store begin to change.            *)
BeginWrite ==
    /\ sync.del # <<>> \/ sync.add # <<>>
    /\ ~sync.writing
    /\ sync' = [sync EXCEPT !.writing = TRUE]
    /\ UNCHANGED <<store, req>>

(* deleteRule takes the rule out of the indexes and leaves it in rules.    *)
DeleteRule ==
    /\ sync.writing
    /\ sync.del # <<>>
    /\ LET k == Head(sync.del)
           old == rules[k]
       IN  /\ normalIndexes' = IF old = NoRule THEN normalIndexes ELSE WithoutSlots(old, k)
           /\ regexpIndexes' = IF old = NoRule THEN regexpIndexes ELSE WithoutPatterns(old, k)
    /\ sync' = [sync EXCEPT !.del = Tail(@), !.writing = FALSE]
    /\ UNCHANGED <<breakerMap, rules, req>>

CreateOrUpdateRule ==
    /\ sync.writing
    /\ sync.del = <<>> /\ sync.add # <<>>
    /\ LET k == Head(sync.add).key
           rule == Head(sync.add).rule
           slots == IF rules[k] = NoRule THEN normalIndexes ELSE WithoutSlots(rules[k], k)
           patterns == IF rules[k] = NoRule THEN regexpIndexes ELSE WithoutPatterns(rules[k], k)
       IN  /\ rules' = [rules EXCEPT ![k] = rule]
           /\ normalIndexes' = [s \in Slot |-> IF s \in Slots(rule) THEN slots[s] \cup {k} ELSE slots[s]]
           /\ regexpIndexes' = [patterns EXCEPT ![k] = @ \cup Patterns(rule)]
    /\ sync' = [sync EXCEPT !.add = Tail(@), !.writing = FALSE]
    /\ UNCHANGED <<breakerMap, req>>

-----------------------------------------------------------------------------
(* ValidateTrafficIntercept                                                *)

IdleReq(u, m) == [pc |-> "idle", url |-> u, method |-> m, key |-> NoKey, allowed |-> TRUE, quiet |-> FALSE]

Start(r, u, m) ==
    /\ req[r].pc \in {"idle", "done"}
    /\ req' = [req EXCEPT ![r] = [IdleReq(u, m) EXCEPT !.pc = "index", !.quiet = sync = IdleSync]]
    /\ UNCHANGED <<store, sync>>

(* The keys under the URL and method, else under the URL and "*".  Every   *)
(* rule is of one of two types, so the first key the iteration yields      *)
(* decides.                                                                *)
Indexed(u, m) ==
    IF normalIndexes[<<u, m>>] # {} THEN normalIndexes[<<u, m>>] ELSE normalIndexes[<<u, AnyMethod>>]

ReadIndex(r) ==
    /\ req[r].pc = "index"
    /\ LET found == Indexed(req[r].url, req[r].method)
       IN  \/ \E k \in found : req' = [req EXCEPT ![r].pc = "rule", ![r].key = k]
           \/ found = {} /\ req' = [req EXCEPT ![r].pc = "regexp"]
    /\ UNCHANGED <<store, sync>>

Answer(r, allowed) == req' = [req EXCEPT ![r].pc = "done", ![r].key = NoKey, ![r].allowed = allowed]

ReadRule(r) ==
    /\ req[r].pc = "rule"
    /\ LET rule == rules[req[r].key]
       IN  IF rule = NoRule THEN req' = [req EXCEPT ![r].pc = "regexp", ![r].key = NoKey]
           ELSE Answer(r, rule.type = "WHITELIST")
    /\ UNCHANGED <<store, sync>>

(* Any pattern of any rule that matches decides; "*" matches no method.    *)
Matches(p, u, m) == p.method = m /\ u \in Matched[p.reg]

ReadRegexps(r) ==
    /\ req[r].pc = "regexp"
    /\ LET found == {p \in UNION {regexpIndexes[k] : k \in Key} : Matches(p, req[r].url, req[r].method)}
       IN  \/ \E p \in found : Answer(r, p.type = "WHITELIST")
           \/ found = {} /\ req' = [req EXCEPT ![r].pc = "default"]
    /\ UNCHANGED <<store, sync>>

(* Mutant: black lists count.                                              *)
DefaultOfAnyRule(r) ==
    /\ req[r].pc = "default"
    /\ Answer(r, ~\E k \in Key : rules[k] # NoRule)
    /\ UNCHANGED <<store, sync>>

(* If some rule is a white list, what no rule mentions is denied.          *)
Default(r) ==
    /\ req[r].pc = "default"
    /\ Answer(r, ~\E k \in Key : rules[k] # NoRule /\ rules[k].type = "WHITELIST")
    /\ UNCHANGED <<store, sync>>

Reading(r) == req[r].pc \in {"index", "rule", "regexp", "default"}

(* "fatal error: concurrent map read and map write": the whole process     *)
(* ends and is started again.                                              *)
FatalError(r) ==
    /\ Reading(r)
    /\ sync.writing
    /\ breakerMap' = [b \in Breaker |-> NoConfig]
    /\ rules' = [k \in Key |-> NoRule]
    /\ normalIndexes' = [s \in Slot |-> {}]
    /\ regexpIndexes' = [k \in Key |-> {}]
    /\ sync' = IdleSync
    /\ req' = [p \in Request |-> IdleReq(req[p].url, req[p].method)]

-----------------------------------------------------------------------------
Init ==
    /\ breakerMap = [b \in Breaker |-> NoConfig]
    /\ rules = [k \in Key |-> NoRule]
    /\ normalIndexes = [s \in Slot |-> {}]
    /\ regexpIndexes = [k \in Key |-> {}]
    /\ sync = IdleSync
    /\ req \in [Request -> {IdleReq(u, m) : u \in URL, m \in Method}]

Next ==
    \/ \E c \in Config : SyncUpdate(c)
    \/ \E b \in Breaker : SyncDelete(b)
    \/ BeginWrite \/ DeleteRule \/ CreateOrUpdateRule
    \/ \E r \in Request :
          \/ \E u \in URL, m \in Method : Start(r, u, m)
          \/ ReadIndex(r) \/ ReadRule(r) \/ ReadRegexps(r) \/ Default(r) \/ FatalError(r)

Spec == Init /\ [][Next]_vars

-----------------------------------------------------------------------------
(* properties                                                              *)

(* Every variable has the type of the Go value it stands for, and a        *)
(* request that looks a rule up has a key that came out of the index.      *)
StoreType ==
    /\ breakerMap \in [Breaker -> Config \cup {NoConfig}]
    /\ rules \in [Key -> Rule \cup {NoRule}]
    /\ normalIndexes \in [Slot -> SUBSET Key]
    /\ regexpIndexes \in [Key -> SUBSET Pattern]
SyncType == sync \in [del : Seq(Key), add : Seq([key : Key, rule : Rule]), writing : BOOLEAN]
ReqRecord ==
    [pc : {"idle", "index", "rule", "regexp", "default", "done"}, url : URL, method : Method,
     key : Key \cup {NoKey}, allowed : BOOLEAN, quiet : BOOLEAN]
ReqType == req \in [Request -> ReqRecord] /\ \A r \in Request : req[r].pc = "rule" <=> req[r].key # NoKey
TypeOK == StoreType /\ SyncType /\ ReqType

(* The rules in force, by the configurations in breakerMap: of several     *)
(* rules of one name the last one counts.                                  *)
GivenRule(c, n) ==
    LET at == {i \in 1..Len(c.intercepts) : c.intercepts[i].name = n}
    IN  IF at = {} THEN NoRule ELSE c.intercepts[CHOOSE i \in at : \A j \in at : j <= i].rule
RuleOf(b, n) == IF breakerMap[b] = NoConfig THEN NoRule ELSE GivenRule(breakerMap[b], n)

Configured == {RuleOf(b, n) : b \in Breaker, n \in Name} \ {NoRule}

(* Between Sync calls the two indexes hold what the configured rules put   *)
(* there and nothing of rules replaced or deleted, although deleteRule     *)
(* leaves the old rules behind and later updates start from them.          *)
IndexesMatchConfig ==
    sync = IdleSync =>
        \A b \in Breaker, n \in Name : LET k == <<b, n>>
                                           rule == RuleOf(b, n) IN
            /\ {s \in Slot : k \in normalIndexes[s]} = IF rule = NoRule THEN {} ELSE Slots(rule)
            /\ regexpIndexes[k] = IF rule = NoRule THEN {} ELSE Patterns(rule)

(* The verdicts a set of rules admits for a request, with no store and no  *)
(* index: a rule for exactly this URL and method, else one for the URL and *)
(* "*", else a pattern, else the default.                                  *)
ByURL(cfg, u, m) == {rule \in cfg : <<u, m>> \in Slots(rule)}
ByPattern(cfg, u, m) == {rule \in cfg : \E p \in Patterns(rule) : Matches(p, u, m)}
Mentioned(cfg, u, m) == ByURL(cfg, u, m) \cup ByURL(cfg, u, AnyMethod) \cup ByPattern(cfg, u, m) # {}

Verdicts(cfg, u, m) ==
    LET exact == ByURL(cfg, u, m)
        anyMethod == ByURL(cfg, u, AnyMethod)
        pattern == ByPattern(cfg, u, m)
        first == CHOOSE s \in {exact, anyMethod, pattern} :
                    \/ s = exact /\ exact # {}
                    \/ s = anyMethod /\ exact = {} /\ anyMethod # {}
                    \/ s = pattern /\ exact = {} /\ anyMethod = {}
    IN  IF first # {} THEN {rule.type = "WHITELIST" : rule \in first}
        ELSE {~\E rule \in cfg : rule.type = "WHITELIST"}

(* deleteRule takes rules out of the indexes only: a white list that is no *)
(* longer configured may still be in the rules map.                        *)
WhitelistLeft ==
    \E b \in Breaker, n \in Name :
        LET rule == rules[<<b, n>>] IN rule # NoRule /\ rule.type = "WHITELIST" /\ rule # RuleOf(b, n)

Admitted(allowed, u, m) ==
    \/ allowed \in Verdicts(Configured, u, m)
    \/ ~allowed /\ WhitelistLeft /\ ~Mentioned(Configured, u, m)

(* A request that no Sync call overlaps gets a verdict the configured      *)
(* rules admit.  What deleteRule leaves behind can do one thing only: deny *)
(* a request that no configured rule mentions.                             *)
VerdictByConfig ==
    \A r \in Request : req[r].pc = "done" /\ req[r].quiet => Admitted(req[r].allowed, req[r].url, req[r].method)
=============================================================================
