----------------------- MODULE TrafficInterceptProofs -----------------------
(***************************************************************************)
(* Proofs about TrafficIntercept, for all configurations, rules, requests  *)
(* and regular expressions.                                                *)
(*                                                                         *)
(* IndexesMatchConfig: between Sync calls the two indexes hold what the    *)
(* configured rules put there and nothing else.  deleteRule takes a rule   *)
(* out of the indexes and leaves it in rules, where a later update finds   *)
(* it; so IndexInv says that of every key the indexes hold nothing, or     *)
(* exactly what the rule in rules puts there, and SyncInv what a Sync call *)
(* is through with and what it has still to do.                            *)
(*                                                                         *)
(* VerdictByConfig: a request reads the maps one after the other.  ReqInv  *)
(* says what one that no Sync call overlaps has found out at each step.    *)
(***************************************************************************)
EXTENDS TrafficIntercept, TLAPS

-----------------------------------------------------------------------------
(* Types.                                                                  *)

(* A configuration's rules, by position.                                   *)
LEMMA InterceptsType ==
    ASSUME NEW c \in Config
    PROVE  /\ c.name \in Breaker /\ Len(c.intercepts) \in Nat
           /\ \A i \in 1..Len(c.intercepts) : c.intercepts[i].name \in Name /\ c.intercepts[i].rule \in Rule
<1> DEFINE S == [name : Name, rule : Rule]
<1>1. c.name \in Breaker /\ c.intercepts \in Seq(S)
  BY Zenon, RulesAssumption
<1> HIDE DEF S
<1>2. Len(c.intercepts) \in Nat /\ \A i \in 1..Len(c.intercepts) : c.intercepts[i] \in S
  BY <1>1
<1> QED
  BY Zenon, <1>1, <1>2 DEF S

LEMMA ConfigKeys ==
    ASSUME NEW c \in Config
    PROVE  Keys(c) \in Seq(Key) /\ KeyedRules(c) \in Seq([key : Key, rule : Rule])
<1>1. \A i \in 1..Len(c.intercepts) : <<c.name, c.intercepts[i].name>> \in Key /\ c.intercepts[i].rule \in Rule
  <2> SUFFICES ASSUME NEW i \in 1..Len(c.intercepts)
               PROVE  <<c.name, c.intercepts[i].name>> \in Key /\ c.intercepts[i].rule \in Rule
    BY Zenon
  <2>1. c.name \in Breaker /\ c.intercepts[i].name \in Name /\ c.intercepts[i].rule \in Rule
    BY Zenon, InterceptsType
  <2> QED
    BY Zenon, <2>1 DEF Key
<1>2. Len(c.intercepts) \in Nat
  BY Zenon, InterceptsType
<1> QED
  BY <1>1, <1>2 DEF Keys, KeyedRules

(* What a rule puts into the indexes.                                      *)
LEMMA RuleParts ==
    ASSUME NEW rule \in Rule
    PROVE  /\ Slots(rule) \subseteq Slot /\ Patterns(rule) \subseteq Pattern
           /\ rule.content = "NORMAL" \/ Slots(rule) = {}
           /\ rule.content = "REGEXP" \/ Patterns(rule) = {}
           /\ \A p \in Patterns(rule) : p.type = rule.type
<1>1. /\ rule.type \in {"WHITELIST", "BLACKLIST"}
      /\ rule.contents \in SUBSET Content /\ rule.methods \in SUBSET (Method \cup {AnyMethod})
  BY Zenon DEF Rule
<1>2. Slots(rule) \subseteq Slot
  BY <1>1 DEF Slots, Slot
<1>3. Patterns(rule) \subseteq Pattern /\ \A p \in Patterns(rule) : p.type = rule.type
  BY <1>1 DEF Patterns, Pattern
<1>4. /\ rule.content = "NORMAL" \/ Slots(rule) = {}
      /\ rule.content = "REGEXP" \/ Patterns(rule) = {}
  BY Zenon DEF Slots, Patterns
<1> QED
  BY Zenon, <1>2, <1>3, <1>4

-----------------------------------------------------------------------------
(* The indexes.                                                            *)

(* Where the exact index has the key k.                                    *)
At(k) == {s \in Slot : k \in normalIndexes[s]}

(* The indexes hold nothing of k, or what its rule puts there.             *)
Has(k, rule) ==
    IF rule = NoRule THEN At(k) = {} /\ regexpIndexes[k] = {}
    ELSE rules[k] = rule /\ At(k) = Slots(rule) /\ regexpIndexes[k] = Patterns(rule)

IndexInv == \A k \in Key : Has(k, NoRule) \/ Has(k, rules[k])

(* The indexes without k, as deleteFromIndex leaves them.                  *)
DelSlots(k) == IF rules[k] = NoRule THEN normalIndexes ELSE WithoutSlots(rules[k], k)
DelPatterns(k) == IF rules[k] = NoRule THEN regexpIndexes ELSE WithoutPatterns(rules[k], k)

LEMMA Removed ==
    ASSUME StoreType, IndexInv, NEW k \in Key
    PROVE  /\ DelSlots(k) \in [Slot -> SUBSET Key]
           /\ \A s \in Slot : k \notin DelSlots(k)[s]
           /\ \A s \in Slot : \A j \in Key : j # k => (j \in DelSlots(k)[s] <=> j \in normalIndexes[s])
           /\ DelPatterns(k) \in [Key -> SUBSET Pattern]
           /\ DelPatterns(k)[k] = {}
           /\ \A j \in Key : j # k => DelPatterns(k)[j] = regexpIndexes[j]
<1>1. /\ normalIndexes \in [Slot -> SUBSET Key]
      /\ regexpIndexes \in [Key -> SUBSET Pattern]
      /\ rules[k] \in Rule \cup {NoRule}
  BY Zenon DEF StoreType
<1>2. CASE rules[k] = NoRule
  <2>1. At(k) = {} /\ regexpIndexes[k] = {}
    BY Zenon, <1>2 DEF IndexInv, Has
  <2>2. \A s \in Slot : k \notin normalIndexes[s]
    BY Zenon, <2>1 DEF At
  <2> QED
    BY Zenon, <1>1, <1>2, <2>1, <2>2 DEF DelSlots, DelPatterns
<1>3. CASE rules[k] # NoRule
  <2>1. rules[k] \in Rule
    BY Zenon, <1>1, <1>3
  <2>2. PICK rule \in Rule : rule = rules[k]
    BY Zenon, <2>1
  <2>3. \A s \in At(k) : s \in Slots(rule)
    BY Zenon, <1>3, <2>2 DEF IndexInv, Has
  <2>4. rule.content = "REGEXP" \/ regexpIndexes[k] = {}
    BY Zenon, <1>3, <2>2, RuleParts DEF IndexInv, Has
  <2>5. DelSlots(k) = [s \in Slot |-> IF s \in Slots(rule) THEN normalIndexes[s] \ {k} ELSE normalIndexes[s]]
    BY Zenon, <1>3, <2>2 DEF DelSlots, WithoutSlots
  <2>6. DelPatterns(k) = IF rule.content = "REGEXP" THEN [regexpIndexes EXCEPT ![k] = {}] ELSE regexpIndexes
    BY Zenon, <1>3, <2>2 DEF DelPatterns, WithoutPatterns
  <2>7. DelSlots(k) \in [Slot -> SUBSET Key]
    BY <1>1, <2>5
  <2>8. \A s \in Slot : k \notin DelSlots(k)[s]
    BY <1>1, <2>3, <2>5 DEF At
  <2>9. \A s \in Slot : \A j \in Key : j # k => (j \in DelSlots(k)[s] <=> j \in normalIndexes[s])
    BY <1>1, <2>5
  <2>10. DelPatterns(k) \in [Key -> SUBSET Pattern]
    BY <1>1, <2>6
  <2>11. DelPatterns(k)[k] = {} /\ \A j \in Key : j # k => DelPatterns(k)[j] = regexpIndexes[j]
    BY <1>1, <2>4, <2>6
  <2> QED
    BY Zenon, <2>7, <2>8, <2>9, <2>10, <2>11
<1> QED
  BY Zenon, <1>2, <1>3

(* What the indexes hold of one key depends on its entries only.           *)
LEMMA HasKept ==
    ASSUME NEW k \in Key, rules'[k] = rules[k], regexpIndexes'[k] = regexpIndexes[k],
           \A s \in Slot : k \in normalIndexes'[s] <=> k \in normalIndexes[s]
    PROVE  \A rule : Has(k, rule)' <=> Has(k, rule)
<1>1. At(k)' = At(k)
  BY Zenon DEF At
<1> QED
  BY Zenon, <1>1 DEF Has

(* deleteRule leaves nothing of its key and everything of the others.      *)
LEMMA DeleteEffect ==
    ASSUME StoreType, SyncType, IndexInv, DeleteRule
    PROVE  /\ StoreType'
           /\ \E k \in Key :
                 /\ k = Head(sync.del) /\ Has(k, NoRule)'
                 /\ \A j \in Key : j # k => \A rule : Has(j, rule)' <=> Has(j, rule)
<1>1. sync.del \in Seq(Key) /\ sync.del # <<>>
  BY Zenon DEF DeleteRule, SyncType
<1>2. Head(sync.del) \in Key
  BY <1>1
<1>3. PICK k \in Key : k = Head(sync.del)
  BY Zenon, <1>2
<1>4. normalIndexes' = DelSlots(k) /\ regexpIndexes' = DelPatterns(k) /\ breakerMap' = breakerMap /\ rules' = rules
  BY Zenon, <1>3 DEF DeleteRule, DelSlots, DelPatterns
<1>5. StoreType'
  BY Zenon, <1>4, Removed DEF StoreType
<1>6. Has(k, NoRule)'
  <2>1. At(k)' = {} /\ regexpIndexes'[k] = {}
    BY Zenon, <1>4, Removed DEF At
  <2> QED
    BY Zenon, <2>1 DEF Has
<1>7. ASSUME NEW j \in Key, j # k PROVE \A rule : Has(j, rule)' <=> Has(j, rule)
  <2>1. /\ rules'[j] = rules[j] /\ regexpIndexes'[j] = regexpIndexes[j]
        /\ \A s \in Slot : j \in normalIndexes'[s] <=> j \in normalIndexes[s]
    BY Zenon, <1>4, <1>7, Removed
  <2> QED
    BY Zenon, <2>1, HasKept
<1> QED
  BY Zenon, <1>3, <1>5, <1>6, <1>7

(* createOrUpdateRule leaves of its key what the new rule puts there.      *)
LEMMA CreateEffect ==
    ASSUME StoreType, SyncType, IndexInv, CreateOrUpdateRule
    PROVE  /\ StoreType'
           /\ \E k \in Key, rule \in Rule :
                 /\ k = Head(sync.add).key /\ rule = Head(sync.add).rule
                 /\ rules' = [rules EXCEPT ![k] = rule] /\ Has(k, rule)'
                 /\ \A j \in Key : j # k => \A r : Has(j, r)' <=> Has(j, r)
<1> DEFINE S == [key : Key, rule : Rule]
<1>1. sync.add \in Seq(S) /\ sync.add # <<>>
  BY Zenon DEF CreateOrUpdateRule, SyncType
<1> HIDE DEF S
<1>2. Head(sync.add) \in S
  BY <1>1
<1>3. PICK k \in Key, rule \in Rule : k = Head(sync.add).key /\ rule = Head(sync.add).rule
  BY Zenon, <1>2 DEF S
<1>4. /\ rules' = [rules EXCEPT ![k] = rule] /\ breakerMap' = breakerMap
      /\ normalIndexes' = [s \in Slot |-> IF s \in Slots(rule) THEN DelSlots(k)[s] \cup {k} ELSE DelSlots(k)[s]]
      /\ regexpIndexes' = [DelPatterns(k) EXCEPT ![k] = DelPatterns(k)[k] \cup Patterns(rule)]
  BY Zenon, <1>3 DEF CreateOrUpdateRule, DelSlots, DelPatterns
<1>a. PICK slots : slots = DelSlots(k)
  BY Zenon
<1>b. PICK patterns : patterns = DelPatterns(k)
  BY Zenon
<1>5. /\ slots \in [Slot -> SUBSET Key] /\ patterns \in [Key -> SUBSET Pattern]
      /\ \A s \in Slot : k \notin slots[s]
      /\ \A s \in Slot : \A j \in Key : j # k => (j \in slots[s] <=> j \in normalIndexes[s])
      /\ patterns[k] = {}
      /\ \A j \in Key : j # k => patterns[j] = regexpIndexes[j]
  BY Zenon, <1>a, <1>b, Removed
<1>6. /\ normalIndexes' = [s \in Slot |-> IF s \in Slots(rule) THEN slots[s] \cup {k} ELSE slots[s]]
      /\ regexpIndexes' = [patterns EXCEPT ![k] = patterns[k] \cup Patterns(rule)]
  BY Zenon, <1>4, <1>a, <1>b
<1>7. Slots(rule) \subseteq Slot /\ Patterns(rule) \subseteq Pattern /\ rule # NoRule
  BY Zenon, RuleParts, NoValueAssumption
<1>8. StoreType'
  <2>1. normalIndexes' \in [Slot -> SUBSET Key]
    BY <1>5, <1>6
  <2>2. regexpIndexes' \in [Key -> SUBSET Pattern]
    BY <1>5, <1>6, <1>7
  <2>3. rules' \in [Key -> Rule \cup {NoRule}]
    BY <1>4 DEF StoreType
  <2> QED
    BY Zenon, <1>4, <2>1, <2>2, <2>3 DEF StoreType
<1>9. rules'[k] = rule /\ \A j \in Key : j # k => rules'[j] = rules[j]
  BY Zenon, <1>4 DEF StoreType
<1>10. /\ regexpIndexes'[k] = Patterns(rule)
       /\ \A j \in Key : j # k => regexpIndexes'[j] = regexpIndexes[j]
  BY <1>5, <1>6
<1>11. /\ \A s \in Slot : k \in normalIndexes'[s] <=> s \in Slots(rule)
       /\ \A s \in Slot : \A j \in Key : j # k => (j \in normalIndexes'[s] <=> j \in normalIndexes[s])
  BY <1>5, <1>6
<1>12. Has(k, rule)'
  <2>1. At(k)' = Slots(rule)
    BY Zenon, <1>7, <1>11 DEF At
  <2> QED
    BY Zenon, <1>7, <1>9, <1>10, <2>1 DEF Has
<1>13. ASSUME NEW j \in Key, j # k PROVE \A r : Has(j, r)' <=> Has(j, r)
  BY Zenon, <1>9, <1>10, <1>11, <1>13, HasKept
<1> QED
  BY Zenon, <1>3, <1>4, <1>8, <1>12, <1>13

LEMMA IndexInvNext ==
    ASSUME StoreType, SyncType, IndexInv, DeleteRule \/ CreateOrUpdateRule
    PROVE  StoreType' /\ IndexInv'
<1>1. CASE DeleteRule
  <2>1. PICK k \in Key : /\ Has(k, NoRule)'
                         /\ \A j \in Key : j # k => \A rule : Has(j, rule)' <=> Has(j, rule)
    BY Zenon, <1>1, DeleteEffect
  <2>2. rules' = rules
    BY Zenon, <1>1 DEF DeleteRule
  <2>3. ASSUME NEW j \in Key PROVE Has(j, NoRule)' \/ Has(j, rules[j])'
    <3>1. CASE j = k
      BY Zenon, <2>1, <3>1
    <3>2. CASE j # k
      <4>1. PICK r : r = rules[j]
        BY Zenon
      <4>2. Has(j, NoRule) \/ Has(j, r)
        BY Zenon, <4>1 DEF IndexInv
      <4>3. Has(j, NoRule)' \/ Has(j, r)'
        BY Zenon, <2>1, <3>2, <4>2
      <4> QED
        BY Zenon, <2>2, <4>1, <4>3
    <3> QED
      BY Zenon, <3>1, <3>2
  <2> QED
    BY Zenon, <1>1, <2>3, DeleteEffect DEF IndexInv
<1>2. CASE CreateOrUpdateRule
  <2>1. PICK k \in Key, rule \in Rule :
            /\ rules' = [rules EXCEPT ![k] = rule] /\ Has(k, rule)'
            /\ \A j \in Key : j # k => \A r : Has(j, r)' <=> Has(j, r)
    BY Zenon, <1>2, CreateEffect
  <2>2. rules'[k] = rule /\ \A j \in Key : j # k => rules'[j] = rules[j]
    BY Zenon, <2>1 DEF StoreType
  <2>3. ASSUME NEW j \in Key PROVE Has(j, NoRule)' \/ Has(j, rules[j])'
    <3>1. CASE j = k
      BY Zenon, <2>1, <2>2, <3>1
    <3>2. CASE j # k
      <4>1. PICK r : r = rules[j]
        BY Zenon
      <4>2. Has(j, NoRule) \/ Has(j, r)
        BY Zenon, <4>1 DEF IndexInv
      <4>3. Has(j, NoRule)' \/ Has(j, r)'
        BY Zenon, <2>1, <3>2, <4>2
      <4> QED
        BY Zenon, <2>2, <3>2, <4>1, <4>3
    <3> QED
      BY Zenon, <3>1, <3>2
  <2> QED
    BY Zenon, <1>2, <2>3, CreateEffect DEF IndexInv
<1> QED
  BY Zenon, <1>1, <1>2

-----------------------------------------------------------------------------
(* What Sync leaves in the indexes.                                        *)

(* The first n rules of c give rule to the name l: the last one of that    *)
(* name wins, and there is no rule if there is none.                       *)
Gives(c, n, l, rule) ==
    \/ rule = NoRule /\ \A i \in 1..n : c.intercepts[i].name # l
    \/ \E i \in 1..n :
          /\ c.intercepts[i].name = l /\ c.intercepts[i].rule = rule
          /\ \A j \in 1..n : c.intercepts[j].name = l => j <= i

(* How many rules of c are in the store while b is synced.                 *)
Through(c, b) == Len(c.intercepts) - (IF c.name = b THEN Len(sync.add) ELSE 0)

(* The rule that k is given by what Sync is through with.                  *)
Due(k, b, rule) ==
    LET c == breakerMap[k[1]]
    IN  IF c = NoConfig THEN rule = NoRule ELSE Gives(c, Through(c, b), k[2], rule)

InStore(k, b) == \E rule \in Rule \cup {NoRule} : Has(k, rule) /\ Due(k, b, rule)

Pending(k) == \E i \in 1..Len(sync.del) : sync.del[i] = k

(* What is still to be added is the end of the new configuration, and      *)
(* nothing of it is added before all that was there is deleted.            *)
ToAdd(c) ==
    /\ Len(sync.add) <= Len(c.intercepts)
    /\ \A i \in 1..Len(sync.add) : sync.add[i] = KeyedRules(c)[Len(c.intercepts) - Len(sync.add) + i]
    /\ sync.del # <<>> => Len(sync.add) = Len(c.intercepts)

Syncing(b) ==
    /\ \A i \in 1..Len(sync.del) : sync.del[i][1] = b
    /\ IF breakerMap[b] = NoConfig THEN sync.add = <<>> ELSE ToAdd(breakerMap[b])
    /\ \A k \in Key : InStore(k, b) \/ Pending(k)

Named == \A b \in Breaker : breakerMap[b] # NoConfig => breakerMap[b].name = b

SyncInv == Named /\ (Breaker # {} => \E b \in Breaker : Syncing(b))

(* With all rules added, what they give is GivenRule.                      *)
LEMMA GivesRuleOf ==
    ASSUME NEW c \in Config, NEW l, NEW rule, Gives(c, Len(c.intercepts), l, rule)
    PROVE  rule = GivenRule(c, l)
<1> DEFINE at == {i \in 1..Len(c.intercepts) : c.intercepts[i].name = l}
<1>1. CASE \A i \in 1..Len(c.intercepts) : c.intercepts[i].name # l
  BY Zenon, <1>1 DEF Gives, GivenRule
<1>2. CASE \E i \in 1..Len(c.intercepts) : c.intercepts[i].name = l
  <2>1. PICK i \in 1..Len(c.intercepts) :
            /\ c.intercepts[i].name = l /\ c.intercepts[i].rule = rule
            /\ \A j \in 1..Len(c.intercepts) : c.intercepts[j].name = l => j <= i
    BY Zenon, <1>2 DEF Gives
  <2>2. i \in at /\ \A j \in at : j <= i
    BY Zenon, <2>1
  <2>3. (CHOOSE m \in at : \A j \in at : j <= m) = i
    <3>1. \A m \in at : (\A j \in at : j <= m) => m = i
      BY <2>2, InterceptsType
    <3> HIDE DEF at
    <3> QED
      BY Zenon, <2>2, <3>1
  <2>4. GivenRule(c, l) = c.intercepts[CHOOSE m \in at : \A j \in at : j <= m].rule
    BY Zenon, <2>2 DEF GivenRule
  <2> QED
    BY Zenon, <2>1, <2>3, <2>4
<1> QED
  BY Zenon, <1>1, <1>2

(* One more rule.                                                          *)
LEMMA GivesNext ==
    ASSUME NEW c \in Config, NEW n \in Nat, n + 1 <= Len(c.intercepts), NEW l, NEW rule,
           \/ c.intercepts[n + 1].name = l /\ c.intercepts[n + 1].rule = rule
           \/ c.intercepts[n + 1].name # l /\ Gives(c, n, l, rule)
    PROVE  Gives(c, n + 1, l, rule)
<1>1. CASE c.intercepts[n + 1].name = l /\ c.intercepts[n + 1].rule = rule
  BY <1>1 DEF Gives
<1>2. CASE c.intercepts[n + 1].name # l /\ Gives(c, n, l, rule)
  <2>1. \A i \in 1..(n + 1) : i \in 1..n \/ i = n + 1
    OBVIOUS
  <2>2. \A i \in 1..n : i \in 1..(n + 1)
    OBVIOUS
  <2> QED
    BY Zenon, <1>2, <2>1, <2>2 DEF Gives
<1> QED
  BY Zenon, <1>1, <1>2

(* A step that touches neither the store nor what Sync has still to do.    *)
LEMMA SyncQuiet ==
    ASSUME SyncInv, IndexInv, UNCHANGED store, sync'.del = sync.del, sync'.add = sync.add
    PROVE  SyncInv' /\ IndexInv'
<1>0. UNCHANGED breakerMap /\ UNCHANGED rules /\ UNCHANGED normalIndexes /\ UNCHANGED regexpIndexes
  BY Zenon DEF store
<1>1. Named'
  BY Zenon, <1>0 DEF SyncInv, Named
<1>2. \A k, rule : Has(k, rule)' <=> Has(k, rule)
  BY Zenon, <1>0 DEF Has, At
<1>3. IndexInv'
  BY Zenon, <1>0 DEF IndexInv, Has, At
<1>4. ASSUME NEW b \in Breaker, Syncing(b) PROVE Syncing(b)'
  <2>1. \A k \in Key : \A rule : Due(k, b, rule)' <=> Due(k, b, rule)
    BY Zenon, <1>0 DEF Due, Through
  <2>2. \A k \in Key : (InStore(k, b)' <=> InStore(k, b)) /\ (Pending(k)' <=> Pending(k))
    BY Zenon, <1>2, <2>1 DEF InStore, Pending
  <2>3. ToAdd(breakerMap[b])' <=> ToAdd(breakerMap[b])
    BY Zenon, <1>0 DEF ToAdd
  <2> QED
    BY Zenon, <1>0, <1>4, <2>2, <2>3 DEF Syncing
<1> QED
  BY Zenon, <1>1, <1>3, <1>4 DEF SyncInv

(* With no Sync call under way every key has the rule it is given.         *)
LEMMA SyncedStore ==
    ASSUME StoreType, SyncInv, sync.del = <<>>, sync.add = <<>>, NEW k \in Key
    PROVE  \E rule \in Rule \cup {NoRule} :
              /\ Has(k, rule)
              /\ breakerMap[k[1]] = NoConfig => rule = NoRule
              /\ breakerMap[k[1]] # NoConfig =>
                    Gives(breakerMap[k[1]], Len(breakerMap[k[1]].intercepts), k[2], rule)
<1>4. k[1] \in Breaker
  BY Zenon DEF Key
<1>1. PICK b \in Breaker : Syncing(b)
  BY Zenon, <1>4 DEF SyncInv
<1>2. ~Pending(k)
  BY DEF Pending
<1>3. InStore(k, b)
  BY Zenon, <1>1, <1>2 DEF Syncing
<1>5. breakerMap[k[1]] # NoConfig => Through(breakerMap[k[1]], b) = Len(breakerMap[k[1]].intercepts)
  BY <1>4, InterceptsType DEF Through, StoreType
<1> QED
  BY Zenon, <1>3, <1>5 DEF InStore, Due

(* Sync takes up a configuration, or none: whatever the old one had added  *)
(* is about to be deleted.                                                 *)
LEMMA SyncTakesUp ==
    ASSUME StoreType, SyncInv, IndexInv, sync = IdleSync, NEW b \in Breaker, NEW c \in Config \cup {NoConfig},
           c # NoConfig => c.name = b,
           breakerMap' = [breakerMap EXCEPT ![b] = c], UNCHANGED <<rules, normalIndexes, regexpIndexes>>,
           sync'.del = (IF breakerMap[b] = NoConfig THEN <<>> ELSE Keys(breakerMap[b])),
           sync'.add = (IF c = NoConfig THEN <<>> ELSE KeyedRules(c))
    PROVE  SyncInv' /\ IndexInv'
<1>0. sync.del = <<>> /\ sync.add = <<>>
  BY Zenon DEF IdleSync
<1>1. breakerMap'[b] = c /\ \A a \in Breaker : a # b => breakerMap'[a] = breakerMap[a]
  BY Zenon DEF StoreType
<1>2. Named'
  BY Zenon, <1>1 DEF SyncInv, Named
<1>3. breakerMap[b] # NoConfig =>
          /\ breakerMap[b] \in Config /\ breakerMap[b].name = b
          /\ Len(Keys(breakerMap[b])) = Len(breakerMap[b].intercepts)
          /\ \A i \in 1..Len(breakerMap[b].intercepts) :
                Keys(breakerMap[b])[i] = <<b, breakerMap[b].intercepts[i].name>>
  <2> SUFFICES ASSUME breakerMap[b] # NoConfig
               PROVE  /\ breakerMap[b] \in Config /\ breakerMap[b].name = b
                      /\ Len(Keys(breakerMap[b])) = Len(breakerMap[b].intercepts)
                      /\ \A i \in 1..Len(breakerMap[b].intercepts) :
                            Keys(breakerMap[b])[i] = <<b, breakerMap[b].intercepts[i].name>>
    BY Zenon
  <2>1. breakerMap[b] \in Config /\ breakerMap[b].name = b
    BY Zenon DEF StoreType, SyncInv, Named
  <2>2. Len(breakerMap[b].intercepts) \in Nat
    BY Zenon, <2>1, InterceptsType
  <2> QED
    BY <2>1, <2>2 DEF Keys
<1>4. c # NoConfig => c \in Config /\ Len(c.intercepts) \in Nat /\ Len(KeyedRules(c)) = Len(c.intercepts)
  BY InterceptsType DEF KeyedRules
<1>5. \A i \in 1..Len(sync'.del) : sync'.del[i][1] = b
  BY <1>3
<1>6. IF c = NoConfig THEN sync'.add = <<>> ELSE ToAdd(c)'
  BY <1>4 DEF ToAdd
<1>h. \A k, rule : Has(k, rule)' <=> Has(k, rule)
  BY Zenon DEF Has, At
<1>7. ASSUME NEW k \in Key PROVE InStore(k, b)' \/ Pending(k)'
  <2>0. k[1] \in Breaker
    BY Zenon DEF Key
  <2>a. PICK rule \in Rule \cup {NoRule} :
              /\ Has(k, rule)
              /\ breakerMap[k[1]] = NoConfig => rule = NoRule
              /\ breakerMap[k[1]] # NoConfig =>
                    Gives(breakerMap[k[1]], Len(breakerMap[k[1]].intercepts), k[2], rule)
    BY Zenon, <1>0, SyncedStore
  <2>1. CASE k[1] # b
    <3>1. breakerMap'[k[1]] = breakerMap[k[1]]
      BY Zenon, <1>1, <2>0, <2>1
    <3>2. PICK d : d = breakerMap[k[1]]
      BY Zenon
    <3>3. d # NoConfig => d.name # b /\ Len(d.intercepts) \in Nat
      BY Zenon, <2>0, <2>1, <3>2, InterceptsType DEF StoreType, SyncInv, Named
    <3>4. d # NoConfig => Through(d, b)' = Len(d.intercepts)
      <4> SUFFICES ASSUME d # NoConfig PROVE Through(d, b)' = Len(d.intercepts)
        BY Zenon
      <4>1. Through(d, b)' = Len(d.intercepts) - 0
        BY Zenon, <3>3 DEF Through
      <4> QED
        BY <3>3, <4>1
    <3>5. Due(k, b, rule)'
      BY Zenon, <2>a, <3>1, <3>2, <3>4 DEF Due, Through
    <3> QED
      BY Zenon, <1>h, <2>a, <3>5 DEF InStore
  <2>2. CASE k[1] = b /\ rule # NoRule
    <3>1. breakerMap[b] # NoConfig /\ Gives(breakerMap[b], Len(breakerMap[b].intercepts), k[2], rule)
      BY Zenon, <2>2, <2>a
    <3>2. PICK i \in 1..Len(breakerMap[b].intercepts) : breakerMap[b].intercepts[i].name = k[2]
      BY Zenon, <2>2, <3>1 DEF Gives
    <3>3. sync'.del = Keys(breakerMap[b]) /\ i \in 1..Len(sync'.del)
      BY Zenon, <1>3, <3>1, <3>2
    <3>4. k = <<k[1], k[2]>>
      BY DEF Key
    <3>5. sync'.del[i] = k
      BY Zenon, <1>3, <2>2, <3>1, <3>2, <3>3, <3>4
    <3> QED
      BY Zenon, <3>3, <3>5 DEF Pending
  <2>3. CASE k[1] = b /\ rule = NoRule
    <3>1. c # NoConfig => Through(c, b)' = 0
      BY <1>4 DEF Through
    <3>2. c # NoConfig => Gives(c, 0, k[2], NoRule)
      BY DEF Gives
    <3>3. Due(k, b, rule)'
      BY Zenon, <1>1, <2>3, <3>1, <3>2 DEF Due
    <3> QED
      BY Zenon, <1>h, <2>a, <3>3 DEF InStore
  <2> QED
    BY Zenon, <2>1, <2>2, <2>3
<1>8. Syncing(b)'
  BY Zenon, <1>1, <1>5, <1>6, <1>7 DEF Syncing
<1>9. IndexInv'
  BY Zenon DEF IndexInv, Has, At
<1> QED
  BY Zenon, <1>2, <1>8, <1>9 DEF SyncInv

(* The first rule in line is deleted.                                      *)
LEMMA SyncDeletes ==
    ASSUME StoreType, SyncType, SyncInv, IndexInv, DeleteRule
    PROVE  SyncInv'
<1>1. /\ sync.del \in Seq(Key) /\ sync.del # <<>>
      /\ breakerMap' = breakerMap /\ sync' = [sync EXCEPT !.del = Tail(sync.del), !.writing = FALSE]
  BY Zenon DEF DeleteRule, SyncType
<1>2. PICK h \in Key : /\ h = Head(sync.del) /\ Has(h, NoRule)'
                       /\ \A j \in Key : j # h => \A rule : Has(j, rule)' <=> Has(j, rule)
  BY Zenon, DeleteEffect
<1>3. sync'.del = Tail(sync.del) /\ sync'.add = sync.add
  BY Zenon, <1>1 DEF SyncType
<1>4. h = sync.del[1] /\ Len(sync.del) \in Nat /\ 1 \in 1..Len(sync.del)
  BY <1>1, <1>2
<1>5. /\ Len(Tail(sync.del)) = Len(sync.del) - 1
      /\ \A i \in 1..Len(Tail(sync.del)) : Tail(sync.del)[i] = sync.del[i + 1] /\ i + 1 \in 1..Len(sync.del)
  BY <1>1, <1>4
<1>6. PICK b \in Breaker : Syncing(b)
  BY Zenon, <1>2 DEF SyncInv, Key
<1>7. h[1] = b
  BY Zenon, <1>4, <1>6 DEF Syncing
<1>8. \A i \in 1..Len(sync'.del) : sync'.del[i][1] = b
  BY <1>3, <1>5, <1>6 DEF Syncing
<1>9. IF breakerMap[b] = NoConfig THEN sync'.add = <<>> ELSE ToAdd(breakerMap[b])'
  BY Zenon, <1>1, <1>3, <1>6 DEF Syncing, ToAdd
<1>10. ASSUME NEW k \in Key PROVE InStore(k, b)' \/ Pending(k)'
  <2>1. CASE k = h
    <3>1. breakerMap[b] # NoConfig => Len(sync.add) = Len(breakerMap[b].intercepts)
      BY Zenon, <1>1, <1>6 DEF Syncing, ToAdd
    <3>2. breakerMap[b] # NoConfig => breakerMap[b].name = b /\ Len(breakerMap[b].intercepts) \in Nat
      BY Zenon, InterceptsType DEF SyncInv, Named, StoreType
    <3>3. breakerMap[b] # NoConfig => Through(breakerMap[b], b)' = 0
      BY <1>1, <1>3, <3>1, <3>2 DEF Through
    <3>4. breakerMap[b] # NoConfig => Gives(breakerMap[b], 0, k[2], NoRule)
      BY DEF Gives
    <3>5. Due(k, b, NoRule)'
      BY Zenon, <1>1, <1>7, <2>1, <3>3, <3>4 DEF Due
    <3> QED
      BY Zenon, <1>2, <2>1, <3>5 DEF InStore
  <2>2. CASE k # h /\ Pending(k)
    <3>1. PICK i \in 1..Len(sync.del) : sync.del[i] = k
      BY Zenon, <2>2 DEF Pending
    <3>2. i # 1
      BY Zenon, <1>4, <2>2, <3>1
    <3>3. i - 1 \in 1..Len(Tail(sync.del)) /\ (i - 1) + 1 = i
      BY <1>4, <1>5, <3>2
    <3> QED
      BY Zenon, <1>3, <1>5, <3>1, <3>3 DEF Pending
  <2>3. CASE k # h /\ InStore(k, b)
    <3>1. \A rule : Due(k, b, rule)' <=> Due(k, b, rule)
      BY Zenon, <1>1, <1>3 DEF Due, Through
    <3> QED
      BY Zenon, <1>2, <2>3, <3>1 DEF InStore
  <2> QED
    BY Zenon, <1>6, <2>1, <2>2, <2>3 DEF Syncing
<1>11. Syncing(b)'
  BY Zenon, <1>1, <1>8, <1>9, <1>10 DEF Syncing
<1> QED
  BY Zenon, <1>1, <1>11 DEF SyncInv, Named

(* The first rule in line is added.                                        *)
LEMMA SyncAdds ==
    ASSUME StoreType, SyncType, SyncInv, IndexInv, CreateOrUpdateRule
    PROVE  SyncInv'
<1> DEFINE S == [key : Key, rule : Rule]
<1>1. sync.add \in Seq(S) /\ sync.add # <<>> /\ sync.del = <<>>
  BY Zenon DEF CreateOrUpdateRule, SyncType
<1>2. breakerMap' = breakerMap /\ sync' = [sync EXCEPT !.add = Tail(sync.add), !.writing = FALSE]
  BY Zenon DEF CreateOrUpdateRule
<1> HIDE DEF S
<1>3. PICK h : h = Head(sync.add)
  BY Zenon
<1>4. h = sync.add[1] /\ Len(sync.add) \in Nat /\ 1 \in 1..Len(sync.add)
  BY <1>1, <1>3
<1>5. sync'.add = Tail(sync.add) /\ sync'.del = sync.del
  BY Zenon, <1>2 DEF SyncType
<1>6. /\ Len(Tail(sync.add)) = Len(sync.add) - 1
      /\ \A i \in 1..Len(Tail(sync.add)) : Tail(sync.add)[i] = sync.add[i + 1] /\ i + 1 \in 1..Len(sync.add)
  BY <1>1, <1>4
<1>7. /\ h.key \in Key /\ h.rule \in Rule /\ Has(h.key, h.rule)'
      /\ \A j \in Key : j # h.key => \A r : Has(j, r)' <=> Has(j, r)
  BY Zenon, <1>3, CreateEffect
<1>8. PICK b \in Breaker : Syncing(b)
  BY Zenon, <1>7 DEF SyncInv, Key
<1>9. PICK c : c = breakerMap[b]
  BY Zenon
<1>10. c # NoConfig /\ c \in Config /\ c.name = b /\ Len(c.intercepts) \in Nat /\ ToAdd(c)
  BY Zenon, <1>1, <1>8, <1>9, InterceptsType DEF Syncing, StoreType, SyncInv, Named
<1> DEFINE n == Len(c.intercepts) - Len(sync.add)
<1>11. /\ n \in Nat /\ n + 1 \in 1..Len(c.intercepts) /\ n + 1 <= Len(c.intercepts)
       /\ Len(c.intercepts) - (Len(sync.add) - 1) = n + 1
  <2>1. Len(sync.add) <= Len(c.intercepts)
    BY Zenon, <1>10 DEF ToAdd
  <2>2. Len(sync.add) \in Nat /\ Len(sync.add) >= 1 /\ Len(c.intercepts) \in Nat
    BY <1>4, <1>10
  <2>3. \A a, m \in Nat : a >= 1 /\ a <= m =>
            m - a \in Nat /\ (m - a) + 1 \in 1..m /\ (m - a) + 1 <= m /\ m - (a - 1) = (m - a) + 1
    OBVIOUS
  <2> QED
    BY Zenon, <2>1, <2>2, <2>3
<1>12. h = [key |-> <<b, c.intercepts[n + 1].name>>, rule |-> c.intercepts[n + 1].rule]
  <2>1. h = KeyedRules(c)[n + 1]
    BY Zenon, <1>4, <1>10 DEF ToAdd
  <2> HIDE DEF n
  <2> QED
    BY Zenon, <1>10, <1>11, <2>1 DEF KeyedRules
<1>13. Through(c, b) = n /\ Through(c, b)' = n + 1
  BY Zenon, <1>5, <1>6, <1>10, <1>11 DEF Through
<1>14. ToAdd(c)'
  <2>1. Len(sync'.add) <= Len(c.intercepts)
    BY <1>4, <1>5, <1>6, <1>10 DEF ToAdd
  <2>2. \A i \in 1..Len(sync'.add) : sync'.add[i] = KeyedRules(c)[Len(c.intercepts) - Len(sync'.add) + i]
    <3> SUFFICES ASSUME NEW i \in 1..Len(sync'.add)
                 PROVE  sync'.add[i] = KeyedRules(c)[Len(c.intercepts) - Len(sync'.add) + i]
      BY Zenon
    <3>1. sync'.add[i] = sync.add[i + 1] /\ i + 1 \in 1..Len(sync.add)
      BY Zenon, <1>5, <1>6
    <3>2. sync.add[i + 1] = KeyedRules(c)[Len(c.intercepts) - Len(sync.add) + (i + 1)]
      BY Zenon, <1>10, <3>1 DEF ToAdd
    <3>3. Len(c.intercepts) - Len(sync.add) + (i + 1) = Len(c.intercepts) - Len(sync'.add) + i
      <4>1. Len(sync'.add) = Len(sync.add) - 1 /\ Len(sync.add) \in Nat /\ Len(c.intercepts) \in Nat /\ i \in Nat
        BY <1>4, <1>5, <1>6, <1>10
      <4>2. \A a, m, j \in Nat : m - a + (j + 1) = m - (a - 1) + j
        OBVIOUS
      <4>3. Len(c.intercepts) - Len(sync.add) + (i + 1) = Len(c.intercepts) - (Len(sync.add) - 1) + i
        BY <4>1, <4>2, Zenon
      <4> QED
        BY <4>1, <4>3, Zenon
    <3> QED
      BY Zenon, <3>1, <3>2, <3>3
  <2> QED
    BY Zenon, <1>1, <1>5, <2>1, <2>2 DEF ToAdd
<1> HIDE DEF n
<1>15. ASSUME NEW k \in Key PROVE InStore(k, b)'
  <2>0. /\ k[1] \in Breaker /\ k = <<k[1], k[2]>>
        /\ InStore(k, b)
    BY <1>1, <1>8 DEF Key, Syncing, Pending
  <2>a. PICK rule \in Rule \cup {NoRule} : Has(k, rule) /\ Due(k, b, rule)
    BY Zenon, <2>0 DEF InStore
  <2>1. CASE k[1] # b
    <3>1. k # h.key
      BY <1>12, <2>1
    <3>2. PICK d : d = breakerMap[k[1]]
      BY Zenon
    <3>3. d # NoConfig => d.name # b
      BY Zenon, <2>0, <2>1, <3>2 DEF SyncInv, Named
    <3>4. d # NoConfig => Through(d, b)' = Through(d, b)
      BY Zenon, <3>3 DEF Through
    <3>5. Due(k, b, rule)'
      BY Zenon, <1>2, <2>a, <3>2, <3>4 DEF Due, Through
    <3> QED
      BY Zenon, <1>7, <2>a, <3>1, <3>5 DEF InStore
  <2>2. CASE k[1] = b /\ k = h.key
    <3>1. c.intercepts[n + 1].name = k[2] /\ c.intercepts[n + 1].rule = h.rule
      BY <1>12, <2>2
    <3>2. Gives(c, n + 1, k[2], h.rule)
      BY Zenon, <1>10, <1>11, <3>1, GivesNext
    <3>3. Due(k, b, h.rule)'
      BY Zenon, <1>2, <1>9, <1>10, <1>13, <2>2, <3>2 DEF Due
    <3> QED
      BY Zenon, <1>7, <2>2, <3>3 DEF InStore
  <2>3. CASE k[1] = b /\ k # h.key
    <3>1. Gives(c, n, k[2], rule)
      BY Zenon, <1>9, <1>10, <1>13, <2>a, <2>3 DEF Due
    <3>2. c.intercepts[n + 1].name # k[2]
      BY Zenon, <1>12, <2>0, <2>3
    <3>3. Gives(c, n + 1, k[2], rule)
      BY Zenon, <1>10, <1>11, <3>1, <3>2, GivesNext
    <3>4. Due(k, b, rule)'
      BY Zenon, <1>2, <1>9, <1>10, <1>13, <2>3, <3>3 DEF Due
    <3> QED
      BY Zenon, <1>7, <2>a, <2>3, <3>4 DEF InStore
  <2> QED
    BY Zenon, <2>1, <2>2, <2>3
<1>16. Syncing(b)'
  <2>1. \A i \in 1..Len(sync'.del) : sync'.del[i][1] = b
    BY Zenon, <1>5, <1>8 DEF Syncing
  <2>2. breakerMap'[b] = c
    BY Zenon, <1>2, <1>9
  <2> QED
    BY Zenon, <1>10, <1>14, <1>15, <2>1, <2>2 DEF Syncing
<1> QED
  BY Zenon, <1>2, <1>16 DEF SyncInv, Named

(* An empty store, at the start and after the process was started again.   *)
EmptyStore ==
    /\ breakerMap = [b \in Breaker |-> NoConfig]
    /\ rules = [k \in Key |-> NoRule]
    /\ normalIndexes = [s \in Slot |-> {}]
    /\ regexpIndexes = [k \in Key |-> {}]
    /\ sync = IdleSync

LEMMA EmptyInv == EmptyStore => StoreType /\ SyncType /\ IndexInv /\ SyncInv
<1> SUFFICES ASSUME EmptyStore PROVE StoreType /\ SyncType /\ IndexInv /\ SyncInv
  BY Zenon
<1>1. StoreType
  BY DEF EmptyStore, StoreType
<1>2. SyncType
  BY DEF EmptyStore, SyncType, IdleSync
<1>3. \A k \in Key : Has(k, NoRule)
  BY Zenon DEF EmptyStore, Has, At
<1>4. Named
  BY Zenon DEF EmptyStore, Named
<1>5. ASSUME NEW b \in Breaker PROVE Syncing(b)
  <2>1. sync.del = <<>> /\ sync.add = <<>>
    BY Zenon DEF EmptyStore, IdleSync
  <2>2. \A k \in Key : breakerMap[k[1]] = NoConfig
    BY Zenon DEF EmptyStore, Key
  <2>3. \A k \in Key : InStore(k, b)
    BY Zenon, <1>3, <2>2 DEF InStore, Due
  <2>4. breakerMap[b] = NoConfig
    BY Zenon DEF EmptyStore
  <2>5. \A i \in 1..Len(sync.del) : sync.del[i][1] = b
    BY <2>1
  <2> QED
    BY Zenon, <2>1, <2>3, <2>4, <2>5 DEF Syncing
<1> QED
  BY Zenon, <1>1, <1>2, <1>3, <1>4, <1>5 DEF IndexInv, SyncInv

-----------------------------------------------------------------------------
(* Requests.                                                               *)

(* Between Sync calls every name has its configured rule.                  *)
LEMMA Stored ==
    ASSUME StoreType, SyncInv, sync = IdleSync, NEW b \in Breaker, NEW n \in Name
    PROVE  RuleOf(b, n) \in Rule \cup {NoRule} /\ Has(<<b, n>>, RuleOf(b, n))
<1>1. <<b, n>> \in Key /\ <<b, n>>[1] = b /\ <<b, n>>[2] = n
  BY Zenon DEF Key
<1>2. sync.del = <<>> /\ sync.add = <<>>
  BY Zenon DEF IdleSync
<1>3. PICK rule \in Rule \cup {NoRule} :
          /\ Has(<<b, n>>, rule)
          /\ breakerMap[b] = NoConfig => rule = NoRule
          /\ breakerMap[b] # NoConfig => Gives(breakerMap[b], Len(breakerMap[b].intercepts), n, rule)
  BY Zenon, <1>1, <1>2, SyncedStore
<1>4. rule = RuleOf(b, n)
  <2>1. CASE breakerMap[b] = NoConfig
    BY Zenon, <1>3, <2>1 DEF RuleOf
  <2>2. CASE breakerMap[b] # NoConfig
    <3>1. breakerMap[b] \in Config
      BY Zenon, <2>2 DEF StoreType
    <3> QED
      BY Zenon, <1>3, <2>2, <3>1, GivesRuleOf DEF RuleOf
  <2> QED
    BY Zenon, <2>1, <2>2
<1> QED
  BY Zenon, <1>3, <1>4

(* Hence an entry of an index is of a configured rule, and a configured    *)
(* rule has its entries.                                                   *)
LEMMA IndexedRule ==
    ASSUME StoreType, SyncInv, sync = IdleSync, NEW k \in Key
    PROVE  /\ \A s \in Slot : k \in normalIndexes[s] => rules[k] \in Configured /\ s \in Slots(rules[k])
           /\ \A p \in regexpIndexes[k] : rules[k] \in Configured /\ p \in Patterns(rules[k])
<1>1. PICK b \in Breaker, n \in Name : k = <<b, n>>
  BY DEF Key
<1>2. PICK rule : rule = RuleOf(b, n)
  BY Zenon
<1>3. rule \in Rule \cup {NoRule} /\ Has(k, rule)
  BY Zenon, <1>1, <1>2, Stored
<1>4. CASE rule = NoRule
  <2>1. At(k) = {} /\ regexpIndexes[k] = {}
    BY Zenon, <1>3, <1>4 DEF Has
  <2> QED
    BY Zenon, <2>1 DEF At
<1>5. CASE rule # NoRule
  <2>1. rules[k] = rule /\ At(k) = Slots(rule) /\ regexpIndexes[k] = Patterns(rule)
    BY Zenon, <1>3, <1>5 DEF Has
  <2>2. rule \in Configured
    BY <1>2, <1>5 DEF Configured
  <2>3. \A s \in Slot : k \in normalIndexes[s] => s \in At(k)
    BY Zenon DEF At
  <2> QED
    BY Zenon, <2>1, <2>2, <2>3
<1> QED
  BY Zenon, <1>4, <1>5

LEMMA ConfiguredRule ==
    ASSUME StoreType, SyncInv, sync = IdleSync, NEW rule \in Configured
    PROVE  \E k \in Key :
              /\ rules[k] = rule /\ rule \in Rule /\ rule # NoRule
              /\ \A s \in Slots(rule) : s \in Slot /\ k \in normalIndexes[s]
              /\ regexpIndexes[k] = Patterns(rule)
<1>1. PICK b \in Breaker, n \in Name : rule = RuleOf(b, n)
  BY DEF Configured
<1>2. rule # NoRule
  BY DEF Configured
<1>3. PICK k \in Key : k = <<b, n>>
  BY Zenon DEF Key
<1>4. rule \in Rule /\ Has(k, rule)
  BY Zenon, <1>1, <1>2, <1>3, Stored
<1>5. rules[k] = rule /\ At(k) = Slots(rule) /\ regexpIndexes[k] = Patterns(rule)
  BY Zenon, <1>2, <1>4 DEF Has
<1>6. \A s \in At(k) : s \in Slot /\ k \in normalIndexes[s]
  BY Zenon DEF At
<1> QED
  BY Zenon, <1>2, <1>4, <1>5, <1>6

(* The rules that may decide, first to last.                               *)
Says(S) == {rule.type = "WHITELIST" : rule \in S}

LEMMA VerdictCases ==
    ASSUME NEW cfg, NEW u, NEW m
    PROVE  /\ ByURL(cfg, u, m) # {} => Verdicts(cfg, u, m) = Says(ByURL(cfg, u, m))
           /\ ByURL(cfg, u, m) = {} /\ ByURL(cfg, u, AnyMethod) # {} =>
                 Verdicts(cfg, u, m) = Says(ByURL(cfg, u, AnyMethod))
           /\ ByURL(cfg, u, m) = {} /\ ByURL(cfg, u, AnyMethod) = {} /\ ByPattern(cfg, u, m) # {} =>
                 Verdicts(cfg, u, m) = Says(ByPattern(cfg, u, m))
           /\ ByURL(cfg, u, m) = {} /\ ByURL(cfg, u, AnyMethod) = {} /\ ByPattern(cfg, u, m) = {} =>
                 Verdicts(cfg, u, m) = {~\E rule \in cfg : rule.type = "WHITELIST"}
<1>1. PICK exact, anyMethod, pattern :
         exact = ByURL(cfg, u, m) /\ anyMethod = ByURL(cfg, u, AnyMethod) /\ pattern = ByPattern(cfg, u, m)
  BY Zenon
<1> DEFINE First(s) == \/ s = exact /\ exact # {}
                       \/ s = anyMethod /\ exact = {} /\ anyMethod # {}
                       \/ s = pattern /\ exact = {} /\ anyMethod = {}
           first == CHOOSE s \in {exact, anyMethod, pattern} : First(s)
<1>2. Verdicts(cfg, u, m) = IF first # {} THEN Says(first) ELSE {~\E rule \in cfg : rule.type = "WHITELIST"}
  BY Zenon, <1>1 DEF Verdicts, Says
<1>3. /\ exact # {} => first = exact
      /\ exact = {} /\ anyMethod # {} => first = anyMethod
      /\ exact = {} /\ anyMethod = {} => first = pattern
  <2>1. ASSUME NEW t \in {exact, anyMethod, pattern}, First(t), \A s \in {exact, anyMethod, pattern} : First(s) => s = t
        PROVE  first = t
    BY Zenon, <2>1
  <2>2. CASE exact # {}
    BY Zenon, <2>1, <2>2
  <2>3. CASE exact = {} /\ anyMethod # {}
    BY Zenon, <2>1, <2>3
  <2>4. CASE exact = {} /\ anyMethod = {}
    BY Zenon, <2>1, <2>4
  <2> QED
    BY Zenon, <2>2, <2>3, <2>4
<1> HIDE DEF first
<1> QED
  BY Zenon, <1>1, <1>2, <1>3

(* What a request that no Sync call overlaps has found out so far.         *)
RequestOk(q) ==
    q.quiet =>
        /\ sync = IdleSync
        /\ q.pc = "rule" => q.key \in Indexed(q.url, q.method)
        /\ q.pc \in {"regexp", "default"} => Indexed(q.url, q.method) = {}
        /\ q.pc = "default" => \A k \in Key : \A p \in regexpIndexes[k] : ~Matches(p, q.url, q.method)
        /\ q.pc = "done" => Admitted(q.allowed, q.url, q.method)

ReqInv == \A r \in Request : RequestOk(req[r])

(* The rule found in the exact index decides.                              *)
LEMMA RuleDecides ==
    ASSUME StoreType, SyncInv, sync = IdleSync, NEW u \in URL, NEW m \in Method, NEW k \in Indexed(u, m),
           NEW v, v = (rules[k].type = "WHITELIST")
    PROVE  v \in Verdicts(Configured, u, m) /\ rules[k] # NoRule
<1>1. <<u, m>> \in Slot /\ <<u, AnyMethod>> \in Slot
  BY ContentAssumption DEF Slot
<1>2. \A s \in Slot : \A j \in normalIndexes[s] : j \in Key
  BY Zenon DEF StoreType
<1>3. \A n : ByURL(Configured, u, n) # {} /\ <<u, n>> \in Slot => normalIndexes[<<u, n>>] # {}
  <2> SUFFICES ASSUME NEW n, NEW rule \in ByURL(Configured, u, n) PROVE normalIndexes[<<u, n>>] # {}
    BY Zenon
  <2>1. rule \in Configured /\ <<u, n>> \in Slots(rule)
    BY Zenon DEF ByURL
  <2> QED
    BY Zenon, <2>1, ConfiguredRule
<1>4. \A n : <<u, n>> \in Slot /\ k \in normalIndexes[<<u, n>>] => rules[k] \in ByURL(Configured, u, n)
  BY Zenon, <1>2, IndexedRule DEF ByURL
<1>5. rules[k] \in Configured => rules[k] # NoRule
  BY DEF Configured
<1>6. \A S : rules[k] \in S => v \in Says(S)
  BY Zenon DEF Says
<1>7. CASE normalIndexes[<<u, m>>] # {}
  <2>1. k \in normalIndexes[<<u, m>>]
    BY Zenon, <1>7 DEF Indexed
  <2>2. rules[k] \in ByURL(Configured, u, m)
    BY Zenon, <1>1, <1>4, <2>1
  <2> QED
    <3>1. ByURL(Configured, u, m) # {} /\ rules[k] \in Configured
      BY Zenon, <2>2 DEF ByURL
    <3>2. Verdicts(Configured, u, m) = Says(ByURL(Configured, u, m))
      BY Zenon, <3>1, VerdictCases
    <3> QED
      BY Zenon, <1>5, <1>6, <2>2, <3>1, <3>2
<1>8. CASE normalIndexes[<<u, m>>] = {}
  <2>1. k \in normalIndexes[<<u, AnyMethod>>]
    BY Zenon, <1>8 DEF Indexed
  <2>2. rules[k] \in ByURL(Configured, u, AnyMethod) /\ ByURL(Configured, u, m) = {}
    BY Zenon, <1>1, <1>3, <1>4, <1>8, <2>1
  <2>3. ByURL(Configured, u, AnyMethod) # {}
    BY Zenon, <2>2
  <2>4. Verdicts(Configured, u, m) = Says(ByURL(Configured, u, AnyMethod))
    BY Zenon, <2>2, <2>3, VerdictCases
  <2>5. rules[k] \in Configured
    BY Zenon, <2>2 DEF ByURL
  <2> QED
    BY Zenon, <1>5, <1>6, <2>2, <2>4, <2>5
<1> QED
  BY Zenon, <1>7, <1>8

(* If there is none, no rule is for exactly this URL, whatever the method. *)
LEMMA NoneIndexed ==
    ASSUME StoreType, SyncInv, sync = IdleSync, NEW u \in URL, NEW m \in Method, Indexed(u, m) = {}
    PROVE  ByURL(Configured, u, m) = {} /\ ByURL(Configured, u, AnyMethod) = {}
<1>1. normalIndexes[<<u, m>>] = {} /\ normalIndexes[<<u, AnyMethod>>] = {}
  BY Zenon DEF Indexed
<1>2. ASSUME NEW n, NEW rule \in ByURL(Configured, u, n) PROVE normalIndexes[<<u, n>>] # {}
  <2>1. rule \in Configured /\ <<u, n>> \in Slots(rule)
    BY Zenon, <1>2 DEF ByURL
  <2> QED
    BY Zenon, <2>1, ConfiguredRule
<1> QED
  BY Zenon, <1>1, <1>2

(* Then any pattern that matches decides.                                  *)
LEMMA PatternDecides ==
    ASSUME StoreType, SyncInv, sync = IdleSync, NEW u \in URL, NEW m \in Method, Indexed(u, m) = {},
           NEW k \in Key, NEW p \in regexpIndexes[k], Matches(p, u, m), NEW v, v = (p.type = "WHITELIST")
    PROVE  v \in Verdicts(Configured, u, m)
<1>1. rules[k] \in Configured /\ p \in Patterns(rules[k])
  BY Zenon, IndexedRule
<1>2. PICK rule \in Configured : rule = rules[k]
  BY Zenon, <1>1
<1>3. rule \in Rule
  BY Zenon, ConfiguredRule
<1>4. p.type = rule.type
  BY Zenon, <1>1, <1>2, <1>3, RuleParts
<1>5. rule \in ByPattern(Configured, u, m)
  BY Zenon, <1>1, <1>2 DEF ByPattern
<1>6. v \in Says(ByPattern(Configured, u, m))
  BY Zenon, <1>4, <1>5 DEF Says
<1>7. ByPattern(Configured, u, m) # {}
  BY Zenon, <1>5
<1>8. ByURL(Configured, u, m) = {} /\ ByURL(Configured, u, AnyMethod) = {}
  BY Zenon, NoneIndexed
<1>9. Verdicts(Configured, u, m) = Says(ByPattern(Configured, u, m))
  BY <1>7, <1>8, VerdictCases
<1> QED
  BY Zenon, <1>6, <1>9

(* And else the default, for which rules that were deleted still count.    *)
LEMMA DefaultDecides ==
    ASSUME StoreType, SyncInv, sync = IdleSync,
           NEW u \in URL, NEW m \in Method, Indexed(u, m) = {},
           \A k \in Key : \A p \in regexpIndexes[k] : ~Matches(p, u, m),
           NEW v \in BOOLEAN, v = ~\E k \in Key : rules[k] # NoRule /\ rules[k].type = "WHITELIST"
    PROVE  Admitted(v, u, m)
<1>1. ByPattern(Configured, u, m) = {}
  <2>1. ASSUME NEW rule \in ByPattern(Configured, u, m) PROVE FALSE
    <3>1. PICK p \in Patterns(rule) : Matches(p, u, m)
      BY Zenon, <2>1 DEF ByPattern
    <3>2. rule \in Configured
      BY Zenon, <2>1 DEF ByPattern
    <3> QED
      BY Zenon, <3>1, <3>2, ConfiguredRule
  <2> QED
    BY Zenon, <2>1
<1>2. ByURL(Configured, u, m) = {} /\ ByURL(Configured, u, AnyMethod) = {}
  BY Zenon, NoneIndexed
<1>3. Verdicts(Configured, u, m) = {~\E rule \in Configured : rule.type = "WHITELIST"}
  BY <1>1, <1>2, VerdictCases
<1>4. ~Mentioned(Configured, u, m)
  BY <1>1, <1>2 DEF Mentioned
<1>5. ASSUME NEW k \in Key, rules[k] # NoRule, rules[k].type = "WHITELIST"
      PROVE  WhitelistLeft \/ \E rule \in Configured : rule.type = "WHITELIST"
  <2>1. PICK b \in Breaker, n \in Name : k = <<b, n>>
    BY DEF Key
  <2>2. CASE rules[k] = RuleOf(b, n)
    <3>1. RuleOf(b, n) \in Configured
      BY <1>5, <2>2 DEF Configured
    <3> QED
      BY Zenon, <1>5, <2>2, <3>1
  <2>3. CASE rules[k] # RuleOf(b, n)
    BY Zenon, <1>5, <2>1, <2>3 DEF WhitelistLeft
  <2> QED
    BY Zenon, <2>2, <2>3
<1>6. ASSUME NEW rule \in Configured, rule.type = "WHITELIST"
      PROVE  \E k \in Key : rules[k] # NoRule /\ rules[k].type = "WHITELIST"
  BY Zenon, <1>6, ConfiguredRule
<1>7. (~v /\ WhitelistLeft) \/ v = ~\E rule \in Configured : rule.type = "WHITELIST"
  BY Zenon, <1>5, <1>6
<1> QED
  BY Zenon, <1>3, <1>4, <1>7 DEF Admitted

-----------------------------------------------------------------------------
(* The steps of a request.                                                 *)

(* One request moves on and nothing else does.                             *)
LEMMA ReqStep ==
    ASSUME ReqType, ReqInv, UNCHANGED <<store, sync>>, NEW r \in Request, NEW q \in ReqRecord,
           req' = [req EXCEPT ![r] = q], RequestOk(q), q.pc = "rule" <=> q.key # NoKey
    PROVE  ReqType' /\ ReqInv'
<1>1. req \in [Request -> ReqRecord]
  BY Zenon DEF ReqType
<1>2. \A s \in Request : req'[s] = IF s = r THEN q ELSE req[s]
  BY Zenon, <1>1
<1>3. req' \in [Request -> ReqRecord]
  BY <1>1
<1>4. \A x : RequestOk(x)' <=> RequestOk(x)
  <2>1. breakerMap' = breakerMap /\ rules' = rules /\ normalIndexes' = normalIndexes /\ regexpIndexes' = regexpIndexes /\ sync' = sync
    BY Zenon DEF store
  <2>2. \A b, n : RuleOf(b, n)' = RuleOf(b, n)
    BY Zenon, <2>1 DEF RuleOf
  <2>3. Configured' = Configured
    BY <2>2 DEF Configured
  <2>4. WhitelistLeft' <=> WhitelistLeft
    BY Zenon, <2>1, <2>2 DEF WhitelistLeft
  <2>5. \A u, m : Indexed(u, m)' = Indexed(u, m)
    BY Zenon, <2>1 DEF Indexed
  <2>6. \A v, u, m : Admitted(v, u, m)' <=> Admitted(v, u, m)
    BY Zenon, <2>3, <2>4 DEF Admitted
  <2> QED
    BY Zenon, <2>1, <2>5, <2>6 DEF RequestOk
<1>5. ReqType'
  BY Zenon, <1>2, <1>3 DEF ReqType
<1>6. ASSUME NEW s \in Request PROVE RequestOk(req[s])'
  <2>1. PICK x : x = req'[s]
    BY Zenon
  <2>2. RequestOk(x)
    BY Zenon, <1>2, <2>1 DEF ReqInv
  <2>3. RequestOk(x)'
    BY Zenon, <1>4, <2>2
  <2> QED
    BY Zenon, <2>1, <2>3
<1> QED
  BY Zenon, <1>5, <1>6 DEF ReqInv

LEMMA StartStep ==
    ASSUME ReqType, ReqInv, NEW r \in Request, NEW u \in URL, NEW m \in Method, Start(r, u, m)
    PROVE  ReqType' /\ ReqInv'
<1>1. PICK v \in BOOLEAN : v = (sync = IdleSync)
  BY Zenon
<1>0. PICK x \in ReqRecord : x = IdleReq(u, m) /\ x.key = NoKey
  <2>1. IdleReq(u, m) \in ReqRecord /\ IdleReq(u, m).key = NoKey
    BY DEF IdleReq, ReqRecord
  <2> QED
    BY Zenon, <2>1
<1> DEFINE q == [x EXCEPT !.pc = "index", !.quiet = v]
<1>2. req' = [req EXCEPT ![r] = q]
  BY Zenon, <1>0, <1>1 DEF Start
<1>a. /\ q \in ReqRecord /\ q.pc = "index" /\ q.key = NoKey /\ q.quiet = v
  BY <1>0 DEF ReqRecord
<1>3. /\ q \in ReqRecord /\ q.pc = "index" /\ q.key = NoKey /\ (q.quiet => sync = IdleSync)
  BY Zenon, <1>a, <1>1
<1> HIDE DEF q
<1>4. RequestOk(q)
  BY <1>3 DEF RequestOk
<1>5. UNCHANGED <<store, sync>>
  BY Zenon DEF Start
<1>6. q.pc = "rule" <=> q.key # NoKey
  BY <1>3
<1> QED
  BY Zenon, <1>2, <1>3, <1>4, <1>5, <1>6, ReqStep

LEMMA ReadIndexStep ==
    ASSUME StoreType, SyncInv, ReqType, ReqInv, NEW r \in Request, ReadIndex(r)
    PROVE  ReqType' /\ ReqInv'
<1>1. req \in [Request -> ReqRecord] /\ req[r] \in ReqRecord /\ req[r].pc = "index" /\ req[r].key = NoKey
  BY DEF ReqType, ReadIndex
<1>2. req[r].quiet => sync = IdleSync
  BY Zenon DEF ReqInv, RequestOk
<1>3. UNCHANGED <<store, sync>>
  BY Zenon DEF ReadIndex
<1>4. PICK x \in ReqRecord : x = req[r]
  BY Zenon, <1>1
<1>5. CASE \E k \in Indexed(x.url, x.method) : req' = [req EXCEPT ![r].pc = "rule", ![r].key = k]
  <2>1. PICK k \in Indexed(x.url, x.method) : req' = [req EXCEPT ![r].pc = "rule", ![r].key = k]
    BY Zenon, <1>5
  <2>2. k \in Key /\ k # NoKey
    <3>1. x.url \in URL /\ x.method \in Method
      BY DEF ReqRecord
    <3>2. <<x.url, x.method>> \in Slot /\ <<x.url, AnyMethod>> \in Slot
      BY <3>1, ContentAssumption DEF Slot
    <3>3. \A s \in Slot : \A j \in normalIndexes[s] : j \in Key
      BY Zenon DEF StoreType
    <3>4. k \in Key
      BY Zenon, <3>2, <3>3 DEF Indexed
    <3> QED
      BY Zenon, <3>4, NoValueAssumption
  <2> DEFINE q == [x EXCEPT !.pc = "rule", !.key = k]
  <2>3. req' = [req EXCEPT ![r] = q]
    BY <1>1, <1>4, <2>1
  <2>4. q \in ReqRecord /\ q.pc = "rule" /\ q.key = k /\ q.url = x.url /\ q.method = x.method /\ q.quiet = x.quiet
    BY <2>2 DEF ReqRecord
  <2> HIDE DEF q
  <2>5. RequestOk(q)
    BY <1>2, <1>4, <2>4 DEF RequestOk
  <2>6. q.pc = "rule" <=> q.key # NoKey
    BY <2>2, <2>4
  <2> QED
    BY Zenon, <1>3, <2>3, <2>4, <2>5, <2>6, ReqStep
<1>6. CASE Indexed(x.url, x.method) = {} /\ req' = [req EXCEPT ![r].pc = "regexp"]
  <2> DEFINE q == [x EXCEPT !.pc = "regexp"]
  <2>3. req' = [req EXCEPT ![r] = q]
    BY <1>1, <1>4, <1>6
  <2>4. q \in ReqRecord /\ q.pc = "regexp" /\ q.key = NoKey /\ q.url = x.url /\ q.method = x.method /\ q.quiet = x.quiet
    BY <1>1, <1>4 DEF ReqRecord
  <2> HIDE DEF q
  <2>5. RequestOk(q)
    BY <1>2, <1>4, <1>6, <2>4 DEF RequestOk
  <2>6. q.pc = "rule" <=> q.key # NoKey
    BY <2>4
  <2> QED
    BY Zenon, <1>3, <2>3, <2>4, <2>5, <2>6, ReqStep
<1> QED
  BY Zenon, <1>4, <1>5, <1>6 DEF ReadIndex

(* A verdict that the rules admit, if the request is quiet.                *)
LEMMA AnswerStep ==
    ASSUME ReqType, ReqInv, UNCHANGED <<store, sync>>, NEW r \in Request, NEW v \in BOOLEAN,
           req' = [req EXCEPT ![r].pc = "done", ![r].key = NoKey, ![r].allowed = v],
           req[r].quiet => Admitted(v, req[r].url, req[r].method)
    PROVE  ReqType' /\ ReqInv'
<1>1. req \in [Request -> ReqRecord] /\ req[r] \in ReqRecord
  BY Zenon DEF ReqType
<1>2. req[r].quiet => sync = IdleSync
  BY Zenon DEF ReqInv, RequestOk
<1>4. PICK x \in ReqRecord : x = req[r]
  BY Zenon, <1>1
<1> DEFINE q == [x EXCEPT !.pc = "done", !.key = NoKey, !.allowed = v]
<1>5. req' = [req EXCEPT ![r] = q]
  BY <1>1, <1>4
<1>6. /\ q \in ReqRecord /\ q.pc = "done" /\ q.key = NoKey /\ q.allowed = v
      /\ q.url = x.url /\ q.method = x.method /\ q.quiet = x.quiet
  BY DEF ReqRecord
<1> HIDE DEF q
<1>7. RequestOk(q)
  <2>1. q.pc \notin {"rule", "regexp", "default"}
    BY <1>6
  <2> QED
    BY Zenon, <1>2, <1>4, <1>6, <2>1 DEF RequestOk
<1>8. q.pc = "rule" <=> q.key # NoKey
  BY <1>6
<1> QED
  BY Zenon, <1>5, <1>6, <1>7, <1>8, ReqStep

LEMMA ReadRuleStep ==
    ASSUME StoreType, SyncInv, ReqType, ReqInv, NEW r \in Request, ReadRule(r)
    PROVE  ReqType' /\ ReqInv'
<1>1. /\ req \in [Request -> ReqRecord] /\ req[r] \in ReqRecord /\ req[r].pc = "rule"
      /\ req[r].url \in URL /\ req[r].method \in Method
  BY DEF ReqType, ReadRule, ReqRecord
<1>2. UNCHANGED <<store, sync>>
  BY Zenon DEF ReadRule
<1>3. req[r].quiet => sync = IdleSync /\ req[r].key \in Indexed(req[r].url, req[r].method)
  BY Zenon, <1>1 DEF ReqInv, RequestOk
<1>4. PICK v \in BOOLEAN : v = (rules[req[r].key].type = "WHITELIST")
  BY Zenon
<1>5. req[r].quiet => rules[req[r].key] # NoRule /\ v \in Verdicts(Configured, req[r].url, req[r].method)
  BY Zenon, <1>1, <1>3, <1>4, RuleDecides
<1>6. CASE rules[req[r].key] = NoRule
  <2>1. PICK x \in ReqRecord : x = req[r]
    BY Zenon, <1>1
  <2> DEFINE q == [x EXCEPT !.pc = "regexp", !.key = NoKey]
  <2>2. req' = [req EXCEPT ![r].pc = "regexp", ![r].key = NoKey]
    BY Zenon, <1>6 DEF ReadRule
  <2>3. req' = [req EXCEPT ![r] = q]
    BY <1>1, <2>1, <2>2
  <2>4. q \in ReqRecord /\ q.pc = "regexp" /\ q.key = NoKey /\ q.quiet = x.quiet
    BY DEF ReqRecord
  <2> HIDE DEF q
  <2>5. RequestOk(q)
    BY Zenon, <1>5, <1>6, <2>1, <2>4 DEF RequestOk
  <2>6. q.pc = "rule" <=> q.key # NoKey
    BY <2>4
  <2> QED
    BY Zenon, <1>2, <2>3, <2>4, <2>5, <2>6, ReqStep
<1>7. CASE rules[req[r].key] # NoRule
  <2>1. req' = [req EXCEPT ![r].pc = "done", ![r].key = NoKey, ![r].allowed = v]
    BY Zenon, <1>4, <1>7 DEF ReadRule, Answer
  <2> QED
    BY Zenon, <1>2, <1>5, <2>1, AnswerStep DEF Admitted
<1> QED
  BY Zenon, <1>6, <1>7

LEMMA ReadRegexpsStep ==
    ASSUME StoreType, SyncInv, ReqType, ReqInv, NEW r \in Request, ReadRegexps(r)
    PROVE  ReqType' /\ ReqInv'
<1>1. /\ req \in [Request -> ReqRecord] /\ req[r] \in ReqRecord /\ req[r].pc = "regexp" /\ req[r].key = NoKey
      /\ req[r].url \in URL /\ req[r].method \in Method
  BY DEF ReqType, ReadRegexps, ReqRecord
<1>2. UNCHANGED <<store, sync>>
  BY Zenon DEF ReadRegexps
<1>3. req[r].quiet => sync = IdleSync /\ Indexed(req[r].url, req[r].method) = {}
  BY Zenon, <1>1 DEF ReqInv, RequestOk
<1> DEFINE found == {p \in UNION {regexpIndexes[k] : k \in Key} : Matches(p, req[r].url, req[r].method)}
<1>4. \/ \E p \in found : Answer(r, p.type = "WHITELIST")
      \/ found = {} /\ req' = [req EXCEPT ![r].pc = "default"]
  BY Zenon DEF ReadRegexps
<1>5. \A p \in found : Matches(p, req[r].url, req[r].method) /\ \E k \in Key : p \in regexpIndexes[k]
  BY Zenon
<1>6. found = {} => \A k \in Key : \A p \in regexpIndexes[k] : ~Matches(p, req[r].url, req[r].method)
  BY Zenon
<1> HIDE DEF found
<1>7. ASSUME NEW p \in found, Answer(r, p.type = "WHITELIST") PROVE ReqType' /\ ReqInv'
  <2>1. PICK v \in BOOLEAN : v = (p.type = "WHITELIST")
    BY Zenon
  <2>2. req' = [req EXCEPT ![r].pc = "done", ![r].key = NoKey, ![r].allowed = v]
    BY Zenon, <1>7, <2>1 DEF Answer
  <2>3. PICK k \in Key : p \in regexpIndexes[k] /\ Matches(p, req[r].url, req[r].method)
    BY Zenon, <1>5
  <2>4. req[r].quiet => v \in Verdicts(Configured, req[r].url, req[r].method)
    BY Zenon, <1>1, <1>3, <2>1, <2>3, PatternDecides
  <2> QED
    BY Zenon, <1>2, <2>2, <2>4, AnswerStep DEF Admitted
<1>8. CASE found = {} /\ req' = [req EXCEPT ![r].pc = "default"]
  <2>1. PICK x \in ReqRecord : x = req[r]
    BY Zenon, <1>1
  <2> DEFINE q == [x EXCEPT !.pc = "default"]
  <2>3. req' = [req EXCEPT ![r] = q]
    BY <1>1, <1>8, <2>1
  <2>4. q \in ReqRecord /\ q.pc = "default" /\ q.key = NoKey /\ q.url = x.url /\ q.method = x.method /\ q.quiet = x.quiet
    BY <1>1, <2>1 DEF ReqRecord
  <2> HIDE DEF q
  <2>5. RequestOk(q)
    BY Zenon, <1>3, <1>6, <1>8, <2>1, <2>4 DEF RequestOk
  <2>6. q.pc = "rule" <=> q.key # NoKey
    BY <2>4
  <2> QED
    BY Zenon, <1>2, <2>3, <2>4, <2>5, <2>6, ReqStep
<1> QED
  BY Zenon, <1>4, <1>7, <1>8

LEMMA DefaultStep ==
    ASSUME StoreType, SyncInv, ReqType, ReqInv, NEW r \in Request, Default(r)
    PROVE  ReqType' /\ ReqInv'
<1>1. req[r].pc = "default" /\ req[r].url \in URL /\ req[r].method \in Method
  BY DEF ReqType, Default, ReqRecord
<1>2. UNCHANGED <<store, sync>>
  BY Zenon DEF Default
<1>3. req[r].quiet =>
         /\ sync = IdleSync /\ Indexed(req[r].url, req[r].method) = {}
         /\ \A k \in Key : \A p \in regexpIndexes[k] : ~Matches(p, req[r].url, req[r].method)
  BY Zenon, <1>1 DEF ReqInv, RequestOk
<1>4. PICK v \in BOOLEAN : v = ~\E k \in Key : rules[k] # NoRule /\ rules[k].type = "WHITELIST"
  BY Zenon
<1>5. req' = [req EXCEPT ![r].pc = "done", ![r].key = NoKey, ![r].allowed = v]
  BY Zenon, <1>4 DEF Default, Answer
<1>6. req[r].quiet => Admitted(v, req[r].url, req[r].method)
  BY Zenon, <1>1, <1>3, <1>4, DefaultDecides
<1> QED
  BY Zenon, <1>2, <1>5, <1>6, AnswerStep

-----------------------------------------------------------------------------
(* All steps together.                                                     *)

Inv == TypeOK /\ IndexInv /\ SyncInv /\ ReqInv

LEMMA InvInit == Init => Inv
<1> SUFFICES ASSUME Init PROVE Inv
  BY Zenon
<1>1. EmptyStore
  BY Zenon DEF Init, EmptyStore
<1>2. \A u \in URL : \A m \in Method :
         /\ IdleReq(u, m) \in ReqRecord /\ IdleReq(u, m).quiet = FALSE
         /\ IdleReq(u, m).pc = "idle" /\ IdleReq(u, m).key = NoKey
  BY DEF IdleReq, ReqRecord
<1> DEFINE S == {IdleReq(u, m) : u \in URL, m \in Method}
<1>3. req \in [Request -> S] /\ \A q \in S : \E u \in URL : \E m \in Method : q = IdleReq(u, m)
  BY DEF Init
<1> HIDE DEF S
<1>4. req \in [Request -> ReqRecord]
  <2>1. \A q \in S : q \in ReqRecord
    BY Zenon, <1>2, <1>3
  <2> QED
    BY <1>3, <2>1
<1>5. \A r \in Request : req[r].quiet = FALSE /\ req[r].pc = "idle" /\ req[r].key = NoKey
  <2>1. \A r \in Request : req[r] \in S
    BY Zenon, <1>3
  <2>2. \A q \in S : q.quiet = FALSE /\ q.pc = "idle" /\ q.key = NoKey
    BY <1>2, <1>3
  <2> QED
    BY Zenon, <2>1, <2>2
<1>6. ReqType
  BY <1>4, <1>5 DEF ReqType
<1>7. ReqInv
  BY Zenon, <1>5 DEF ReqInv, RequestOk
<1> QED
  BY Zenon, <1>1, <1>6, <1>7, EmptyInv DEF Inv, TypeOK

(* A Sync call begins: every request has been told.                        *)
LEMMA DisturbedReq ==
    ASSUME ReqType, req' = Disturbed
    PROVE  ReqType' /\ ReqInv'
<1>1. req \in [Request -> ReqRecord]
  BY Zenon DEF ReqType
<1>2. ASSUME NEW r \in Request
      PROVE  /\ req'[r] \in ReqRecord /\ req'[r].quiet = FALSE
             /\ req'[r].pc = req[r].pc /\ req'[r].key = req[r].key
  <2>1. PICK x \in ReqRecord : x = req[r]
    BY Zenon, <1>1
  <2>2. req'[r] = [x EXCEPT !.quiet = FALSE]
    BY Zenon, <2>1 DEF Disturbed
  <2>3. /\ [x EXCEPT !.quiet = FALSE] \in ReqRecord /\ [x EXCEPT !.quiet = FALSE].quiet = FALSE
        /\ [x EXCEPT !.quiet = FALSE].pc = x.pc /\ [x EXCEPT !.quiet = FALSE].key = x.key
    BY DEF ReqRecord
  <2> QED
    BY Zenon, <2>1, <2>2, <2>3
<1>3. req' \in [Request -> ReqRecord]
  <2>1. req' = [r \in Request |-> req'[r]]
    BY Zenon DEF Disturbed
  <2> QED
    BY <1>2, <2>1
<1>4. ReqType'
  BY Zenon, <1>2, <1>3 DEF ReqType
<1>5. ReqInv'
  BY Zenon, <1>2 DEF ReqInv, RequestOk
<1> QED
  BY Zenon, <1>4, <1>5

(* While one is under way no request is quiet.                             *)
LEMMA BusyReq ==
    ASSUME ReqType, ReqInv, sync # IdleSync, UNCHANGED req
    PROVE  ReqType' /\ ReqInv'
<1>1. \A r \in Request : ~req[r].quiet
  BY Zenon DEF ReqInv, RequestOk
<1> QED
  BY Zenon, <1>1 DEF ReqType, ReqInv, RequestOk

LEMMA SyncCall ==
    ASSUME Inv, (\E c \in Config : SyncUpdate(c)) \/ (\E b \in Breaker : SyncDelete(b))
    PROVE  Inv'
<1> USE DEF Inv, TypeOK
<1>1. ASSUME NEW c \in Config, SyncUpdate(c) PROVE Inv'
  <2> DEFINE del == IF breakerMap[c.name] = NoConfig THEN <<>> ELSE Keys(breakerMap[c.name])
  <2>1. c.name \in Breaker /\ c # NoConfig
    BY Zenon, InterceptsType, NoValueAssumption
  <2>2. del \in Seq(Key) /\ KeyedRules(c) \in Seq([key : Key, rule : Rule])
    <3>1. breakerMap[c.name] # NoConfig => Keys(breakerMap[c.name]) \in Seq(Key)
      BY Zenon, <2>1, ConfigKeys DEF StoreType
    <3>2. del \in Seq(Key)
      BY <3>1
    <3> QED
      BY Zenon, <3>2, ConfigKeys
  <2>3. sync' = [del |-> del, add |-> KeyedRules(c), writing |-> FALSE]
    BY Zenon, <1>1 DEF SyncUpdate, IdleSync
  <2> HIDE DEF del
  <2>4. SyncType' /\ sync'.del = del /\ sync'.add = KeyedRules(c)
    BY <2>2, <2>3 DEF SyncType
  <2>5. StoreType'
    BY Zenon, <1>1, <2>1 DEF SyncUpdate, StoreType
  <2>6. SyncInv' /\ IndexInv'
    <3>1. /\ sync = IdleSync /\ UNCHANGED <<rules, normalIndexes, regexpIndexes>>
          /\ breakerMap' = [breakerMap EXCEPT ![c.name] = c]
      BY Zenon, <1>1 DEF SyncUpdate
    <3> QED
      BY Zenon, <2>1, <2>4, <3>1, SyncTakesUp DEF del
  <2>7. ReqType' /\ ReqInv'
    BY Zenon, <1>1, DisturbedReq DEF SyncUpdate
  <2> QED
    BY Zenon, <2>4, <2>5, <2>6, <2>7
<1>2. ASSUME NEW b \in Breaker, SyncDelete(b) PROVE Inv'
  <2>1. Keys(breakerMap[b]) \in Seq(Key)
    BY Zenon, <1>2, ConfigKeys DEF SyncDelete, StoreType
  <2>2. sync' = [del |-> Keys(breakerMap[b]), add |-> <<>>, writing |-> FALSE]
    BY Zenon, <1>2 DEF SyncDelete, IdleSync
  <2>3. SyncType' /\ sync'.del = Keys(breakerMap[b]) /\ sync'.add = <<>>
    BY <2>1, <2>2 DEF SyncType
  <2>4. StoreType'
    BY Zenon, <1>2 DEF SyncDelete, StoreType
  <2>5. SyncInv' /\ IndexInv'
    <3>1. /\ sync = IdleSync /\ UNCHANGED <<rules, normalIndexes, regexpIndexes>>
          /\ breakerMap' = [breakerMap EXCEPT ![b] = NoConfig] /\ breakerMap[b] # NoConfig
      BY Zenon, <1>2 DEF SyncDelete
    <3> QED
      BY Zenon, <2>3, <3>1, SyncTakesUp
  <2>6. ReqType' /\ ReqInv'
    BY Zenon, <1>2, DisturbedReq DEF SyncDelete
  <2> QED
    BY Zenon, <2>3, <2>4, <2>5, <2>6
<1> QED
  BY Zenon, <1>1, <1>2

LEMMA SyncStep ==
    ASSUME Inv, BeginWrite \/ DeleteRule \/ CreateOrUpdateRule
    PROVE  Inv'
<1> USE DEF Inv, TypeOK
<1>0. sync # IdleSync /\ UNCHANGED req
  <2>1. sync.del # <<>> \/ sync.add # <<>> \/ sync.writing = TRUE
    BY Zenon DEF BeginWrite, DeleteRule, CreateOrUpdateRule
  <2>2. IdleSync.del = <<>> /\ IdleSync.add = <<>> /\ IdleSync.writing = FALSE
    BY DEF IdleSync
  <2> QED
    BY Zenon, <2>1, <2>2 DEF BeginWrite, DeleteRule, CreateOrUpdateRule
<1>1. ReqType' /\ ReqInv'
  BY Zenon, <1>0, BusyReq
<1>2. CASE BeginWrite
  <2>1. SyncType' /\ sync'.del = sync.del /\ sync'.add = sync.add
    BY <1>2 DEF BeginWrite, SyncType
  <2>2. UNCHANGED store
    BY Zenon, <1>2 DEF BeginWrite
  <2>3. StoreType'
    BY Zenon, <2>2 DEF StoreType, store
  <2> QED
    BY Zenon, <1>1, <2>1, <2>2, <2>3, SyncQuiet
<1>3. CASE DeleteRule
  <2>1. sync.del \in Seq(Key) /\ sync.del # <<>>
    BY Zenon, <1>3 DEF DeleteRule, SyncType
  <2>2. Tail(sync.del) \in Seq(Key)
    BY <2>1
  <2>3. SyncType'
    BY <1>3, <2>2 DEF DeleteRule, SyncType
  <2> QED
    BY Zenon, <1>1, <1>3, <2>3, IndexInvNext, SyncDeletes
<1>4. CASE CreateOrUpdateRule
  <2> DEFINE S == [key : Key, rule : Rule]
  <2>1. sync.add \in Seq(S) /\ sync.add # <<>>
    BY Zenon, <1>4 DEF CreateOrUpdateRule, SyncType
  <2> HIDE DEF S
  <2>2. Tail(sync.add) \in Seq(S)
    BY <2>1
  <2>3. sync \in [del : Seq(Key), add : Seq(S), writing : BOOLEAN]
    BY Zenon DEF SyncType, S
  <2>4. sync' \in [del : Seq(Key), add : Seq(S), writing : BOOLEAN]
    BY <1>4, <2>2, <2>3 DEF CreateOrUpdateRule
  <2>5. SyncType'
    BY Zenon, <2>4 DEF SyncType, S
  <2> QED
    BY Zenon, <1>1, <1>4, <2>5, IndexInvNext, SyncAdds
<1> QED
  BY Zenon, <1>2, <1>3, <1>4

LEMMA RequestStep ==
    ASSUME Inv, NEW r \in Request,
           \/ \E u \in URL, m \in Method : Start(r, u, m)
           \/ ReadIndex(r) \/ ReadRule(r) \/ ReadRegexps(r) \/ Default(r)
    PROVE  Inv'
<1> USE DEF Inv, TypeOK
<1>1. UNCHANGED <<store, sync>>
  BY Zenon DEF Start, ReadIndex, ReadRule, ReadRegexps, Default
<1>2. StoreType' /\ SyncType'
  BY Zenon, <1>1 DEF StoreType, SyncType, store
<1>3. SyncInv' /\ IndexInv'
  BY Zenon, <1>1, SyncQuiet
<1>4. ReqType' /\ ReqInv'
  BY Zenon, StartStep, ReadIndexStep, ReadRuleStep, ReadRegexpsStep, DefaultStep
<1> QED
  BY Zenon, <1>2, <1>3, <1>4

LEMMA FatalStep ==
    ASSUME Inv, NEW r \in Request, FatalError(r)
    PROVE  Inv'
<1> USE DEF Inv, TypeOK
<1>1. EmptyStore'
  BY Zenon DEF FatalError, EmptyStore
<1>2. StoreType' /\ SyncType' /\ IndexInv' /\ SyncInv'
  BY <1>1, EmptyInv, PTL
<1>3. req' = [p \in Request |-> IdleReq(req[p].url, req[p].method)]
  BY Zenon DEF FatalError
<1>4. ASSUME NEW p \in Request
      PROVE  /\ req'[p] \in ReqRecord /\ req'[p].quiet = FALSE
             /\ req'[p].pc = "idle" /\ req'[p].key = NoKey
  <2>1. req[p].url \in URL /\ req[p].method \in Method
    BY DEF ReqType, ReqRecord
  <2>2. req'[p] = IdleReq(req[p].url, req[p].method)
    BY Zenon, <1>3
  <2> QED
    BY <2>1, <2>2 DEF IdleReq, ReqRecord
<1>5. req' \in [Request -> ReqRecord]
  <2>1. req' = [p \in Request |-> req'[p]]
    BY Zenon, <1>3
  <2> QED
    BY <1>4, <2>1
<1>6. ReqType'
  BY <1>4, <1>5 DEF ReqType
<1>7. ReqInv'
  BY Zenon, <1>4 DEF ReqInv, RequestOk
<1> QED
  BY Zenon, <1>2, <1>6, <1>7

LEMMA InvNext == Inv /\ [Next]_vars => Inv'
<1> SUFFICES ASSUME Inv, [Next]_vars PROVE Inv'
  BY Zenon
<1>1. CASE UNCHANGED vars
  <2>1. UNCHANGED store /\ UNCHANGED sync /\ UNCHANGED req
    BY Zenon, <1>1 DEF vars, store
  <2>2. IndexInv' /\ SyncInv'
    BY Zenon, <2>1, SyncQuiet DEF Inv
  <2>3. TypeOK'
    BY Zenon, <2>1 DEF Inv, TypeOK, StoreType, SyncType, ReqType, store
  <2>4. ReqInv'
    <3>1. \A v, u, m : Admitted(v, u, m)' <=> Admitted(v, u, m)
      <4>1. \A b, n : RuleOf(b, n)' = RuleOf(b, n)
        BY Zenon, <1>1 DEF RuleOf, vars
      <4>2. Configured' = Configured
        BY <4>1 DEF Configured
      <4>3. WhitelistLeft' <=> WhitelistLeft
        BY Zenon, <1>1, <4>1 DEF WhitelistLeft, vars
      <4> QED
        BY Zenon, <4>2, <4>3 DEF Admitted
    <3>2. \A u, m : Indexed(u, m)' = Indexed(u, m)
      BY Zenon, <1>1 DEF Indexed, vars
    <3>3. UNCHANGED <<sync, req, regexpIndexes>>
      BY Zenon, <1>1 DEF vars
    <3> QED
      BY Zenon, <3>1, <3>2, <3>3 DEF Inv, ReqInv, RequestOk
  <2> QED
    BY Zenon, <2>2, <2>3, <2>4 DEF Inv
<1> QED
  BY Zenon, <1>1, SyncCall, SyncStep, RequestStep, FatalStep DEF Next

(* Once a Sync call is through, whatever it found in the store, the two    *)
(* indexes hold what the configured rules put there and nothing of rules   *)
(* replaced or deleted (createOrUpdateRule, deleteRule, deleteFromIndex).  *)
THEOREM IndexesCorrect == Spec => [](TypeOK /\ IndexesMatchConfig)
<1>1. Inv => TypeOK /\ IndexesMatchConfig
  <2> SUFFICES ASSUME Inv, sync = IdleSync, NEW b \in Breaker, NEW n \in Name
               PROVE  /\ At(<<b, n>>) = IF RuleOf(b, n) = NoRule THEN {} ELSE Slots(RuleOf(b, n))
                      /\ regexpIndexes[<<b, n>>] = IF RuleOf(b, n) = NoRule THEN {} ELSE Patterns(RuleOf(b, n))
    BY Zenon DEF Inv, IndexesMatchConfig, At
  <2>1. Has(<<b, n>>, RuleOf(b, n))
    BY Zenon, Stored DEF Inv, TypeOK
  <2> QED
    BY Zenon, <2>1 DEF Has
<1> QED
  BY <1>1, InvInit, InvNext, PTL DEF Spec

(* A request that no Sync call overlaps gets a verdict that the configured *)
(* rules admit, in the order of ValidateTrafficIntercept, whatever Sync    *)
(* did before.  White lists that deleteRule has left in the rules map can  *)
(* only deny a request that no configured rule mentions.                   *)
THEOREM VerdictCorrect == Spec => []VerdictByConfig
<1>1. Inv => VerdictByConfig
  BY Zenon DEF Inv, ReqInv, RequestOk, VerdictByConfig
<1> QED
  BY <1>1, InvInit, InvNext, PTL DEF Spec
=============================================================================
