----------------------------- MODULE RuleLookup -----------------------------
(***************************************************************************)
(* How a request finds its limiting rules (pkg/proxy/circuitbreaker        *)
(* ValidateResource, ValidateRest): the index values it looks up one after *)
(* the other, from the most specific to the most general.  The first that  *)
(* has rules decides.                                                      *)
(*                                                                         *)
(* A resource index value is <<namespace, apiGroup, resource, verb>>.  A   *)
(* rest index value is a URL and a method; the method never changes, so it *)
(* is left out.  A URL is its segments, the first of them scheme and host, *)
(* and what follows the last one.                                          *)
(***************************************************************************)
EXTENDS Integers, Sequences, FiniteSets

CONSTANTS
    Resource,   \* the <<namespace, apiGroup, resource, verb>> of requests
    Word,       \* the words index values of rules are made of
    Segment,    \* segments of URLs
    MaxDepth,   \* bound on the segments of a URL
    Any,        \* "*"
    NoSeed      \* no index value

Seed == (Word \cup {Any}) \X (Word \cup {Any}) \X (Word \cup {Any}) \X (Word \cup {Any})
Url == [path : UNION {[1..n -> Segment] : n \in 1..MaxDepth}, end : {"", "/", "/*"}]

VARIABLES
    kind,       \* "resource" for ValidateResource, "rest" for ValidateRest
    indices,    \* the index values under which the store has rules
    target,     \* what the request asks for
    seeds,      \* the index values not yet looked up
    found       \* the index value whose rules validate the request

vars == <<kind, indices, target, seeds, found>>

(* Mutant: verb before namespace, the other way round.                     *)
generateWildcardSeedsReversed(n, g, r, v) ==
    << <<n, g, r, v>>,
       <<n, g, r, Any>>, <<n, g, Any, v>>, <<n, Any, r, v>>, <<Any, g, r, v>>,
       <<Any, Any, r, v>>, <<Any, g, Any, v>>, <<n, Any, Any, v>>,
       <<Any, g, r, Any>>, <<n, Any, r, Any>>, <<n, g, Any, Any>>,
       <<Any, Any, Any, v>>, <<Any, Any, r, Any>>, <<Any, g, Any, Any>>, <<n, Any, Any, Any>>,
       <<Any, Any, Any, Any>> >>

generateWildcardSeeds(n, g, r, v) ==
    << <<n, g, r, v>>,
       <<Any, g, r, v>>, <<n, Any, r, v>>, <<n, g, Any, v>>, <<n, g, r, Any>>,
       <<Any, Any, r, v>>, <<Any, g, Any, v>>, <<n, Any, Any, v>>,
       <<Any, g, r, Any>>, <<n, Any, r, Any>>, <<n, g, Any, Any>>,
       <<Any, Any, Any, v>>, <<Any, Any, r, Any>>, <<Any, g, Any, Any>>, <<n, Any, Any, Any>>,
       <<Any, Any, Any, Any>> >>

generateWildcardUrls(u) ==
    <<u>> \o [i \in 1..Len(u.path) - 1 |-> [path |-> SubSeq(u.path, 1, Len(u.path) - i), end |-> "/*"]]

-----------------------------------------------------------------------------
InitResource ==
    /\ kind = "resource"
    /\ indices \in {{a, b} : a, b \in Seed}
    /\ target \in Resource
    /\ seeds = generateWildcardSeeds(target[1], target[2], target[3], target[4])
    /\ found = NoSeed

InitRest ==
    /\ kind = "rest"
    /\ indices \in {{a, b} : a, b \in Url}
    /\ target \in {u \in Url : u.end # "/*"}
    /\ seeds = generateWildcardUrls(target)
    /\ found = NoSeed

(* One turn of the loop of ValidateResource or ValidateRest; the loop ends *)
(* at the first index value with rules.                                    *)
LookUp ==
    /\ found = NoSeed /\ seeds # <<>>
    /\ \/ Head(seeds) \in indices /\ found' = Head(seeds) /\ seeds' = <<>>
       \/ Head(seeds) \notin indices /\ seeds' = Tail(seeds) /\ UNCHANGED found
    /\ UNCHANGED <<kind, indices, target>>

Spec == (InitResource \/ InitRest) /\ [][LookUp]_vars

-----------------------------------------------------------------------------
(* properties                                                              *)

Covers(seed, t) == \A i \in 1..4 : seed[i] \in {t[i], Any}

Wildcards(seed) == {i \in 1..4 : seed[i] = Any}

(* The comment of generateWildcardSeeds: "less wildcard number priority    *)
(* higher"; "if wildcard number equal, the priority order is verb >        *)
(* resource > apiGroup > namespace".                                       *)
Prior(s, t) ==
    \/ Cardinality(Wildcards(s)) < Cardinality(Wildcards(t))
    \/ /\ Cardinality(Wildcards(s)) = Cardinality(Wildcards(t))
       /\ \E i \in 1..4 : /\ i \in Wildcards(t) \ Wildcards(s)
                          /\ \A j \in i + 1..4 : j \in Wildcards(s) <=> j \in Wildcards(t)

(* A request is validated by the rules of the index value that the comment *)
(* gives priority among those that cover it, and by none only if no rule   *)
(* covers it.                                                              *)
PriorRuleDecides ==
    kind = "resource" /\ seeds = <<>> =>
        LET covering == {s \in indices : Covers(s, target)}
        IN  IF covering = {} THEN found = NoSeed
            ELSE found \in covering /\ \A s \in covering \ {found} : Prior(found, s)

IsPrefix(p, q) == Len(p) < Len(q) /\ \A i \in 1..Len(p) : p[i] = q[i]

(* A rest request is validated by the rules of its own URL, else by those  *)
(* of the longest prefix that is followed by a wildcard.                   *)
LongestPrefixDecides ==
    kind = "rest" /\ seeds = <<>> =>
        LET wild == {u \in indices : u.end = "/*" /\ IsPrefix(u.path, target.path)}
        IN  IF target \in indices THEN found = target
            ELSE IF wild = {} THEN found = NoSeed
            ELSE found \in wild /\ \A u \in wild : Len(u.path) <= Len(found.path)
=============================================================================
