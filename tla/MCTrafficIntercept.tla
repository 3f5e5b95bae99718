------------------------- MODULE MCTrafficIntercept -------------------------
(* Instances of TrafficIntercept for TLC.                                  *)
EXTENDS TrafficIntercept, TLC

V == INSTANCE RuleConversion WITH Nil <- NoRule

R(type, content, contents, methods) ==
    [interceptType |-> type, contentType |-> content, contents |-> contents, methods |-> methods]
I(name, rule) == [name |-> name] @@ rule
C(name, intercepts) == V!TrafficInterceptRules([name |-> name, trafficInterceptRules |-> intercepts])

(* The expression re matches both URLs; u1 matches itself; bad does not    *)
(* compile.                                                                *)
MatchedBy == [c \in Content |-> IF c = "re" THEN URL ELSE {c} \cap URL]

(* A type that is not written, or not known, is the first of its kind.     *)
White == R("", "normal", {"u1"}, {"GET"})
Black == R("Blacklist", "Normal", {"u1", "u2"}, {"*"})
BlackPattern == R("Blacklist", "Regexp", {"re", "bad"}, {"GET"})
WhitePattern == R("Whitelist", "Regexp", {"u2"}, {"GET", "*"})

(* The rules of b1 are renamed, change their content type, share a name    *)
(* and go away; those of b2 only change.                                   *)
EditedConfigs ==
    {C("b1", <<I("n1", White), I("n2", BlackPattern)>>),
     C("b1", <<I("n2", Black), I("n2", WhitePattern)>>),
     C("b1", <<I("n1", BlackPattern), I("n1", Black)>>)}

AllConfigs ==
    EditedConfigs \cup
    {C("b2", <<I("n1", BlackPattern)>>),
     C("b2", <<I("n1", Black)>>)}
=============================================================================
