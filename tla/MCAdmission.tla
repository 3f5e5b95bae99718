---------------------------- MODULE MCAdmission -----------------------------
(***************************************************************************)
(* What the mutating webhooks do to the objects they admit.  The two parts *)
(* share no state; `part` says which of them runs:                         *)
(*   pods     the injection of the proxy into pods        (PodInjection)   *)
(*   labels   the shard labels of namespaces and objects  (ShardLabels)    *)
(***************************************************************************)
EXTENDS PodInjection, ShardLabels

CONSTANTS p1, p2, n1, n2, o1, o2, o3

VARIABLE part

-----------------------------------------------------------------------------
(* A pod of every shape, and a plain one that is admitted beside it.       *)
Own == [flag |-> "kubeconfig", value |-> "own"]
Verbose == [flag |-> "v", value |-> "4"]
Container(n, mounts, args, env) ==
    [name |-> n, mounts |-> mounts, args |-> args, env |-> env]

Logs(v) == Mount(v, "/logs")
Containers ==
    {<<Container("a", <<>>, <<Verbose>>, <<>>)>>,
     <<Container("a", <<Logs("logs"), Mount("certs", "/certs")>>, <<Own, Verbose>>,
                 <<Var("HOST", "h1"), Var("KUBECONFIG", "own")>>),
       Container("b", <<>>, <<>>, <<Var("BREAKER", "off")>>)>>,
     <<Container("a", <<Mount("kube", "/kube"), Mount(Fake, "/fake")>>, <<Own, Own>>, <<>>),
       Container("b", <<Mount("kube", FakePath)>>, <<>>, <<Var("HOST", "h2")>>)>>,
     <<Container("a", <<Logs("kube")>>, <<>>, <<Var("HOST", "h1")>>),
       Container("b", <<Logs("logs")>>, <<>>, <<Var("HOST", "h2")>>)>>}

Volumes == <<[name |-> "kube", source |-> "configMap"], [name |-> "logs", source |-> "emptyDir"],
             [name |-> "certs", source |-> "secret"]>>
VolumeLists ==
    {Volumes, Append(Volumes, [name |-> Fake, source |-> Fake]),
     Append(Volumes, [name |-> Fake, source |-> "emptyDir"])}

Plain ==
    [enabled |-> TRUE, iptables |-> FALSE, noArg |-> FALSE, noEnv |-> FALSE,
     hostNetwork |-> FALSE, kubeVolume |-> Nil, logPath |-> Nil, envSync |-> <<>>,
     envInject |-> Nil, volumes |-> <<>>, initContainer |-> FALSE, injected |-> Nil,
     containers |-> <<Container("a", <<>>, <<>>, <<>>)>>]

Sync == <<Var("KUBECONFIG", Nil), Var("LEVEL", "5")>>
Debug == [container |-> "a", var |-> Var("DEBUG", "1")]

Shapes ==
    {[[Plain EXCEPT !.iptables = x[1], !.noArg = x[2], !.noEnv = x[2], !.kubeVolume = x[3],
         !.logPath = IF x[4] THEN "/logs" ELSE Nil, !.envSync = IF x[4] THEN Sync ELSE <<>>] EXCEPT
         !.envInject = IF x[4] THEN Debug ELSE Nil, !.volumes = x[5], !.containers = x[6]] :
       x \in BOOLEAN \X BOOLEAN \X {Nil, "kube", "logs"} \X BOOLEAN \X VolumeLists \X Containers}
Others ==
    {[Plain EXCEPT !.enabled = FALSE], [Plain EXCEPT !.hostNetwork = TRUE]}

MCPods == {p1, p2}
MCAsked == {[p \in MCPods |-> IF p = p1 THEN s ELSE Plain] : s \in Shapes \cup Others}

Root == [name |-> "root", root |-> TRUE, selects |-> MCPods, webhook |-> FALSE]
Shard(n, ps, hook) == [name |-> n, root |-> FALSE, selects |-> ps, webhook |-> hook]
MCConfigSets ==
    {{Root, Shard("a", {p1}, TRUE), Shard("b", {p2}, FALSE)},
     {Root, Shard("a", MCPods, FALSE)},
     {Shard("a", {p1}, FALSE), Shard("b", MCPods, FALSE)}}
MCSyncKeys == <<"BREAKER">>

-----------------------------------------------------------------------------
(* Two namespaces, one of them a system namespace, and a channel of one    *)
(* item.                                                                   *)
MCNamespace == {n1, n2}
MCObjects == {o1, o2, o3}
MCPlace == [o \in MCObjects |-> CASE o = o1 -> <<n1, "Pod">>
                                  [] o = o2 -> <<n1, "Service">>
                                  [] o = o3 -> <<n2, "Pod">>]

(* Unlabelled, not there yet, labelled by hand, and with labels that are   *)
(* another namespace's.                                                    *)
MCInitialLabels == [n \in MCNamespace |->
    IF n = n2 THEN {None3}
    ELSE {None3, Unset, [None3 EXCEPT !.control = "true"], [None3 EXCEPT !.hash = "other"],
          [All3 EXCEPT !.hash = "other"], [All3 EXCEPT !.control = "false"]}]

(* A list with a "*" after a name, and one that cannot be parsed.          *)
MCResourceConfig == [gv \in {"v1", "a/b/c"} |-> IF gv = "v1" THEN <<"Pod", "*">> ELSE <<"Job">>]

MCServed == [gv \in {"v1"} |-> {"Pod", "Service"}]

-----------------------------------------------------------------------------
AdmissionInit ==
    /\ part \in {"pods", "labels"}
    /\ LabelInit
    /\ part # "labels" => ns = [n \in MCNamespace |-> None3] /\ obj = [o \in MCObjects |-> Unset]
    /\ InjectInit
    /\ part # "pods" => /\ configs = (CHOOSE s \in ConfigSets : TRUE) /\ fakeMap = FALSE
                        /\ ~ admission[p1].asked.enabled

AdmissionNext ==
    \/ part = "pods" /\ InjectNext /\ UNCHANGED <<part, labelVars>>
    \/ part = "labels" /\ LabelNext /\ UNCHANGED <<part, injectVars>>

AdmissionSpec ==
    /\ AdmissionInit /\ [][AdmissionNext]_<<part, injectVars, labelVars>>
    /\ part = "labels" => LabelFairness

(* The runnable of ShardLabels ends, whatever fails.                       *)
LabellingEnds == part = "labels" => PatchEnds
=============================================================================
