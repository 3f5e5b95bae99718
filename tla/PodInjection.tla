---------------------------- MODULE PodInjection ----------------------------
(***************************************************************************)
(* The mutating webhook of pods (pkg/webhook/pod).  A pod that asks for    *)
(* the proxy gets the proxy container of the one ShardingConfig that       *)
(* selects it.  Without iptables the containers of the operator are turned *)
(* to the proxy by a fake kubeconfig, which the handler keeps in a         *)
(* ConfigMap that it creates itself.                                       *)
(*                                                                         *)
(* A container is [name, mounts, args, env]: its mounts are pairs of a     *)
(* volume and a path, its arguments and values say which kubeconfig they   *)
(* name.  Images, resources, probes and ports are left out.                *)
(***************************************************************************)
EXTENDS Naturals, Sequences, SequencesExt, FiniteSets

CONSTANTS
    Nil,
    Pods,         \* the pods that are created
    Asked,        \* what the pods may ask for: a set of functions on Pods
    ConfigSets,   \* the ShardingConfigs there may be: [name, root, selects, webhook]
    SyncKeys,     \* AllProxySyncEnvKey: the variables the proxy shares
    MaxConfigEdits

VARIABLES
    configs,      \* the ShardingConfigs of the namespace
    fakeMap,      \* whether the ConfigMap of the fake kubeconfig exists
    admission,    \* admission[p]: what was asked, the pod p, how far its admission is
    configEdits

injectVars == <<configs, fakeMap, admission, configEdits>>

Fake == "fake-kubeconfig"
FakePath == "/etc/kubernetes/kubeconfig"
Mount(v, path) == [volume |-> v, path |-> path]
Var(k, v) == [name |-> k, value |-> v]
ElementsOf(s) == {s[i] : i \in DOMAIN s}
OnEach(Op(_), s) == [i \in DOMAIN s |-> Op(s[i])]

-----------------------------------------------------------------------------
(* What the handler reads off the containers.                              *)
Has(c, k) == \E e \in ElementsOf(c.env) : e.name = k

GetContainerEnvVar(c, k) == SelectSeq(c.env, LAMBDA e : e.name = k)[1]

(* The first container with the variable decides.                          *)
getEnv(pod, k) ==
    LET with == SelectSeq(pod.containers, LAMBDA c : Has(c, k))
    IN  IF with = <<>> THEN <<>> ELSE <<GetContainerEnvVar(with[1], k)>>

getEnvFromAnno(pod) ==
    FlattenSeq([i \in DOMAIN pod.envSync |->
        IF pod.envSync[i].value # Nil THEN <<pod.envSync[i]>>
        ELSE getEnv(pod, pod.envSync[i].name)])

HostPortConflict(pod) ==
    \E i, j \in DOMAIN pod.containers :
        /\ Has(pod.containers[i], "HOST")
        /\ Has(pod.containers[j], "HOST")
        /\ GetContainerEnvVar(pod.containers[i], "HOST")
              # GetContainerEnvVar(pod.containers[j], "HOST")

getVolumeMountsWithDir(pod, dir) ==
    FlattenSeq([i \in DOMAIN pod.containers |->
        SelectSeq(pod.containers[i].mounts, LAMBDA m : m.path = dir)])

-----------------------------------------------------------------------------
(* What it changes.                                                        *)
Mounts(c, v) == \E m \in ElementsOf(c.mounts) : m.volume = v

(* With the label that disables the argument the loop ends before it finds *)
(* one, and the argument is appended.                                      *)
FakeArgs(args, disabled) ==
    IF ~disabled /\ \E a \in ElementsOf(args) : a.flag = "kubeconfig"
    THEN [i \in DOMAIN args |-> IF args[i].flag = "kubeconfig"
                                THEN [args[i] EXCEPT !.value = Fake] ELSE args[i]]
    ELSE Append(args, [flag |-> "kubeconfig", value |-> Fake])

FakeEnv(env, disabled) ==
    CASE disabled -> env
      [] \E e \in ElementsOf(env) : e.name = "KUBECONFIG" ->
            [i \in DOMAIN env |-> IF env[i].name = "KUBECONFIG"
                                  THEN Var("KUBECONFIG", Fake) ELSE env[i]]
      [] OTHER -> Append(env, Var("KUBECONFIG", Fake))

FakeVolumeConflict(pod) ==
    \E v \in ElementsOf(pod.volumes) : v.name = Fake /\ v.source # Fake

(* Mutant: the kubeconfig is named and not mounted.                        *)
MutMountFakeKubeConfig(pod) ==
    [pod EXCEPT !.containers = OnEach(LAMBDA c :
        [c EXCEPT !.args = FakeArgs(c.args, pod.noArg),
                  !.env = FakeEnv(c.env, pod.noEnv)], @)]

mountFakeKubeConfig(pod) ==
    [pod EXCEPT
        !.volumes = IF \E v \in ElementsOf(@) : v.name = Fake
                    THEN @ ELSE Append(@, [name |-> Fake, source |-> Fake]),
        !.containers = OnEach(LAMBDA c :
            [c EXCEPT !.mounts = IF Mounts(c, Fake) THEN @
                                 ELSE Append(@, Mount(Fake, FakePath)),
                      !.args = FakeArgs(c.args, pod.noArg),
                      !.env = FakeEnv(c.env, pod.noEnv)], @)]

(* pickVolume shifts the mounts of a copy of the container: the container  *)
(* keeps its length, and so its last mount twice.                          *)
pickVolume(c, v) ==
    IF ~Mounts(c, v) THEN c
    ELSE LET i == SelectInSeq(c.mounts, LAMBDA m : m.volume = v)
         IN  [c EXCEPT !.mounts = Append(RemoveAt(@, i), Last(@))]

(* mergeContainerEnvs, for the one variable of the annotation env-inject.  *)
mergeContainerEnvs(c, e) ==
    IF ~Has(c, e.name) THEN [c EXCEPT !.env = Append(@, e)]
    ELSE LET i == SelectInSeq(c.env, LAMBDA x : x.name = e.name)
         IN  [c EXCEPT !.env[i].value = e.value]

injectEnv(pod) ==
    [pod EXCEPT !.containers = OnEach(LAMBDA c :
        IF pod.envInject # Nil /\ pod.envInject.container = c.name
        THEN mergeContainerEnvs(c, pod.envInject.var) ELSE c, @)]

(* A container that mounts something at the path names the volume to use.  *)
mountLogVolume(pod) ==
    LET at == getVolumeMountsWithDir(pod, pod.logPath)
        v == IF at = <<>> THEN "app-shared-logs" ELSE at[1].volume
    IN  [pod EXCEPT
            !.volumes = IF at # <<>> \/ \E x \in ElementsOf(@) : x.name = v
                        THEN @ ELSE Append(@, [name |-> v, source |-> "emptyDir"]),
            !.containers = OnEach(LAMBDA c :
                [c EXCEPT !.mounts = IF Mounts(c, v) THEN @
                                     ELSE Append(@, Mount(v, pod.logPath))], @)]

(* The proxy container of the matched config.                              *)
ProxyContainer(pod, shared, cfg) ==
    [name |-> "proxy", args |-> <<>>,
     env |-> (IF pod.iptables THEN <<Var("IPTABLE", "true")>> ELSE <<>>)
                 \o getEnvFromAnno(pod) \o getEnv(pod, "HOST") \o shared,
     mounts |-> IF cfg.webhook
                THEN <<getVolumeMountsWithDir(pod, "/certs")[1]>> ELSE <<>>]

WithKubeconfig(c, v) ==
    [c EXCEPT !.args = Append(@, [flag |-> "kubeconfig", value |-> v]),
              !.mounts = Append(@, Mount(v, FakePath))]

(* The containers of the operator are turned to the proxy first, and only  *)
(* then the proxy is put before them.                                      *)
Inject(pod, cfg) ==
    LET faked == IF pod.iptables THEN pod ELSE mountFakeKubeConfig(pod)
        shared == FlattenSeq([i \in DOMAIN SyncKeys |-> getEnv(faked, SyncKeys[i])])
        plain == ProxyContainer(pod, shared, cfg)
        proxy == IF pod.kubeVolume = Nil THEN plain
                 ELSE WithKubeconfig(plain, pod.kubeVolume)
        picked == OnEach(LAMBDA c : pickVolume(c, pod.kubeVolume), faked.containers)
        with == injectEnv([faked EXCEPT !.containers = <<proxy>> \o picked,
                                        !.initContainer = pod.iptables,
                                        !.injected = cfg.name])
    IN  IF pod.logPath = Nil THEN with ELSE mountLogVolume(with)

(* What stops the handler after the ConfigMap is there.                    *)
Unfit(pod, cfg) ==
    \/ ~pod.iptables /\ FakeVolumeConflict(pod)
    \/ cfg.webhook /\ Len(getVolumeMountsWithDir(pod, "/certs")) # 1
    \/ \E v \in ElementsOf(pod.volumes) : v.name = pod.kubeVolume /\ v.source \in {"emptyDir", "secret"}

-----------------------------------------------------------------------------
InjectInit ==
    /\ configs \in ConfigSets
    /\ fakeMap \in BOOLEAN
    /\ \E asked \in Asked :
        admission = [p \in Pods |-> [at |-> "new", cfg |-> Nil,
                                     pod |-> asked[p], asked |-> asked[p]]]
    /\ configEdits = 0

To(p, at) == admission' = [admission EXCEPT ![p].at = at]

(* Handle, and injectByShardingConfig up to its first call: the list of    *)
(* the configs.  Roots are skipped.                                        *)
Matching(p) == {c \in configs : ~c.root /\ p \in c.selects}

Handle(p) ==
    LET pod == admission[p].pod
    IN  /\ admission[p].at = "new"
        /\ CASE ~pod.enabled -> To(p, "admitted")
             [] pod.enabled /\ (\/ Cardinality(Matching(p)) # 1
                                \/ pod.hostNetwork
                                \/ HostPortConflict(pod)) -> To(p, "refused")
             [] OTHER -> \E c \in Matching(p) :
                    admission' = [admission EXCEPT
                        ![p].at = IF pod.iptables THEN "inject" ELSE "get",
                        ![p].cfg = c]
        /\ UNCHANGED <<configs, fakeMap, configEdits>>

(* applyFakeConfigMap: the read, and the creation if there was none.  That *)
(* another handler created it in between is not an error.                  *)
GetConfigMap(p) ==
    /\ admission[p].at = "get"
    /\ To(p, IF fakeMap THEN "inject" ELSE "create")
    /\ UNCHANGED <<configs, fakeMap, configEdits>>

CreateConfigMap(p) ==
    /\ admission[p].at = "create"
    /\ fakeMap' = TRUE
    /\ To(p, "inject")
    /\ UNCHANGED <<configs, configEdits>>

injectByShardingConfig(p) ==
    LET pod == admission[p].pod
        cfg == admission[p].cfg
    IN  /\ admission[p].at = "inject"
        /\ IF Unfit(pod, cfg) THEN To(p, "refused")
           ELSE admission' = [admission EXCEPT ![p].at = "admitted",
                                               ![p].pod = Inject(pod, cfg)]
        /\ UNCHANGED <<configs, fakeMap, configEdits>>

(* A call to the API server fails; the kubeconfig of the volume is read    *)
(* after everything else was decided.                                      *)
CallFails(p) ==
    /\ \/ admission[p].at \in {"new", "get", "create"} /\ admission[p].pod.enabled
       \/ admission[p].at = "inject" /\ admission[p].pod.kubeVolume # Nil
    /\ To(p, "failed")
    /\ UNCHANGED <<configs, fakeMap, configEdits>>

(* The configs change: an auto sharding root replaces its children.        *)
EditConfigs ==
    /\ configEdits < MaxConfigEdits
    /\ configEdits' = configEdits + 1
    /\ configs' \in ConfigSets \ {configs}
    /\ UNCHANGED <<fakeMap, admission>>

InjectNext ==
    \/ \E p \in Pods : \/ Handle(p)
                       \/ GetConfigMap(p)
                       \/ CreateConfigMap(p)
                       \/ injectByShardingConfig(p)
                       \/ CallFails(p)
    \/ EditConfigs

InjectSpec == InjectInit /\ [][InjectNext]_injectVars

-----------------------------------------------------------------------------
Injected(p) == admission[p].at = "admitted" /\ admission[p].pod.injected # Nil

Apps(p) == ElementsOf(Tail(admission[p].pod.containers))

(* Every container of the operator in a pod admitted without iptables uses *)
(* the fake kubeconfig wherever it names one, argument and variable, has   *)
(* it mounted, and the ConfigMap behind the mount exists.  Otherwise the   *)
(* operator would pass by its shard.  The labels that disable the argument *)
(* or the variable, and an injected KUBECONFIG, are the user's choice.     *)
Captured ==
    \A p \in Pods : Injected(p) /\ ~admission[p].pod.iptables =>
        /\ fakeMap
        /\ \A c \in Apps(p) :
            /\ Mounts(c, Fake)
            /\ \/ admission[p].pod.noArg
               \/ {a.value : a \in {x \in ElementsOf(c.args) : x.flag = "kubeconfig"}} = {Fake}
            /\ \/ admission[p].pod.noEnv
               \/ {e.value : e \in {x \in ElementsOf(c.env) : x.name = "KUBECONFIG"}} = {Fake}

(* The proxy itself never gets the fake kubeconfig, neither as argument or *)
(* variable nor as mount, whatever is copied to it from the containers: it *)
(* would talk to itself.                                                   *)
ProxyDirect ==
    \A p \in Pods : Injected(p) =>
        LET proxy == Head(admission[p].pod.containers)
        IN  /\ proxy.name = "proxy"
            /\ ~Mounts(proxy, Fake)
            /\ \A x \in ElementsOf(proxy.args) \cup ElementsOf(proxy.env) : x.value # Fake

(* Once its config is found a pod is refused only for what it asks, never  *)
(* because another pod is admitted at the same time.                       *)
NotRefusedByRace ==
    \A p \in Pods : admission[p].at = "refused" /\ admission[p].cfg # Nil =>
        Unfit(admission[p].asked, admission[p].cfg)

(* What the handler makes of a pod: the operator is turned to the proxy,   *)
(* the proxy is not turned to itself, and no race refuses the pod.         *)
InjectedRight == Captured /\ ProxyDirect /\ NotRefusedByRace
=============================================================================
