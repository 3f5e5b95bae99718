---------------------------- MODULE WebhookCerts ----------------------------
(***************************************************************************)
(* The certificates of the webhooks.  Every replica of ctrlmesh-manager    *)
(* runs the webhook controller (pkg/webhook/util/controller): it makes     *)
(* sure that a Secret holds a valid certificate, writes it to its own      *)
(* directory, from which its server reads it, and puts the CA into the two *)
(* webhook configurations.  cert-generator writes a certificate to a       *)
(* directory that outlives it.                                             *)
(* A certificate is the number of its CA and its own number.               *)
(***************************************************************************)
EXTENDS CertDir

CONSTANTS
    Manager,     \* the replicas of the manager
    Generator,   \* the runs of cert-generator, each for a directory
    Groups,      \* which of them meet; a behaviour is about one group
    Awaited,     \* the managers that wait for their readiness; that of others passes at once
    Disturbance, \* what may go wrong
    MaxEvents,   \* and how often, for each group
    MaxRuns      \* how many certificates cert-generator makes before it gives up

Cert == [ca : Nat, serial : Nat]

ASSUME ProcessAssumption == Process = Manager \cup Generator /\ Manager \cap Generator = {}
ASSUME NilAssumption == Nil \notin Stamp /\ \A v \in {Nil, Partial} : v \notin Cert /\ v \notin Nat

Config == {"mutating", "validating"}

VARIABLES
    secret,      \* the Secret
    ca,          \* ca[c]: the CA in the webhook configuration c
    mgr,         \* mgr[m]: the webhook controller of m
    served,      \* served[m]: the certificate the server of m uses
    expired,     \* the certificates and CAs validCert no longer takes
    made,        \* how many certificates were generated and not discarded
    rotated,     \* the CA had to change, or someone else changed the configurations
    events

certVars == <<dir, writer, secret, ca, mgr, served, expired, made, rotated, events>>

NoSecret == [cert |-> Nil, version |-> 0]
(* main: "setup" until SetupWithManager returns, "waiting" in WaitReady,    *)
(* and "ready" when the controllers of the manager are set up.             *)
Resting == [pc |-> "idle", read |-> NoSecret, seen |-> Nil, queued |-> FALSE, up |-> TRUE, main |-> "setup", checker |-> Nil, torn |-> FALSE]

(* The managers and the generators run in different Pods and never meet.   *)
(* The managers find nothing or what an earlier installation left, with a  *)
(* certificate to be renewed.                                              *)
CertInit ==
    /\ DirInit
    /\ \/ secret = NoSecret /\ ca = [c \in Config |-> Nil] /\ made = 0 /\ expired = {}
       \/ /\ secret = [cert |-> [ca |-> 1, serial |-> 1], version |-> 1] /\ ca = [c \in Config |-> 1]
          /\ made = 1 /\ expired = {<<"cert", 1>>}
    /\ \E present \in Groups :
          /\ mgr = [p \in Process |-> IF p \in present THEN [Resting EXCEPT !.queued = TRUE] ELSE [Resting EXCEPT !.pc = "absent"]]
          /\ events = MaxEvents[present]
    /\ served = [p \in Process |-> Nil] /\ rotated = FALSE

Set(p, f) == mgr' = [mgr EXCEPT ![p] = f]
Disturb(d) == d \in Disturbance /\ events > 0 /\ events' = events - 1

(* validCert looks half a year ahead, and a CA must last a year to sign.   *)
ValidCACert(n) == <<"CA", n>> \notin expired
validCert(c) == c # Nil /\ <<"cert", c.serial>> \notin expired /\ ValidCACert(c.ca)

NewSignedCert(n) == [ca |-> n, serial |-> made + 1]

(* Mutant: the CA that was read is not used again.                         *)
MutGenerate(old) == NewSignedCert(made + 1)

(* Generate signs with the CA that read found, if it is still good.        *)
Generate(old) == NewSignedCert(IF old # Nil /\ ValidCACert(old.ca) THEN old.ca ELSE made + 1)

(* The version is the API server's.                                        *)
certsToSecret(c) == [cert |-> c, version |-> made + 1]

(* A change of the Secret or a configuration wakes every manager; that the *)
(* Secret is deleted wakes none.                                           *)
Woken == [p \in Process |-> [mgr[p] EXCEPT !.queued = @ \/ (p \in Manager /\ mgr[p].up)]]

-----------------------------------------------------------------------------
(* sync: EnsureCert of the secretCertWriter.                               *)
GoTo(m, pc) == Set(m, [mgr[m] EXCEPT !.pc = pc])

(* Mutant: a failed sync is forgotten.                                     *)
MutFail(m) == [mgr[m] EXCEPT !.pc = "idle", !.seen = Nil]

Fail(m) == [mgr[m] EXCEPT !.pc = "idle", !.seen = Nil, !.queued = TRUE]
StartWriting(m, c) == writer' = [writer EXCEPT ![m] = [Idle EXCEPT !.pc = "begin", !.cert = c]]

ReadSecret(m) ==
    /\ m \in Manager /\ mgr[m].up /\ \/ mgr[m].pc = "idle" /\ mgr[m].queued
                                     \/ mgr[m].pc = "reread"
    /\ LET q == [mgr[m] EXCEPT !.queued = IF mgr[m].pc = "idle" THEN FALSE ELSE @, !.read = secret]
       IN  \/ /\ secret.cert = Nil
              /\ Set(m, IF mgr[m].pc = "reread" THEN Fail(m) ELSE [q EXCEPT !.pc = "create"]) /\ UNCHANGED writer
           \/ /\ validCert(secret.cert) /\ Set(m, [q EXCEPT !.pc = "write"]) /\ StartWriting(m, secret.cert)
           \/ /\ secret.cert # Nil /\ ~ validCert(secret.cert) /\ Set(m, [q EXCEPT !.pc = "overwrite"]) /\ UNCHANGED writer
    /\ UNCHANGED <<dir, secret, ca, served, expired, made, rotated, events>>

(* A racer may have created it; then it is read again.                     *)
CreateSecret(m) ==
    /\ mgr[m].pc = "create"
    /\ IF secret.cert # Nil THEN GoTo(m, "reread") /\ UNCHANGED <<secret, writer, made>>
       ELSE LET c == Generate(Nil) IN
            /\ secret' = certsToSecret(c) /\ made' = made + 1
            /\ mgr' = [Woken EXCEPT ![m].pc = "write"] /\ StartWriting(m, c)
    /\ UNCHANGED <<dir, ca, served, expired, rotated, events>>

OverwriteSecret(m) ==
    /\ mgr[m].pc = "overwrite"
    /\ LET c == Generate(mgr[m].read.cert) IN
       IF secret.version # mgr[m].read.version THEN Set(m, Fail(m)) /\ UNCHANGED <<secret, writer, made>>
       ELSE /\ secret' = certsToSecret(c) /\ made' = made + 1
            /\ mgr' = [Woken EXCEPT ![m].pc = "write"] /\ StartWriting(m, c)
    /\ UNCHANGED <<dir, ca, served, expired, rotated, events>>

(* WriteCertsToDir.                                                        *)
WriteDir(m) ==
    /\ WriteStep(m)
    /\ UNCHANGED <<secret, ca, mgr, served, expired, made, rotated, events>>

WriteDirEnds(m) ==
    /\ m \in Manager /\ mgr[m].pc = "write" /\ writer[m].pc \in {"written", "failed"}
    /\ writer' = [writer EXCEPT ![m] = [Idle EXCEPT !.cert = writer[m].cert]]
    /\ Set(m, IF writer[m].pc = "written" THEN [mgr[m] EXCEPT !.pc = "configs"] ELSE Fail(m))
    /\ UNCHANGED <<dir, secret, ca, served, expired, made, rotated, events>>

(* ensureConfigurations reads both configurations and then updates those   *)
(* that differ, one after the other; an update of one that was changed     *)
(* since is refused.  SetupWithManager waits for the first sync to succeed.*)
GetConfigurations(m) ==
    /\ mgr[m].pc = "configs" /\ Set(m, [mgr[m] EXCEPT !.pc = "mutating", !.seen = ca])
    /\ UNCHANGED <<dir, writer, secret, ca, served, expired, made, rotated, events>>

SetUp(m) == IF m \in Awaited THEN "waiting" ELSE "ready"

EnsureConfiguration(m, c) ==
    /\ mgr[m].pc = c
    /\ LET bundle == writer[m].cert.ca
           seen == mgr[m].seen[c]
           next == IF seen = bundle THEN mgr ELSE Woken
       IN  IF seen # bundle /\ seen # ca[c] THEN Set(m, Fail(m)) /\ UNCHANGED ca
           ELSE /\ ca' = IF seen = bundle THEN ca ELSE [ca EXCEPT ![c] = bundle]
                /\ mgr' = [next EXCEPT ![m].pc = IF c = "mutating" THEN "validating" ELSE "idle",
                                       ![m].seen = IF c = "mutating" THEN @ ELSE Nil,
                                       ![m].main = IF c = "validating" /\ @ = "setup" THEN SetUp(m) ELSE @]
    /\ UNCHANGED <<dir, writer, secret, served, expired, made, rotated, events>>

(* The process ends; the directory of a manager goes with its container.   *)
Exit(p) ==
    /\ Set(p, [Resting EXCEPT !.up = FALSE, !.torn = p \in Generator /\ dir[p].dataTmp # Nil])
    /\ dir' = [dir EXCEPT ![p] = IF p \in Generator THEN @ ELSE EmptyDir]
    /\ writer' = [writer EXCEPT ![p] = Idle] /\ served' = [served EXCEPT ![p] = Nil]

(* A call to the API server fails.                                         *)
CallFails(m) ==
    /\ Disturb("fail") /\ mgr[m].pc \notin {"idle", "write", "absent", "exited"} /\ Set(m, Fail(m))
    /\ UNCHANGED <<dir, writer, secret, ca, served, expired, made, rotated>>

(* The server reads the files again when they change.                      *)
Reload(m) ==
    /\ m \in Manager /\ mgr[m].main # "setup" /\ served[m] # Visible(m)
    /\ served' = [served EXCEPT ![m] = Visible(m)]
    /\ UNCHANGED <<dir, writer, secret, ca, mgr, expired, made, rotated, events>>

(* The readiness check reads the CA once for the life of the process, and  *)
(* then asks the server of the process.  When the controllers are set up   *)
(* it no longer matters to them, and what it read is forgotten.            *)
Checker(m) == IF mgr[m].checker = Nil THEN Visible(m).ca ELSE mgr[m].checker
CheckPasses(m) == served[m] # Nil /\ served[m].ca = Checker(m)

(* main sets up the controllers when the check passes.  It asks every two  *)
(* seconds, and a process whose check still fails after a minute, in which *)
(* its server has started, exits.                                          *)
(* Mutant: it asks forever.                                                *)
MutWaitReady(m) ==
    /\ m \in Manager /\ mgr[m].up /\ mgr[m].main = "waiting"
    /\ Set(m, IF CheckPasses(m) THEN [mgr[m] EXCEPT !.checker = Nil, !.main = "ready"] ELSE [mgr[m] EXCEPT !.checker = Checker(m)])
    /\ UNCHANGED <<dir, writer, secret, ca, served, expired, made, rotated, events>>

WaitReady(m) ==
    /\ m \in Manager /\ mgr[m].up /\ mgr[m].main = "waiting"
    /\ \/ /\ Set(m, IF CheckPasses(m) THEN [mgr[m] EXCEPT !.checker = Nil, !.main = "ready"] ELSE [mgr[m] EXCEPT !.checker = Checker(m)])
          /\ UNCHANGED <<dir, writer, served>>
       \/ ~ CheckPasses(m) /\ mgr[m].checker # Nil /\ served[m] = Visible(m) /\ Exit(m)
    /\ UNCHANGED <<secret, ca, expired, made, rotated, events>>

-----------------------------------------------------------------------------
(* cert-generator: EnsureCert of the fsCertWriter, once.                   *)
RunGenerator(g) ==
    /\ g \in Generator /\ made < MaxRuns /\ mgr[g].up /\ mgr[g].queued /\ mgr[g].pc = "idle"
    /\ IF validCert(Visible(g))
       THEN Set(g, [mgr[g] EXCEPT !.pc = "exited", !.queued = FALSE]) /\ UNCHANGED <<writer, made>>
       ELSE /\ Set(g, [mgr[g] EXCEPT !.pc = "write", !.queued = FALSE])
            /\ made' = made + 1 /\ StartWriting(g, Generate(Nil))
    /\ UNCHANGED <<dir, secret, ca, served, expired, rotated, events>>

(* Its failure is fatal, and the container is started again.               *)
GeneratorEnds(g) ==
    /\ g \in Generator /\ mgr[g].pc = "write" /\ writer[g].pc \in {"written", "failed"}
    /\ writer' = [writer EXCEPT ![g] = Idle]
    /\ Set(g, IF writer[g].pc = "written" THEN [mgr[g] EXCEPT !.pc = "exited"] ELSE [Resting EXCEPT !.up = FALSE])
    /\ UNCHANGED <<dir, secret, ca, served, expired, made, rotated, events>>

-----------------------------------------------------------------------------
(* The surroundings.                                                       *)
FileFails(p) ==
    /\ Disturb("file") /\ WriteFails(p)
    /\ UNCHANGED <<secret, ca, mgr, served, expired, made, rotated>>

(* A process ends for another reason: SetupWithManager gives up after 20   *)
(* seconds, for one.                                                       *)
Die(p) ==
    /\ Disturb("crash") /\ mgr[p].up /\ mgr[p].pc \notin {"exited", "absent"} /\ Exit(p)
    /\ UNCHANGED <<secret, ca, expired, made, rotated>>

Restart(p) ==
    /\ ~ mgr[p].up /\ Set(p, [Resting EXCEPT !.queued = TRUE, !.torn = mgr[p].torn])
    /\ UNCHANGED <<dir, writer, secret, ca, served, expired, made, rotated, events>>

Expire(kind, n) ==
    /\ Disturb("expire") /\ <<kind, n>> \notin expired /\ expired' = expired \cup {<<kind, n>>}
    /\ rotated' = (rotated \/ kind = "CA")
    /\ UNCHANGED <<dir, writer, secret, ca, mgr, served, made>>

DeleteSecret ==
    /\ Disturb("delete") /\ secret.cert # Nil /\ secret' = NoSecret /\ rotated' = TRUE
    /\ UNCHANGED <<dir, writer, ca, mgr, served, expired, made>>

(* The configurations are applied again without a CA.                      *)
ResetConfiguration(c) ==
    /\ Disturb("reset") /\ ca[c] # Nil /\ ca' = [ca EXCEPT ![c] = Nil]
    /\ mgr' = Woken /\ rotated' = TRUE
    /\ UNCHANGED <<dir, writer, secret, served, expired, made>>

Controller(m) ==
    \/ ReadSecret(m) \/ CreateSecret(m) \/ OverwriteSecret(m) \/ WriteDir(m) \/ WriteDirEnds(m) \/ GetConfigurations(m)
    \/ \E c \in Config : EnsureConfiguration(m, c)
Running(p) == Controller(p) \/ Reload(p) \/ WaitReady(p) \/ RunGenerator(p) \/ GeneratorEnds(p) \/ Restart(p)

CertNext ==
    \/ \E p \in Process : Running(p) \/ CallFails(p) \/ FileFails(p) \/ Die(p)
    \/ secret.cert # Nil /\ (Expire("cert", secret.cert.serial) \/ Expire("CA", secret.cert.ca))
    \/ DeleteSecret \/ \E c \in Config : ResetConfiguration(c)

(* The processes run and are started again.                                *)
CertFairness ==
    /\ \A m \in Manager : WF_certVars(Controller(m)) /\ WF_certVars(Reload(m)) /\ WF_certVars(WaitReady(m))
    /\ \A g \in Generator : WF_certVars(RunGenerator(g)) /\ WF_certVars(WriteDir(g)) /\ WF_certVars(GeneratorEnds(g))
    /\ \A p \in Process : WF_certVars(Restart(p))

CertSpec == CertInit /\ [][CertNext]_certVars /\ CertFairness

-----------------------------------------------------------------------------
Trusted(m) ==
    \A c \in Config : served[m] # Nil => served[m].ca = ca[c]

(* The API server can call every manager that is up: unless the CA itself  *)
(* is lost, no renewal of the certificate, race of two managers or crash   *)
(* makes a server use a certificate the configurations do not trust.       *)
TrustKept == ~ rotated => \A m \in Manager : Trusted(m)

(* Whatever happened, the managers end up serving certificates that both   *)
(* configurations trust.                                                   *)
TrustRestored == <>[](\A m \in Manager : mgr[m].pc # "absent" => served[m] # Nil /\ Trusted(m))

(* And they all get to run their controllers.                              *)
ControllersStart == <>[](\A m \in Manager : mgr[m].pc # "absent" => mgr[m].main = "ready")

(* cert-generator ends with a certificate in its directory, unless it died *)
(* between making ..data_tmp and renaming it: then no later run can write. *)
GeneratorEndsWell ==
    \A g \in Generator : <>(mgr[g].pc = "absent" \/ mgr[g].torn \/ (mgr[g].pc = "exited" /\ validCert(Visible(g))))
=============================================================================
