------------------------------ MODULE Deploy ------------------------------
(***************************************************************************)
(* An install, from its manifests to the hooks on a node: the lint passes  *)
(* judgement on the tree, kubelet starts the Pods of a tree it accepted,   *)
(* each program starts with what its container really holds, and the agent *)
(* attaches.  The first half is what kubelet puts into a container and     *)
(* what each main() does with its argv and with the files it finds         *)
(* (ferrum-agent, ferrum-admission and ferrum-controller main.rs, key.rs,  *)
(* the ApiserverConfig of ferrum-k8smeta): the value <<"junk">> is one no   *)
(* parser accepts; an outcome is `exited` with its reason or `running`     *)
(* with what the process has.  The second half is the cluster: Secrets     *)
(* appear in any order (the controller writes the bundle, the operator the *)
(* rest), containers die and are started again.                            *)
(***************************************************************************)
EXTENDS DeployLint, Attach

(* ---- kubelet ---- *)

Clean(path) == SelectSeq(path, LAMBDA s : s # "")

(* The volume a path of this container is read from.                       *)
KubeVolume(w, c, path) ==
    LET above == {i \in DOMAIN c.mounts : IsPrefix(Clean(c.mounts[i].at), Clean(path))}
        nearest == {i \in above : \A j \in above :
                       Len(Clean(c.mounts[j].at)) <= Len(Clean(c.mounts[i].at))}
    IN  {v \in w.volumes : \E i \in nearest : v.name = c.mounts[i].name}

KubeMode(literal) == InBase(literal.digits, IF literal.zero THEN 8 ELSE 10)

RunsAsRoot(w, c) == effective_run_as_user(w, c) \subseteq {0}

(* Files of a Secret volume are root:root with the declared mode, the group *)
(* moved only for an fsGroup.                                              *)
Opens(w, c, v) ==
    \/ RunsAsRoot(w, c)
    \/ \A literal \in v.modes :
        \/ Bit(KubeMode(literal), 4)
        \/ w.fsGroup # {} /\ Bit(KubeMode(literal), 32)

(* What the process gets when it opens this path.                          *)
FileState(w, c, path, objects) ==
    LET vs == KubeVolume(w, c, path) IN
    CASE vs = {} -> IF path[1] = "image" THEN "there" ELSE "nowhere"
      [] \E v \in vs : v.kind = "secret" ->
            LET v == CHOOSE x \in vs : x.kind = "secret" IN
            IF v.secret \notin objects THEN "absent"
            ELSE IF Opens(w, c, v) THEN "there" ELSE "unreadable"
      [] \E v \in vs : v.kind = "hostPath" -> "there"
      [] OTHER -> "absent"

(* kubelet holds the Pod in ContainerCreating while an object or a host    *)
(* directory it must mount is missing.                                     *)
Mountable(w, objects, hostDirs) ==
    \A v \in w.volumes :
        /\ (v.kind = "secret" /\ ~v.optional) => v.secret \in objects
        /\ (v.kind = "hostPath" /\ v.type = {HOST_PATH_DIRECTORY}) => Clean(v.path) \in hostDirs

(* A document that names no namespace is applied into the install's own.   *)
AppliedIn(doc) == IF doc.namespace = {} THEN {"ferrum"} ELSE doc.namespace

AccountOf(tree, w) ==
    {a \in tree.accounts : a.name = w.account /\ AppliedIn(a) = AppliedIn(w)}

KubeToken(tree, w, c) ==
    \/ \E v \in KubeVolume(w, c, Append(SERVICE_ACCOUNT_DIR, "token")) :
            v.kind = "projected" /\ \E s \in v.sources : s.token
    \/ /\ KubeVolume(w, c, Append(SERVICE_ACCOUNT_DIR, "token")) = {}
       /\ IF w.automount # {} THEN w.automount = {TRUE}
          ELSE \A a \in AccountOf(tree, w) : a.automount # {FALSE}

(* ---- the agent ---- *)

Parses(value) == value # <<"junk">>

Exited(why) == [state |-> "exited", why |-> why]

(* The agent's map of flags: last occurrence wins.                         *)
parse_flags(argv) ==
    [k \in {argv[i].key : i \in {j \in DOMAIN argv : argv[j].form # "word"}} |->
        LET v == ValueAt(argv, Max(Occurrences(argv, k))) IN
        IF v = {} THEN <<>> ELSE CHOOSE x \in v : TRUE]

Get(flags, key) == IF key \in DOMAIN flags THEN flags[key] ELSE <<>>

(* A flag that may be absent or empty but not wrong.                       *)
Optional(flags, key) == Parses(Get(flags, key))

AgentRole(flags) == IF Get(flags, "role") = <<>> THEN <<"observe">> ELSE Get(flags, "role")

(* Transport and profile are read only when an address is given.           *)
siem_config(flags) ==
    \/ Get(flags, "siem-address") = <<>>
    \/ Optional(flags, "siem-transport") /\ Optional(flags, "siem-profile")

bind_metrics(flags) == Optional(flags, "metrics-listen")

require_flag(flags, key) == Get(flags, key) # <<>>

(* The pod watch: built only where the token file exists.  The node name   *)
(* falls back to the host name, so it is never empty in a pod.             *)
from_service_account(tree, w, c) == KubeToken(tree, w, c)

spawn_cgroup_refresh(tree, w, c, node) == node.cgroup2 /\ from_service_account(tree, w, c)

(* A bundle mount that cannot be loaded ends a process that has no         *)
(* last-known-good to run on.                                              *)
BundleState(w, c, flags, objects) ==
    IF Get(flags, "bundle") = <<>> THEN "none"
    ELSE FileState(w, c, Get(flags, "bundle"), objects)

AgentFlagsValid(flags) ==
    /\ require_flag(flags, "trust-root") /\ Optional(flags, "trust-root")
    /\ AgentRole(flags) \in {<<"observe">>, <<"respond">>}
    /\ \A key \in {"reload-ms", "export-max-bytes", "export-keep", "export-queue"} :
            Optional(flags, key)
    /\ siem_config(flags)

RunAgent(tree, w, c, objects, node, lkg) ==
    LET flags == parse_flags(argv_of(c))
        bundle == BundleState(w, c, flags, objects)
        elfPath == Get(flags, "bpf-elf")
    IN  CASE ~AgentFlagsValid(flags) -> Exited(<<"argv">>)
          [] bundle \notin {"none", "there"} /\ ~lkg -> Exited(<<"bundle", bundle>>)
          [] ~bind_metrics(flags) -> Exited(<<"metrics">>)
          [] elfPath = <<>> -> Exited(<<"argv">>)
          [] elfPath # <<>> /\ FileState(w, c, elfPath, objects) # "there" ->
                Exited(<<"elf", FileState(w, c, elfPath, objects)>>)
          [] OTHER ->
                [state |-> "running", program |-> "agent",
                 policy |-> Get(flags, "policy-name"),
                 bundle |-> {v.secret : v \in KubeVolume(w, c, Get(flags, "bundle"))},
                 watch |-> spawn_cgroup_refresh(tree, w, c, node),
                 respond |-> AgentRole(flags) = <<"respond">>,
                 aims |-> w.hostPID = {TRUE},
                 keeps |-> Get(flags, "lkg-dir") # <<>> /\ bundle = "there",
                 tracefs |-> \E root \in TRACEFS_ROOTS :
                                /\ root \in node.hostDirs
                                /\ \E v \in KubeVolume(w, c, root) :
                                    v.kind = "hostPath" /\ Clean(v.path) = root]

(* ---- the webhook ---- *)

(* Every occurrence of a flag; a swallowed value is not an empty one.      *)
FlagOccurrences(argv, key) ==
    LET at == Occurrences(argv, key) IN
    [i \in 1..Cardinality(at) |-> ValueAt(argv, SetToSortSeq(at, <)[i])]

FlagsGet(argv, key) ==
    LET all == FlagOccurrences(argv, key) IN
    IF all = <<>> THEN {} ELSE IF Last(all) = {} THEN {<<>>} ELSE Last(all)

(* A label pair is a two-piece value; a repeat accumulates, a swallowed    *)
(* value and two values of one key are refused, nothing at all is a        *)
(* cluster with no stated labels.                                          *)
parse_cluster_labels(occurrences) ==
    LET stated == UNION ToSet(occurrences) \ {<<>>} IN
    CASE occurrences = <<>> -> "unstated"
      [] {} \in ToSet(occurrences) -> "refused"
      [] \E p, q \in stated : p[1] = q[1] /\ p # q -> "refused"
      [] \E p \in stated : Len(p) # 2 -> "refused"
      [] OTHER -> "stated"

TogetherOrNone(argv, keys) ==
    \/ \A k \in keys : FlagsGet(argv, k) \ {<<>>} # {}
    \/ \A k \in keys : FlagsGet(argv, k) \ {<<>>} = {}

ServeFlagsValid(argv) ==
    /\ \A k \in {"bundle", "trust-root"} : FlagsGet(argv, k) \ {<<>>, <<"junk">>} # {}
    /\ parse_cluster_labels(FlagOccurrences(argv, "cluster-label")) # "refused"
    /\ FlagsGet(argv, "apiserver") # {<<"junk">>}
    /\ FlagsGet(argv, "exceptions") \ {<<>>} # {} => FlagsGet(argv, "policy-name") \ {<<>>} # {}
    /\ FlagsGet(argv, "tls-cert") = {} <=> FlagsGet(argv, "tls-key") = {}
    /\ <<>> \notin FlagsGet(argv, "tls-cert") \union FlagsGet(argv, "tls-key")
    /\ FlagsGet(argv, "reload-ms") # {<<"junk">>}
    /\ TogetherOrNone(argv, {"break-glass", "break-glass-journal", "break-glass-root"})

TlsFiles(argv) == FlagsGet(argv, "tls-cert") \union FlagsGet(argv, "tls-key")

RunWebhook(tree, w, c, objects) ==
    LET argv == argv_of(c)
        bundle == CHOOSE b \in FlagsGet(argv, "bundle") : TRUE
        tls == {FileState(w, c, f, objects) : f \in TlsFiles(argv)}
        watch == FlagsGet(argv, "apiserver") # {}
    IN  CASE ~ServeFlagsValid(argv) -> Exited(<<"argv">>)
          [] FileState(w, c, bundle, objects) # "there" ->
                Exited(<<"bundle", FileState(w, c, bundle, objects)>>)
          [] watch /\ ~KubeToken(tree, w, c) -> Exited(<<"token", "absent">>)
          [] tls \ {"there"} # {} -> Exited(<<"tls", CHOOSE s \in tls \ {"there"} : TRUE>>)
          [] OTHER ->
                [state |-> "running", program |-> "admission",
                 policy |-> (IF FlagsGet(argv, "policy-name") = {} THEN <<>>
                             ELSE CHOOSE p \in FlagsGet(argv, "policy-name") : TRUE),
                 bundle |-> {v.secret : v \in KubeVolume(w, c, bundle)},
                 watch |-> watch, serves |-> tls # {},
                 cluster |-> parse_cluster_labels(FlagOccurrences(argv, "cluster-label"))]

(* ---- the controller ---- *)

(* Its own grammar: no `=`, no loose word, a value after every flag.       *)
require_val(argv, i) == ValueAt(argv, i) \ {<<>>, <<"junk">>} # {}

ControllerFlags == {"seed-file", "namespace", "status-dir", "metrics-listen", "cluster",
                    "min-agent-abi", "min-admission-abi", "trust-root"}

parse_run(argv) ==
    \A i \in DOMAIN argv :
        \/ argv[i].form = "flag" /\ argv[i].key \in ControllerFlags /\ require_val(argv, i)
        \/ argv[i].form = "word" /\ i > 1 /\ argv[i - 1].form = "flag"

load_seed(w, c, argv, objects) ==
    IF Occurrences(argv, "seed-file") = {} THEN "nowhere"
    ELSE FileState(w, c, CHOOSE p \in ValueAt(argv, Max(Occurrences(argv, "seed-file"))) : TRUE,
                   objects)

RunController(tree, w, c, objects) ==
    LET argv == argv_of(c) IN
    CASE ~parse_run(argv) -> Exited(<<"argv">>)
      [] load_seed(w, c, argv, objects) # "there" ->
            Exited(<<"seed", load_seed(w, c, argv, objects)>>)
      [] OTHER -> [state |-> "running", program |-> "controller",
                   watch |-> KubeToken(tree, w, c)]

RunContainer(tree, w, c, objects, node, lkg) ==
    CASE c.program = "agent" -> RunAgent(tree, w, c, objects, node, lkg)
      [] c.program = "admission" -> RunWebhook(tree, w, c, objects)
      [] OTHER -> RunController(tree, w, c, objects)

-----------------------------------------------------------------------------
(* ---- the cluster ---- *)

CONSTANTS
    Installs,       \* [tree, kernel, elf, node, issues]: what is installed, and where,
                    \* or (issues) the tree whose PKI the operator is issuing
    MaxStarts       \* container starts in one behaviour

VARIABLES
    install,    \* the install
    verdict,    \* of lint_deploy_dir: "none", "accepted" or "refused"
    objects,    \* the Secrets of the cluster
    pod,        \* workload -> the Secrets its Pod was created with, when it was
    proc,       \* <<workload, container>> -> how its last start ended or runs
    lkg,        \* the agent has a last-known-good snapshot
    starts      \* containers started so far

podVars == <<install, verdict, objects, pod, proc, lkg, starts>>
vars == <<podVars, attachVars, pkiVars>>

tree == install.tree

Slots == UNION {{<<w, i>> : i \in DOMAIN w.containers} : w \in tree.workloads}
Down == [state |-> "down"]

Secrets == UNION {{v.secret : v \in {x \in w.volumes : x.kind = "secret"}} : w \in tree.workloads}

Init ==
    /\ install \in Installs
    /\ verdict = "none" /\ objects = {} /\ lkg = FALSE /\ starts = 0
    /\ pod = [w \in tree.workloads |-> {}]
    /\ proc = [s \in Slots |-> Down]
    /\ AttachInit(install.kernel, install.elf)
    /\ PkiInit

(* ferrumctl lint deploy, as the gate of the install.                      *)
Lint ==
    /\ verdict = "none"
    /\ verdict' = IF lint_deploy_dir(tree) THEN "accepted" ELSE "refused"
    /\ UNCHANGED <<install, objects, pod, proc, lkg, starts, attachVars>>

CreateSecret(s) ==
    /\ verdict = "accepted" /\ s \notin objects
    /\ objects' = objects \union {s}
    /\ UNCHANGED <<install, verdict, pod, proc, lkg, starts, attachVars>>

DeleteSecret(s) ==
    /\ s \in objects /\ starts > 0
    /\ objects' = objects \ {s}
    /\ UNCHANGED <<install, verdict, pod, proc, lkg, starts, attachVars>>

(* kubelet creates the Pod once all it must mount is there, and mounts     *)
(* what there is.                                                          *)
CreatePod(w) ==
    /\ verdict = "accepted" /\ pod[w] = {}
    /\ Mountable(w, objects, install.node.hostDirs)
    /\ pod' = [pod EXCEPT ![w] = {objects}]
    /\ UNCHANGED <<install, verdict, objects, proc, lkg, starts, attachVars>>

(* The process runs to the point where it serves, watches or attaches, or  *)
(* exits.  An agent that runs gets the kernel its container shows it.      *)
StartContainer(w, i) ==
    /\ proc[<<w, i>>].state = "down" /\ pod[w] # {} /\ starts < MaxStarts
    /\ LET c == w.containers[i]
           run == RunContainer(tree, w, c, UNION pod[w], install.node, lkg)
           attaches == run.state = "running" /\ c.program = "agent"
       IN  /\ proc' = [proc EXCEPT ![<<w, i>>] = run]
           /\ lkg' = (lkg \/ (attaches /\ run.keeps))
           /\ IF attaches
              THEN /\ phase' = "start" /\ instance' = instance + 1
                   /\ kernel' = [install.kernel EXCEPT !.tracefs = run.tracefs]
              ELSE UNCHANGED <<phase, instance, kernel>>
    /\ starts' = starts + 1
    /\ UNCHANGED <<install, verdict, objects, pod, elf, todo, held, links, unhooked, told, exec,
                   lsmWhy, pins, pin>>

(* The process ends, or kubelet takes an exited one up again.              *)
ContainerEnds(w, i) ==
    /\ proc[<<w, i>>].state # "down" /\ starts < MaxStarts
    /\ proc' = [proc EXCEPT ![<<w, i>>] = Down]
    /\ IF w.containers[i].program = "agent"
       THEN HandleDropped /\ phase' = "off" /\ UNCHANGED <<kernel, instance>>
       ELSE UNCHANGED attachVars
    /\ UNCHANGED <<install, verdict, objects, pod, lkg, starts>>

AgentSteps == AttachNext /\ UNCHANGED podVars

InstallSteps ==
    \/ Lint
    \/ \E s \in Secrets : CreateSecret(s) \/ DeleteSecret(s)
    \/ \E w \in tree.workloads : CreatePod(w)
    \/ \E slot \in Slots : StartContainer(slot[1], slot[2]) \/ ContainerEnds(slot[1], slot[2])
    \/ AgentSteps

(* The operator's work on the PKI and the life of an install share no      *)
(* state, so a behaviour is one of either.                                 *)
Next ==
    \/ ~install.issues /\ InstallSteps /\ UNCHANGED pkiVars
    \/ install.issues /\ PkiNext /\ UNCHANGED <<podVars, attachVars>>

Spec == Init /\ [][Next]_vars

(* ---- what the lint promises about a tree it accepted ---- *)

(* No container exits because a Secret that serves one of its required     *)
(* paths is not there or cannot be opened, because its TLS pair or bundle  *)
(* is under no mount, or because the token its watch needs is missing      *)
(* (lint_deploy.rs FD021, FD027, FD028 and FD029, against what kubelet     *)
(* mounts and the three main.rs open).                                     *)
LintedPodStarts ==
    \A s \in Slots : proc[s].state = "exited" =>
        /\ proc[s].why \notin {"bundle", "elf", "tls", "seed", "token"} \X {"absent", "unreadable"}
        /\ proc[s].why \notin {"bundle", "tls"} \X {"nowhere"}

BundleSecretsOf(policy) ==
    {BUNDLE_SECRET_PREFIX \o BUNDLE_SECRET_CLUSTER \o policy}
        \union {BUNDLE_SECRET_PREFIX \o BUNDLE_SECRET_NAMESPACED \o <<n>> \o policy :
                   n \in {"team", "other"}}

(* A container that runs is not silently without effect: a policy with     *)
(* namespace or service account selectors is matched by a process that has *)
(* a label watch, a respond agent sees host pids, the mounted bundle is    *)
(* the one compiled from the policy the flag names, and an attach that     *)
(* failed did not fail for a tracefs the manifest left out                 *)
(* (lint_deploy.rs check_label_source, check_host_pid, check_policy_join,  *)
(* check_tracefs).                                                         *)
LintedPodEnforces ==
    \A s \in Slots : proc[s].state = "running" /\ proc[s].program # "controller" =>
        /\ proc[s].policy \in selector_bearing_policies(tree) =>
                proc[s].watch \/ ~install.node.cgroup2
        /\ proc[s].bundle \subseteq BundleSecretsOf(proc[s].policy)
        /\ proc[s].program = "agent" =>
            /\ proc[s].respond => proc[s].aims
            /\ phase = "failed" => kernel.tracefs

(* ---- what gen-webhook-pki promises ---- *)

(* The tree with what lies in directory d: the template, what was rendered *)
(* from it and the issued Secret.                                          *)
IssuedTree(d) ==
    [tree EXCEPT
        !.webhooks = {[h EXCEPT !.file = "tmpl", !.caBundle = {CA_BUNDLE_PLACEHOLDER}] : h \in @}
            \union {[h EXCEPT !.caBundle = {bundle}] : h \in @, bundle \in BodyOf(d, "rendered")},
        !.tlsSecrets = BodyOf(d, "secret"),
        !.files = {[key |-> dirs[d]["ca.key"] # {}]}]

(* Whatever runs failed halfway, were repeated or were given a key of      *)
(* another CA, on a clock that moved, into directories half cleared: the   *)
(* Secret and the configuration of one directory belong together, and the  *)
(* cluster trusts the leaf it serves.  The only excuse is an operator who  *)
(* showed the rotation another configuration, which is not that one or not *)
(* applied; without one there is no rotation (require_applied_ca_bundle).  *)
(* And the lint accepts what a run has just written, once the key is out   *)
(* of the tree (FD022, FD023).                                             *)
IssuedPairIsTrusted ==
    /\ \A d \in Dirs : \A s \in dirs[d]["secret"], b \in BodyOf(d, "rendered") :
            s.whole /\ s.shown \subseteq {b} => Trusts(b, s.body)
    /\ \A s \in cluster.secret : s.shown \subseteq cluster.trusts =>
            \A b \in cluster.trusts : Trusts(b, s.body)
    /\ \A a \in issue.args :
            /\ issue.pc = "ok" /\ ~Rotating(a) /\ issue.at = today
            /\ a.days > SERVING_CERT_WARN_DAYS /\ dirs[a.out_dir]["ca.key"] = {}
            => lint_deploy_dir(IssuedTree(a.out_dir))

=============================================================================
