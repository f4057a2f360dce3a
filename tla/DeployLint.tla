---------------------------- MODULE DeployLint ----------------------------
(***************************************************************************)
(* `ferrumctl lint deploy` (ferrum-cli/src/lint_deploy.rs): the offline    *)
(* lint of the install manifests, rule by rule.  A tree of manifests is a  *)
(* record of the documents of each kind.  A string that the rules cut up   *)
(* is the sequence of its pieces: a path is the sequence of its names (a   *)
(* trailing slash is a last piece "", the root is <<"">>), a name is the   *)
(* sequence of its dash-separated words, the empty string is <<>>.  An     *)
(* optional field is a set of at most one value.  A finding is its code.   *)
(***************************************************************************)
EXTENDS WebhookPki, FiniteSets, SequencesExt, FiniteSetsExt

Finding(code, holds) == IF holds THEN {code} ELSE {}

(* ---- constants of the rules ---- *)

MAX_WEBHOOK_TIMEOUT_SECONDS == 5
WEBHOOK_EXEMPT_NAMESPACES == {"ferrum", "kube-system"}
BUNDLE_SECRET_PREFIX == <<"ferrum", "bundle">>
BUNDLE_SECRET_CLUSTER == <<"cluster">>
BUNDLE_SECRET_NAMESPACED == <<"ns">>
CA_BUNDLE_PLACEHOLDER == [token |-> "placeholder"]
WEBHOOK_TLS_SECRET_SUFFIX == <<"tls">>
ALLOWED_EXTERNAL_ROLE_REFS ==
    {[kind |-> "ClusterRole", name |-> <<"auth", "delegator">>],
     [kind |-> "Role", name |-> <<"authentication", "reader">>]}
FORBIDDEN_HOST_PATH_PREFIXES ==
    {<<"var", "run">>, <<"run">>, <<"var", "lib", "kubelet">>,
     <<"etc", "kubernetes">>, <<"var", "lib", "docker">>}
TRACEFS_ROOTS == {<<"sys", "kernel", "tracing">>, <<"sys", "kernel", "debug", "tracing">>}
HOST_PATH_DIRECTORY == "Directory"
APISERVER_FLAG == "apiserver"
NODE_FLAG == "node"
SERVICE_ACCOUNT_DIR == <<"var", "run", "secrets", "kubernetes.io", "serviceaccount">>
OBSERVE_FORBIDDEN_VERBS == {"delete", "deletecollection", "*"}
OBSERVE_FORBIDDEN_RESOURCES == {"secrets", "pods/exec", "pods/attach", "pods/eviction", "*"}
REQUIRED_PATH_FLAGS == {"bundle", "bpf-elf", "tls-cert", "tls-key", "seed-file"}
JOINED_FLAGS ==
    {"policy-name", "bundle", "role", "tls-cert", "tls-key", "trust-root", "bpf-elf", "lkg-dir",
     "exceptions", "export-dir", "node", "reload-ms", "export-max-bytes", "export-keep",
     "export-queue"}

(* ---- documents ---- *)

(* `optional-*.yaml` is not part of the base install, `*.tmpl.yaml` is not *)
(* applied as it is.                                                       *)
IsBase(doc) == doc.file # "optional"
IsTemplate(doc) == doc.file = "tmpl"

(* ---- argv ---- *)

(* A token of an argv is `--key=value`, `--key`, or a word.                *)
EqToken(key, value) == [form |-> "eq", key |-> key, value |-> value]
FlagToken(key) == [form |-> "flag", key |-> key, value |-> <<>>]
WordToken(value) == [form |-> "word", key |-> "", value |-> value]

(* The value read at position i: after `=`, or the next token when that is *)
(* no flag, or nothing.                                                    *)
ValueAt(argv, i) ==
    CASE argv[i].form = "eq" -> {argv[i].value}
      [] argv[i].form = "flag" /\ i < Len(argv) /\ argv[i + 1].form = "word" ->
           {argv[i + 1].value}
      [] OTHER -> {}

Occurrences(argv, key) == {i \in DOMAIN argv : argv[i].form # "word" /\ argv[i].key = key}

(* Every flag of the argv with its count and the value of its last         *)
(* occurrence, empty when that has none.                                   *)
parse_argv(argv) ==
    LET keys == {argv[i].key : i \in {j \in DOMAIN argv : argv[j].form # "word"}} IN
    [k \in keys |->
        [count |-> Cardinality(Occurrences(argv, k)),
         value |-> LET v == ValueAt(argv, Max(Occurrences(argv, k))) IN
                   IF v = {} THEN <<>> ELSE CHOOSE x \in v : TRUE]]

argv_of(c) == c.command \o c.args

container_flag(argv, flag) ==
    LET parsed == parse_argv(argv) IN
    IF flag \in DOMAIN parsed THEN {parsed[flag].value} ELSE {}

(* ---- paths and volumes ---- *)

normalised_path(path) ==
    LET kept == {i \in DOMAIN path : path[i] # ""} IN
    IF kept = {} THEN <<"">> ELSE SubSeq(path, 1, Max(kept))

(* The first mount at this path, and the volume it names.                  *)
MountedAt(spec, c, path) ==
    LET at == {i \in DOMAIN c.mounts : normalised_path(c.mounts[i].at) = normalised_path(path)} IN
    {v \in spec.volumes : at # {} /\ v.name = c.mounts[Min(at)].name}

mounted_secret(spec, c, path) ==
    {v.secret : v \in {w \in MountedAt(spec, c, path) : w.kind = "secret"}}

mounted_host_path(spec, c, path) ==
    {[path |-> v.path, type |-> v.type] : v \in {w \in MountedAt(spec, c, path) :
                                                    w.kind = "hostPath"}}

Serves(at, path) == at = <<"">> \/ IsPrefix(at, path)

(* The lookup with the two spellings of a directory told apart.            *)
VolumeServingVerbatim(spec, c, path) ==
    LET serving == {i \in DOMAIN c.mounts : Serves(c.mounts[i].at, path)}
        longest == {i \in serving : \A j \in serving :
                        Len(c.mounts[j].at) <= Len(c.mounts[i].at)}
    IN  {v \in spec.volumes : serving # {} /\ v.name = c.mounts[Max(longest)].name}

(* Longest matching mount wins, the last one among equals.                 *)
volume_serving(spec, c, path) ==
    LET p == normalised_path(path)
        At(i) == normalised_path(c.mounts[i].at)
        serving == {i \in DOMAIN c.mounts : Serves(At(i), p)}
        longest == {i \in serving : \A j \in serving : Len(At(j)) <= Len(At(i))}
    IN  {v \in spec.volumes : serving # {} /\ v.name = c.mounts[Max(longest)].name}

declared_optional(v) ==
    \/ v.kind \in {"secret", "configMap"} /\ v.optional
    \/ v.kind = "projected" /\ \E s \in v.sources : s.optional

(* ---- file modes ---- *)

(* A mode literal is its digits after any leading zeros, and whether it has *)
(* leading zeros: then this YAML 1.2 reader sees a string.                 *)
InBase(digits, base) == FoldLeft(LAMBDA acc, d : acc * base + d, 0, digits)

mode_readings(literal) ==
    {InBase(literal.digits, 10)}
        \union (IF \A i \in DOMAIN literal.digits : literal.digits[i] < 8
                THEN {InBase(literal.digits, 8)} ELSE {})

Bit(mode, weight) == (mode \div weight) % 2 = 1

readable_by(mode, hasFsGroup) == Bit(mode, 4) \/ (hasFsGroup /\ Bit(mode, 32))

declared_modes(v) ==
    CASE v.kind \in {"secret", "configMap"} -> v.modes
      [] v.kind = "projected" -> v.modes \union UNION {s.modes : s \in v.sources}
      [] OTHER -> {}

effective_run_as_user(spec, c) == IF c.uid # {} THEN c.uid ELSE spec.uid

check_volume_readability(spec, c) ==
    Finding("UNREADABLE_VOLUME_MODE",
        /\ \E uid \in effective_run_as_user(spec, c) : uid # 0
        /\ \E i \in DOMAIN c.mounts :
            \E v \in {w \in spec.volumes : w.name = c.mounts[i].name} :
                \E literal \in declared_modes(v) :
                    \E mode \in mode_readings(literal) : ~readable_by(mode, spec.fsGroup # {}))

(* ---- rules on one container ---- *)

check_container(c) ==
    Finding("MISSING_RESOURCE_LIMITS", ~({"cpu", "memory"} \subseteq c.limits))
        \union Finding("PRIVILEGED_CONTAINER", c.privileged = {TRUE})
        \union Finding("PRIVILEGE_ESCALATION", c.escalation # {FALSE})
        \union Finding("CAPABILITIES_NOT_DROPPED", "all" \notin c.drops)

check_flag_ambiguity(c) ==
    LET parsed == parse_argv(argv_of(c)) IN
    Finding("DUPLICATE_JOINED_FLAG",
        \E flag \in JOINED_FLAGS \intersect DOMAIN parsed : parsed[flag].count > 1)

check_optional_required_mount(spec, c) ==
    Finding("OPTIONAL_REQUIRED_MOUNT",
        \E flag \in REQUIRED_PATH_FLAGS :
            \E path \in container_flag(argv_of(c), flag) \ {<<>>} :
                \E v \in volume_serving(spec, c, path) : declared_optional(v))

check_tracefs(spec, c) ==
    Finding("BPF_ELF_WITHOUT_TRACEFS",
        /\ container_flag(argv_of(c), "bpf-elf") # {}
        /\ ~ \E i \in DOMAIN c.mounts :
                LET path == normalised_path(c.mounts[i].at) IN
                /\ path \in TRACEFS_ROOTS
                /\ \E host \in mounted_host_path(spec, c, path) :
                    normalised_path(host.path) = path /\ host.type = {HOST_PATH_DIRECTORY})

(* Does this Secret name this policy?  `ns-<namespace>-<policy>` is not    *)
(* parsed: the policy has to be its tail and the rest must not be empty.   *)
secret_names_policy(secret, policy) ==
    /\ IsPrefix(BUNDLE_SECRET_PREFIX, secret)
    /\ LET rest == SubSeq(secret, Len(BUNDLE_SECRET_PREFIX) + 1, Len(secret)) IN
       \/ IsPrefix(BUNDLE_SECRET_CLUSTER, rest) /\ Tail(rest) = policy
       \/ /\ IsPrefix(BUNDLE_SECRET_NAMESPACED, rest)
          /\ IsSuffix(policy, Tail(rest))
          /\ Len(Tail(rest)) > Len(policy)

check_policy_join(spec, c) ==
    LET policy == container_flag(argv_of(c), "policy-name")
        bundle == container_flag(argv_of(c), "bundle")
    IN  Finding("POLICY_NAME_UNJOINED",
            /\ policy # {} \/ bundle # {}
            /\ ~ \E p \in policy \ {<<>>}, b \in bundle :
                    \E secret \in mounted_secret(spec, c, b) : secret_names_policy(secret, p))

(* ---- rules on one pod ---- *)

AllContainers(spec) == ToSet(spec.inits) \union ToSet(spec.containers)

runs_respond(spec) ==
    \E c \in AllContainers(spec) : container_flag(argv_of(c), "role") = {<<"respond">>}

check_host_pid(spec) ==
    Finding("RESPOND_WITHOUT_HOST_PID", runs_respond(spec) /\ spec.hostPID # {TRUE})
        \union Finding("UNNEEDED_HOST_PID", ~runs_respond(spec) /\ spec.hostPID = {TRUE})

ForbiddenHostPath(path) ==
    \/ path # <<>> /\ Last(path) = "x.sock"
    \/ path = <<"">>
    \/ \E p \in FORBIDDEN_HOST_PATH_PREFIXES : IsPrefix(p, path)

check_pod_templates(tree) ==
    UNION {
        Finding("MISSING_SERVICE_ACCOUNT", w.account = <<>>)
            \union Finding("FORBIDDEN_HOST_PATH",
                    \E v \in w.volumes : v.kind = "hostPath" /\ ForbiddenHostPath(v.path))
            \union check_host_pid(w)
            \union UNION {check_container(c) \union check_flag_ambiguity(c)
                          \union check_policy_join(w, c) \union check_tracefs(w, c)
                          \union check_optional_required_mount(w, c)
                          \union check_volume_readability(w, c) : c \in AllContainers(w)}
        : w \in tree.workloads}

(* ---- RBAC ---- *)

collect_roles(tree, ref) == {r \in tree.roles : r.kind = ref.kind /\ r.name = ref.name}

AccountSubjects(b) == {s.name : s \in {t \in b.subjects : t.kind = "ServiceAccount"}}

ObserveFindings(tree, ref) ==
    LET roles == collect_roles(tree, ref) IN
    Finding("UNRESOLVED_ROLE_REF", roles = {} /\ ref \notin ALLOWED_EXTERNAL_ROLE_REFS)
        \union Finding("OBSERVE_SA_OVERREACH",
            \E r \in roles : \E rule \in r.rules :
                \/ rule.verbs \intersect OBSERVE_FORBIDDEN_VERBS # {}
                \/ rule.resources \intersect OBSERVE_FORBIDDEN_RESOURCES # {})

check_bindings(tree) ==
    UNION {
        Finding("CLUSTER_ADMIN_BIND", ref.name = <<"cluster", "admin">>)
            \union UNION {Finding("RESPOND_BINDING_IN_BASE", "respond" \in ToSet(s) /\ IsBase(b))
                          \union (IF "observe" \in ToSet(s) THEN ObserveFindings(tree, ref) ELSE {})
                          : s \in AccountSubjects(b)}
        : <<b, ref>> \in {<<b, ref>> \in tree.bindings \X UNION {d.ref : d \in tree.bindings} :
                            ref \in b.ref}}

check_wildcard_rules(tree) ==
    UNION {Finding("AGGREGATED_ROLE", r.aggregated)
           \union Finding("WILDCARD_RBAC", \E rule \in r.rules :
                            "*" \in rule.verbs \/ "*" \in rule.resources)
           : r \in tree.roles}

(* ---- the label source ---- *)

(* The accounts this tree grants something to: a binding whose role is     *)
(* here and has a rule, or is one of the accepted built-ins.               *)
granted_service_accounts(tree) ==
    UNION {AccountSubjects(b) : b \in {d \in tree.bindings : \E ref \in d.ref :
              LET roles == collect_roles(tree, ref) IN
              IF roles # {} THEN \E r \in roles : r.rules # {}
              ELSE ref \in ALLOWED_EXTERNAL_ROLE_REFS}}

label_source(argv) ==
    IF container_flag(argv, APISERVER_FLAG) # {} THEN {APISERVER_FLAG}
    ELSE IF container_flag(argv, NODE_FLAG) \ {<<>>} # {} THEN {NODE_FLAG} ELSE {}

projected_token_volumes(spec) ==
    {v.name : v \in {w \in spec.volumes : w.kind = "projected" /\ \E s \in w.sources : s.token}}

mounts_token_at_service_account_dir(c, volumes) ==
    \E i \in DOMAIN c.mounts : /\ c.mounts[i].name \in volumes
                               /\ normalised_path(c.mounts[i].at) = SERVICE_ACCOUNT_DIR

SameNamespace(want, have) == want = {} \/ have = {} \/ want = have

token_from_automount(tree, w) ==
    IF w.automount # {} THEN w.automount = {TRUE}
    ELSE \/ w.account = <<>>
         \/ LET accounts == {a \in tree.accounts :
                                a.name = w.account /\ SameNamespace(w.namespace, a.namespace)}
            IN  accounts # {} /\ \A a \in accounts : a.automount # {FALSE}

(* A token counted wherever in the pod it is mounted.                      *)
TokenProjectedAnywhere(tree, w, askers) ==
    projected_token_volumes(w) # {} \/ token_from_automount(tree, w)

(* A projection at the one directory the clients read wins over automount. *)
token_projected(tree, w, askers) ==
    \/ \E c \in askers : mounts_token_at_service_account_dir(c, projected_token_volumes(w))
    \/ token_from_automount(tree, w)

selector_bearing_policies(tree) ==
    {p.name : p \in {q \in UNION tree.policies : q.namespaceSelector \/ q.serviceAccountSelector}}

check_label_source(tree) ==
    UNION {
        LET unwatched == {c \in AllContainers(w) : /\ label_source(argv_of(c)) # {}
                                                   /\ ~token_projected(tree, w, {c})}
            unnamed == {c \in AllContainers(w) :
                           /\ label_source(argv_of(c)) = {}
                           /\ container_flag(argv_of(c), "policy-name")
                                \intersect selector_bearing_policies(tree) # {}}
        IN  Finding("LABEL_SOURCE_UNJOINED",
                \/ unwatched # {} \/ unnamed # {}
                \/ /\ w.account \in granted_service_accounts(tree)
                   /\ ~token_projected(tree, w, AllContainers(w)))
        : w \in tree.workloads}

(* ---- webhooks ---- *)

check_ca_bundle(h) ==
    Finding("WEBHOOK_CA_BUNDLE",
        \/ h.caBundle = {}
        \/ IsTemplate(h) /\ h.caBundle # {CA_BUNDLE_PLACEHOLDER}
        \/ ~IsTemplate(h) /\ \A text \in h.caBundle :
                                \A pem \in base64_decode(text) : pem_certificates(pem) = {})

namespace_exclusions(h) == UNION {e.values : e \in {x \in h.selector :
                              x.key = "kubernetes.io/metadata.name" /\ x.operator = "NotIn"}}

check_webhooks(tree) ==
    UNION {
        Finding("WEBHOOK_SIDE_EFFECTS", h.sideEffects # {"None"})
            \union Finding("WEBHOOK_TIMEOUT",
                    ~ \E t \in h.timeoutSeconds : t \in 1..MAX_WEBHOOK_TIMEOUT_SECONDS)
            \union Finding("WEBHOOK_FAILURE_POLICY", h.failurePolicy # {"Fail"})
            \union check_ca_bundle(h)
            \union Finding("WEBHOOK_NAMESPACE_SELECTOR",
                    ~(WEBHOOK_EXEMPT_NAMESPACES \subseteq namespace_exclusions(h)))
        : h \in tree.webhooks}

(* Where the first container that mounts the Secret's volume mounts it.    *)
tls_mount_dir(spec, secret) ==
    LET mounts == FlattenSeq([i \in DOMAIN spec.containers |-> spec.containers[i].mounts])
        names == {v.name : v \in {w \in spec.volumes : w.kind = "secret" /\ w.secret = secret}}
        at == {i \in DOMAIN mounts : mounts[i].name \in names}
    IN  IF at = {} THEN {} ELSE {normalised_path(mounts[Min(at)].at)}

(* The flag as the first container that passes it reads it.                *)
flag_value(spec, flag) ==
    LET passing == {i \in DOMAIN spec.containers :
                       container_flag(argv_of(spec.containers[i]), flag) # {}}
    IN  IF passing = {} THEN {} ELSE container_flag(argv_of(spec.containers[Min(passing)]), flag)

Inside(path, dir) == IsPrefix(dir, path) /\ Len(path) > Len(dir)

check_webhook_tls(tree) ==
    UNION {
        Finding("WEBHOOK_TLS_SECRET",
            \E service \in h.service :
                LET specs == {w \in tree.workloads : w.name = service}
                    secret == service \o WEBHOOK_TLS_SECRET_SUFFIX
                IN  ~ \E w \in specs : \E dir \in tls_mount_dir(w, secret) :
                        \A flag \in {"tls-cert", "tls-key"} :
                            \E path \in flag_value(w, flag) : Inside(path, dir))
        : h \in tree.webhooks}

(* tls.crt of the issued Secret next to the manifest, in the Service's     *)
(* namespace or in none: empty where it cannot be read.                    *)
tls_secret_certificate(tree, h, service) ==
    {LeafOf(s) : s \in {d \in tree.tlsSecrets :
                           /\ d.name = service \o WEBHOOK_TLS_SECRET_SUFFIX
                           /\ SameNamespace(h.serviceNamespace, d.namespace)}}

ca_bundle_pem(h) == UNION {base64_decode(text) : text \in h.caBundle \ {CA_BUNDLE_PLACEHOLDER}}

check_webhook_pki(tree) ==
    UNION {
        Finding("WEBHOOK_PKI_MISMATCH",
            \E service \in h.service : \E crt \in tls_secret_certificate(tree, h, service) :
                \E ca \in ca_bundle_pem(h) :
                    \/ crt = {}
                    \/ \E leaf \in crt : \/ ~verify_issued_pair(ca, leaf)
                                        \/ expires_within(ca, SERVING_CERT_WARN_DAYS)
                                        \/ expires_within(leaf, SERVING_CERT_WARN_DAYS))
        : h \in {g \in tree.webhooks : ~IsTemplate(g)}}

(* ---- the rest of the tree ---- *)

check_crd_catalog(tree) ==
    UNION {Finding("MISSING_CRD", ~c.readable \/ ~(c.kinds \subseteq c.declared))
           : c \in tree.catalog}

check_private_key_material(tree) == Finding("PRIVATE_KEY_IN_TREE", \E f \in tree.files : f.key)

collect_findings(tree) ==
    check_bindings(tree) \union check_wildcard_rules(tree) \union check_pod_templates(tree)
        \union check_label_source(tree) \union check_webhooks(tree)
        \union check_webhook_tls(tree) \union check_webhook_pki(tree)
        \union check_crd_catalog(tree) \union check_private_key_material(tree)

lint_deploy_dir(tree) == collect_findings(tree) = {}

=============================================================================
