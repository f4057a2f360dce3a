----------------------------- MODULE MCDeploy -----------------------------
(***************************************************************************)
(* Installs for Deploy: an install that is right, and families that vary   *)
(* it where the lint and the programs read the same field; and nodes that  *)
(* differ in what can be hooked and pinned.                                *)
(***************************************************************************)
EXTENDS Deploy

SysTracing == <<"sys", "kernel", "tracing">>
BundleDir == <<"etc", "ferrum", "bundle">>
TlsDir == <<"etc", "ferrum", "tls">>
SeedDir == <<"etc", "ferrum", "seed">>
Hook == <<"ferrum", "hook">>
ClusterBundle == <<"ferrum", "bundle", "cluster", "base">>

Volume == [name |-> "", kind |-> "emptyDir", secret |-> <<>>, optional |-> FALSE, modes |-> {},
           path |-> <<>>, type |-> {}, sources |-> {}]
Secret(name, secret) == [Volume EXCEPT !.name = name, !.kind = "secret", !.secret = secret]
Tracefs == [Volume EXCEPT !.name = "tracefs", !.kind = "hostPath", !.path = SysTracing,
                          !.type = {"Directory"}]
Token == [Volume EXCEPT !.name = "token", !.kind = "projected",
                        !.sources = {[token |-> TRUE, optional |-> FALSE, modes |-> {}]}]

At(name, path) == [name |-> name, at |-> path]
Slash(path) == Append(path, "")

Program(program, args, mounts) ==
    [name |-> program, program |-> program, command |-> <<>>, args |-> args, mounts |-> mounts,
     limits |-> {"cpu", "memory"}, privileged |-> {}, escalation |-> {FALSE}, drops |-> {"all"},
     uid |-> {}]

Workload(name, c, volumes) ==
    [name |-> name, namespace |-> {"ferrum"}, account |-> <<"ferrum", "observe">>,
     automount |-> {}, hostPID |-> {}, uid |-> {}, fsGroup |-> {}, volumes |-> volumes,
     inits |-> <<>>, containers |-> <<c>>]

AgentArgs == <<EqToken("bundle", BundleDir), FlagToken("policy-name"), WordToken(<<"base">>),
               EqToken("bpf-elf", <<"image", "elf">>), EqToken("trust-root", <<"hex">>),
               EqToken("node", <<"n1">>)>>
AgentMounts == <<At("bundle", BundleDir), At("tracefs", SysTracing)>>
AgentVolumes == {Secret("bundle", ClusterBundle), Tracefs}
Agent == Workload(<<"ferrum", "agent">>, Program("agent", AgentArgs, AgentMounts), AgentVolumes)

HookArgs == <<EqToken("bundle", BundleDir), EqToken("policy-name", <<"base">>),
              EqToken("trust-root", <<"hex">>), EqToken("apiserver", <<"in-cluster">>),
              EqToken("tls-cert", TlsDir \o <<"tls.crt">>),
              EqToken("tls-key", TlsDir \o <<"tls.key">>)>>
HookMounts == <<At("bundle", BundleDir), At("tls", TlsDir)>>
Webhook == Workload(Hook, Program("admission", HookArgs, HookMounts),
                    {Secret("bundle", ClusterBundle), Secret("tls", Hook \o <<"tls">>)})

SeedArgs == <<FlagToken("seed-file"), WordToken(SeedDir \o <<"seed">>)>>
Controller == Workload(<<"ferrum", "controller">>,
                       Program("controller", SeedArgs, <<At("seed", SeedDir)>>),
                       {Secret("seed", <<"ferrum", "seed">>)})

ObserveRole == [kind |-> "ClusterRole", name |-> <<"ferrum", "observe">>, aggregated |-> FALSE,
                rules |-> {[verbs |-> {"get", "watch"}, resources |-> {"pods"}]}]
Binding == [file |-> "base", ref |-> {[kind |-> "ClusterRole", name |-> <<"ferrum", "observe">>]},
            subjects |-> {[kind |-> "ServiceAccount", name |-> <<"ferrum", "observe">>]}]
Account == [name |-> <<"ferrum", "observe">>, namespace |-> {"ferrum"}, automount |-> {}]
Ca(key) == [kind |-> "certificate", subject |-> Hook \o <<"ca">>, issuer |-> Hook \o <<"ca">>,
            key |-> key, signedBy |-> key, ca |-> TRUE, san |-> <<>>, eku |-> {},
            from |-> 0, until |-> MAX_SERVING_CERT_DAYS * DAY]
Leaf == [Ca(1) EXCEPT !.subject = <<Hook, "ferrum", "svc">>, !.key = 2, !.ca = FALSE,
                      !.san = service_dns_names(Hook, "ferrum"), !.eku = {"serverAuth"}]
Bundle(pem) == {base64_encode(pem)}
Garbage == {[token |-> "garbage"]}
Hooked == [file |-> "base", caBundle |-> Bundle(<<Ca(1)>>), service |-> {Hook},
           serviceNamespace |-> {"ferrum"}, sideEffects |-> {"None"}, timeoutSeconds |-> {5},
           failurePolicy |-> {"Fail"},
           selector |-> {[key |-> "kubernetes.io/metadata.name", operator |-> "NotIn",
                          values |-> {"ferrum", "kube-system"}]}]
TlsSecret == [name |-> Hook \o <<"tls">>, namespace |-> {"ferrum"}, crt |-> Bundle(<<Leaf>>),
              key |-> base64_encode(2)]
Selecting == [name |-> <<"base">>, namespaceSelector |-> TRUE, serviceAccountSelector |-> FALSE]

Tree(workloads, webhooks) ==
    [roles |-> {ObserveRole}, bindings |-> {Binding}, accounts |-> {Account},
     workloads |-> workloads, webhooks |-> webhooks, tlsSecrets |-> {TlsSecret},
     policies |-> {{Selecting}}, catalog |-> {[readable |-> TRUE, kinds |-> {"FerrumPolicy"},
                                               declared |-> {"FerrumPolicy"}]},
     files |-> {[key |-> FALSE]}]

AgentTree == Tree({Agent}, {})
HookTree == Tree({Webhook}, {Hooked})
WithAgent(w) == [AgentTree EXCEPT !.workloads = {w}]
WithHook(w) == [HookTree EXCEPT !.workloads = {w}]

(* ---- the families ---- *)

Literal(digits, zero) == [digits |-> digits, zero |-> zero]
Modes == {{}, {Literal(<<4, 4, 0>>, TRUE)}, {Literal(<<4, 4, 4>>, TRUE)},
          {Literal(<<4, 2, 0>>, FALSE)}, {Literal(<<7, 0, 0>>, TRUE)},
          {Literal(<<4, 4, 4>>, FALSE)}, {Literal(<<2, 8, 8>>, FALSE)}}

(* Who may read the mounted Secret: optional, mode, user, group, spelling. *)
Readers(w, volume, at) ==
    {[w EXCEPT !.volumes = {IF v.name = volume
                            THEN [v EXCEPT !.optional = optional, !.modes = modes] ELSE v
                            : v \in w.volumes},
               !.uid = uid, !.fsGroup = group,
               !.containers[1].mounts[at].at = IF slash THEN Slash(w.containers[1].mounts[at].at)
                                              ELSE w.containers[1].mounts[at].at] :
        optional \in BOOLEAN, modes \in Modes, uid \in {{}, {0}, {1000}}, group \in {{}, {2000}},
        slash \in BOOLEAN}

(* Who the agent may aim at, and what it sees of tracefs.                  *)
TracefsMounts ==
    {AgentMounts, SubSeq(AgentMounts, 1, 1), [AgentMounts EXCEPT ![2].at = Slash(SysTracing)],
     [AgentMounts EXCEPT ![2].at = <<"sys", "kernel", "debug", "tracing">>]}
Aiming ==
    {[Agent EXCEPT !.hostPID = hostPID,
                   !.volumes = {Secret("bundle", ClusterBundle), [Tracefs EXCEPT !.type = type]},
                   !.containers[1].mounts = mounts,
                   !.containers[1].args = AgentArgs \o role] :
        hostPID \in {{}, {FALSE}, {TRUE}}, type \in {{}, {"Directory"}}, mounts \in TracefsMounts,
        role \in {<<>>, <<EqToken("role", <<"respond">>)>>, <<EqToken("role", <<"observe">>)>>,
                  <<EqToken("role", <<"respond">>), EqToken("role", <<"observe">>)>>,
                  <<EqToken("role", <<"observe">>), EqToken("role", <<"respond">>)>>}}

(* Which policy is named, which Secret is mounted.                         *)
Naming ==
    {[Agent EXCEPT !.volumes = {Secret("bundle", secret), Tracefs},
                   !.containers[1].args = AgentArgs \o more] :
        secret \in {ClusterBundle, <<"ferrum", "bundle", "ns", "team", "base">>,
                    <<"ferrum", "bundle", "cluster", "strict">>, <<"ferrum", "bundle">>},
        more \in {<<>>, <<EqToken("policy-name", <<"strict">>)>>, <<FlagToken("policy-name")>>,
                  <<EqToken("lkg-dir", <<"image", "lkg">>)>>,
                  <<EqToken("siem-address", <<"siem">>), EqToken("siem-profile", <<"junk">>)>>,
                  <<EqToken("metrics-listen", <<"junk">>)>>, <<EqToken("reload-ms", <<"junk">>)>>,
                  <<EqToken("bundle", <<"image", "bundle">>)>>}}

(* Where the token of a watch comes from.                                  *)
TokenMounts == {<<>>, <<At("token", Slash(SERVICE_ACCOUNT_DIR))>>,
                <<At("token", <<"var", "run", "token">>)>>}
Tokens(base, w) ==
    {[base EXCEPT !.accounts = accounts, !.policies = policies,
                  !.workloads = {[w EXCEPT !.automount = automount, !.account = account,
                                           !.volumes = w.volumes \union {Token},
                                           !.containers[1].mounts =
                                                w.containers[1].mounts \o mounts,
                                           !.containers[1].args = SelectSeq(
                                                w.containers[1].args,
                                                LAMBDA t : t.key \notin dropped)]}] :
        accounts \in {{Account}, {[Account EXCEPT !.automount = {FALSE}]},
                      {[Account EXCEPT !.automount = {FALSE}, !.namespace = {"other"}]},
                      {[Account EXCEPT !.namespace = {}]}},
        policies \in {{}, {{Selecting}}}, automount \in {{}, {FALSE}, {TRUE}},
        account \in {<<"ferrum", "observe">>, <<>>}, mounts \in TokenMounts,
        dropped \in {{}, {"node", "apiserver"}}}

(* How the webhook's pair is served and its labels are given.              *)
Serving ==
    {[Webhook EXCEPT !.volumes = {Secret("bundle", ClusterBundle), Secret("tls", secret)},
                     !.containers[1].args = HookArgs \o more] :
        secret \in {Hook \o <<"tls">>, <<"other", "tls">>},
        more \in {<<>>, <<EqToken("tls-cert", <<"elsewhere", "tls.crt">>)>>,
                  <<EqToken("cluster-label", <<"env", "prod">>)>>,
                  <<EqToken("cluster-label", <<"env", "prod">>),
                    EqToken("cluster-label", <<"env", "dev">>)>>,
                  <<FlagToken("cluster-label")>>, <<EqToken("cluster-label", <<"env">>)>>,
                  <<EqToken("exceptions", <<"image", "list">>)>>,
                  <<EqToken("break-glass", <<"image", "grant">>)>>,
                  <<EqToken("reload-ms", <<"junk">>)>>, <<EqToken("apiserver", <<"junk">>)>>}}

(* One thing wrong in a tree that is right otherwise.                      *)
Spoiled ==
    {[AgentTree EXCEPT !.bindings = {b}] :
        b \in {[Binding EXCEPT !.ref = {[kind |-> "ClusterRole", name |-> <<"cluster", "admin">>]}],
               [Binding EXCEPT !.subjects = {[kind |-> "ServiceAccount",
                                              name |-> <<"ferrum", "respond">>]}]}}
    \union {[AgentTree EXCEPT !.roles = {r}] :
        r \in {[ObserveRole EXCEPT !.rules = {[verbs |-> {"*"}, resources |-> {"pods"}]}],
               [ObserveRole EXCEPT !.aggregated = TRUE]}}
    \union {[HookTree EXCEPT !.webhooks = {h}] :
        h \in {[Hooked EXCEPT !.timeoutSeconds = {t}] : t \in {0, 6}}
              \union {[Hooked EXCEPT !.caBundle = ca] :
                        ca \in {{}, Garbage, {CA_BUNDLE_PLACEHOLDER}, Bundle(<<>>),
                                Bundle(<<[kind |-> "key"]>>), Bundle(<<Ca(3)>>),
                                Bundle(<<Ca(1), Ca(3)>>), Bundle(<<[Ca(1) EXCEPT !.until = 1]>>)}}
              \union {[Hooked EXCEPT !.failurePolicy = {"Ignore"}],
                      [Hooked EXCEPT !.sideEffects = {}], [Hooked EXCEPT !.selector = {}],
                      [Hooked EXCEPT !.file = "tmpl"]}}
    \union {[HookTree EXCEPT !.tlsSecrets = {s}] :
        s \in {[TlsSecret EXCEPT !.crt = {}], [TlsSecret EXCEPT !.crt = Garbage]}
              \union {[TlsSecret EXCEPT !.crt = Bundle(<<leaf>>)] :
                        leaf \in {[Leaf EXCEPT !.until = 1], [Leaf EXCEPT !.eku = {}],
                                  [Leaf EXCEPT !.san = <<>>], [Leaf EXCEPT !.ca = TRUE],
                                  [Leaf EXCEPT !.from = -1]}}}
    \union {[AgentTree EXCEPT !.files = {[key |-> TRUE]}],
            [AgentTree EXCEPT !.catalog = {[readable |-> FALSE, kinds |-> {}, declared |-> {}]}]}
    \union {WithAgent(w) :
        w \in {[Agent EXCEPT !.containers[1].limits = {"cpu"}],
               [Agent EXCEPT !.containers[1].privileged = {TRUE}],
               [Agent EXCEPT !.containers[1].escalation = {}],
               [Agent EXCEPT !.containers[1].drops = {}], [Agent EXCEPT !.account = <<>>],
               [Agent EXCEPT !.volumes = @ \union {[Tracefs EXCEPT !.name = "run",
                                                                   !.path = <<"var", "run">>]}]}}

Trees ==
    {WithAgent(w) : w \in Readers(Agent, "bundle", 1) \union Aiming \union Naming}
    \union {WithHook(w) : w \in Readers(Webhook, "tls", 2) \union Serving}
    \union {Tree({w}, {}) : w \in Readers(Controller, "seed", 1)
                \union {[Controller EXCEPT !.containers[1].args =
                            <<EqToken("seed-file", SeedDir \o <<"seed">>)>>]}}
    \union Tokens(AgentTree, Agent) \union Tokens(HookTree, Webhook) \union Spoiled

(* ---- nodes and ELFs ---- *)

Struct(name, fields) == [kind |-> "struct", name |-> name, ref |-> 0, members |-> fields]
Type(kind, name, ref) == [kind |-> kind, name |-> name, ref |-> ref, members |-> {}]
Filename(bits, ref) == [name |-> "filename", bits |-> bits, bitfield |-> FALSE, ref |-> ref]
CharPtr == <<Type("int", "char", 0), Type("const", "", 1), Type("ptr", "", 2)>>
Binprm(bits, ref) == Struct("linux_binprm", {Filename(bits, ref)})
GoodBtf == Append(CharPtr, Binprm(64, 3))
Btfs == {GoodBtf, CharPtr, Append(GoodBtf, Binprm(128, 3)), Append(GoodBtf, Binprm(64, 3)),
         Append(CharPtr, Binprm(0, 3)), Append(CharPtr, Binprm(64, 1)),
         <<Type("unheard of", "", 0)>> \o GoodBtf, Append(CharPtr, Binprm(68, 3)),
         <<Type("int", "char", 0), Type("typedef", "", 2), Type("ptr", "", 2), Binprm(64, 3)>>}

Hooks == <<"execve", "openat", "open">>
Good == [arch |-> {"execve", "openat", "open"}, tracefs |-> TRUE,
         tracepoints |-> {"execve", "openat", "open"}, lsm |-> "listed", btf |-> {GoodBtf},
         hardLimit |-> "enough", charges |-> FALSE, bpffs |-> TRUE, bpfLink |-> TRUE,
         planted |-> {}, filenameAt |-> 8]
Nodes ==
    {Good, [Good EXCEPT !.arch = {"execve", "openat"}],
     [Good EXCEPT !.tracepoints = {"execve"}], [Good EXCEPT !.tracepoints = {}],
     [Good EXCEPT !.lsm = "unlisted"], [Good EXCEPT !.lsm = "unreadable"],
     [Good EXCEPT !.lsm = "unreadable", !.btf = {}], [Good EXCEPT !.btf = {}],
     [Good EXCEPT !.charges = TRUE], [Good EXCEPT !.charges = TRUE, !.hardLimit = "low"],
     [Good EXCEPT !.bpffs = FALSE], [Good EXCEPT !.bpfLink = FALSE]}
    \union {[Good EXCEPT !.planted = {p}] : p \in {"ferrum_self", "execve", "openat", LSM_HOOK}}
    \union {[Good EXCEPT !.btf = {t}, !.filenameAt = at] : t \in Btfs, at \in {8}}
    \union {[Good EXCEPT !.btf = {Append(GoodBtf, Binprm(128, 3))}, !.filenameAt = 16]}

Symbol(name, def) == [name |-> name, def |-> def, object |-> TRUE, section |-> "maps",
                      whole |-> TRUE]
Symbols == {Symbol(name, REQUIRED_MAPS[name]) : name \in DOMAIN REQUIRED_MAPS}
GoodElf == [wellFormed |-> TRUE, symbols |-> Symbols,
            programs |-> {"execve", "openat", "open", LSM_HOOK}]
Elfs == {GoodElf, [GoodElf EXCEPT !.wellFormed = FALSE],
         [GoodElf EXCEPT !.symbols = {s \in Symbols : s.name # "ferrum_rules"}],
         [GoodElf EXCEPT !.symbols = {IF s.name = "ferrum_self" THEN [s EXCEPT !.def = "other"]
                                      ELSE s : s \in Symbols}],
         [GoodElf EXCEPT !.programs = {"execve", "openat", "open"}],
         [GoodElf EXCEPT !.programs = {"execve", "open", LSM_HOOK}]}

Node == [hostDirs |-> {SysTracing}, cgroup2 |-> TRUE]

(* The families vary on a node whose kernel holds the attach back; the     *)
(* nodes vary under the right install.                                     *)
Quiet == [Good EXCEPT !.arch = {"execve"}, !.lsm = "unlisted", !.bpffs = FALSE]
Install(t, k, e, n) == [tree |-> t, kernel |-> k, elf |-> e, node |-> n, issues |-> FALSE]
MCInstalls ==
    {Install(t, Quiet, GoodElf, Node) : t \in Trees}
    \union {Install(AgentTree, k, GoodElf, n) : k \in Nodes,
                n \in {Node, [Node EXCEPT !.cgroup2 = FALSE], [Node EXCEPT !.hostDirs = {}]}}
    \union {Install(AgentTree, Good, e, Node) : e \in Elfs}
    \union {[Install(HookTree, Quiet, GoodElf, Node) EXCEPT !.issues = TRUE]}

(* What the operator asks gen-webhook-pki for.                             *)
SomeDir == {{}} \union {{d} : d \in Dirs}
MCPkiArgs ==
    {args \in [service : {Hook}, namespace : {"ferrum"}, days : {1, 2}, out_dir : Dirs,
               ca_cert : SomeDir, ca_key : SomeDir, webhook_config : SomeDir] :
        args.webhook_config # {} => args.ca_cert # {}}

(* No directory is told from another but by what lies in it.               *)
SameDirs == Permutations(Dirs)

=============================================================================
