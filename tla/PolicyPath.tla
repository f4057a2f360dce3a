----------------------------- MODULE PolicyPath -----------------------------
(***************************************************************************)
(* The way of a policy from the operator to a syscall: validated and       *)
(* compiled on the control plane (PolicyRules, Wire), signed into a Secret *)
(* by the controller or by ferrumctl and mounted (Envelope), read back by  *)
(* agent and webhook (Envelope, Wire), given to the kernel as slots        *)
(* (RuntimeRules), and met by a syscall in the hook and in the agent       *)
(* (ExecHook).  The policies, the syscalls and the pods they come from are *)
(* given sets, listed in the MC module.                                    *)
(***************************************************************************)
EXTENDS ExecHook, Envelope

CONSTANTS
  Policies,      \* specs an operator may write
  Calls,         \* syscalls a process may make, with their architecture
  Identities,    \* what the index may know of the pod they come from
  Probed,        \* the policies whose mount may also be damaged
  Earlier        \* a policy the same key signed before

\* A tracepoint is attached only where the architecture has the syscall; what a process
\* passes, and what the kernel keeps of it, ends at its first NUL, and a comm is inside
\* its buffer.
ASSUME CallsAssumption ==
  \A c \in Calls :
    /\ c.syscall \in datapath_syscalls_for_arch(c.arch)
    /\ c.path \in Seq(Nat \ {NUL}) /\ c.filename \in Seq(Nat \ {NUL})
    /\ c.comm \in Seq(Nat \ {NUL}) /\ Len(c.comm) < COMM_LEN
    /\ c.in_container \in BOOLEAN /\ c.agent_self \in BOOLEAN

VARIABLES
  policy,     \* the spec as written
  scope,      \* "cluster" or "namespaced"
  stage,      \* how far it got
  bundleSecret, \* the signed Secret: {} or one [bundle, digest]
  mount,      \* what the planes find at --bundle: {} or one
  root,       \* the pinned trust root both were given
  loaded,     \* the agent's spec: {} or one
  program,    \* the webhook's program: {} or one
  layoutKnown,\* BTF told where linux_binprm keeps the path
  kernel,     \* KernelRuleSet of the loaded spec
  call, identity   \* the syscall in progress and its pod

signing == <<bundleSecret, mount, root>>
policyVars == <<policy, scope, stage, signing, loaded, program, layoutKnown, kernel, call, identity>>

NoKernel == [refused |-> TRUE, rules |-> <<>>, excluded |-> {}]
Pin == Key(ED25519_PUBLIC_KEY_LEN, "owner")
Seeds ==
  {Key(ED25519_SECRET_KEY_LEN, "owner"), Key(ED25519_SECRET_KEY_LEN, "other"),
   Key(ED25519_SECRET_KEY_LEN, "zeros"), Key(0, "owner")}
SeedsOf(p) == IF p \in Probed THEN Seeds ELSE {Key(ED25519_SECRET_KEY_LEN, "owner")}

PolicyInit ==
  /\ policy \in Policies /\ scope \in {"cluster", "namespaced"}
  /\ stage = "authored" /\ bundleSecret = {} /\ mount = {} /\ root = Pin
  /\ loaded = {} /\ program = {}
  /\ layoutKnown = TRUE /\ kernel = NoKernel /\ call = {} /\ identity = {}

Signed(next) ==
  /\ bundleSecret' = next
  /\ stage' = IF next = {} THEN "refused" ELSE "signed"
  /\ UNCHANGED <<policy, scope, mount, root, loaded, program, layoutKnown, kernel, call, identity>>

\* reconcile, reconcile_namespaced: the controller compiles, signs and writes the Secret.
Reconcile ==
  /\ stage = "authored"
  /\ \E seed \in SeedsOf(policy) :
       Signed(UNION {bundle_secret_named(b, Pin) :
                b \in IF scope = "cluster" THEN compile_and_sign(policy, seed)
                      ELSE compile_and_sign_namespaced(policy, seed)})

\* An operator runs ferrumctl compile and ferrumctl sign, and makes the Secret himself.
Ferrumctl ==
  /\ stage = "authored"
  /\ \E seed \in SeedsOf(policy) :
       Signed(UNION {sign_file(f, seed) : f \in compile_yaml(policy, scope)})

\* What may lie at the mount instead of the Secret: a copy cut short, one of another
\* version, unsigned, signed for something else, by or for another key, an older
\* bundle, parts of two, or the bytes of a bundle that the key signed as something else.
EarlierRaw == CHOOSE raw \in emit_bundle(Earlier) : TRUE
EarlierFile ==
  FsigFile(SIGNED_FORMAT, Pin,
    Signature(ED25519_SIGNATURE_LEN, "owner", BUNDLE_SIGNATURE_CONTEXT, EarlierRaw), EarlierRaw, TRUE)
StrayRaw == CHOOSE raw \in emit_bundle([Earlier EXCEPT !.priority = @ + 1]) : TRUE
StrayFile ==
  FsigFile(SIGNED_FORMAT, Pin,
    Signature(ED25519_SIGNATURE_LEN, "owner", BREAK_GLASS_CONTEXT, StrayRaw), StrayRaw, TRUE)
Damaged(f) ==
  {f, EarlierFile, StrayFile, [f EXCEPT !.raw = EarlierRaw],
   [f EXCEPT !.whole = FALSE], [f EXCEPT !.format = 2],
   [f EXCEPT !.public_key.of = "other"], [f EXCEPT !.public_key.len = 0],
   [f EXCEPT !.signature.len = 0], [f EXCEPT !.signature.by = "other"],
   [f EXCEPT !.signature.context = BREAK_GLASS_CONTEXT],
   PlainFile("FRMB", f.raw), PlainFile("empty", <<>>), PlainFile("garbage", <<>>)}
Digests(f) ==
  {{}, {PlainFile("empty", NoDigest)}, {PlainFile("text", NoDigest)},
   {PlainFile("garbage", NoDigest)}, {PlainFile("text", bundle_digest(f.raw))},
   {PlainFile("text", bundle_digest(EarlierRaw))}, {PlainFile("text", bundle_digest(StrayRaw))}}
Json(f, digest) == [form |-> "json", bundle |-> {f}, digest |-> digest, raw |-> <<>>]

AsWritten(s) == [path |-> "dir", data |-> TRUE, bundle |-> s.bundle, digest |-> s.digest]
Mounts(s) ==
  {AsWritten(s)} \cup
  UNION {{[path |-> p, data |-> d, bundle |-> b, digest |-> digest] :
            p \in {"dir", BUNDLE_FSIG_KEY, "policy.fsig"}, d \in BOOLEAN, digest \in Digests(f),
            b \in {{}} \cup {{g} : g \in Damaged(f) \cup {Json(f, j) : j \in Digests(f)}}} : f \in s.bundle}

\* Secret, kubelet and the flags of both planes meet.
Mount ==
  /\ stage = "signed"
  /\ \E s \in bundleSecret :
       \E m \in IF policy \in Probed THEN Mounts(s) ELSE {AsWritten(s)} : mount' = {m}
  /\ root' \in IF policy \in Probed
               THEN {Pin, Key(ED25519_PUBLIC_KEY_LEN, "other"),
                     Key(ED25519_PUBLIC_KEY_LEN, "zeros"), Key(0, "owner")}
               ELSE {Pin}
  /\ stage' = "mounted"
  /\ UNCHANGED <<policy, scope, bundleSecret, loaded, program, layoutKnown, kernel, call, identity>>

\* Agent and webhook read the mount; the agent also from last-known-good.
Load ==
  /\ stage = "mounted"
  /\ \E m \in mount :
       /\ \E dead \in {"Reject", "Drop"} :
            loaded' = UNION {LoadFebp(raw, dead) :
                        raw \in UNION {load_path(m, r) : r \in parse_trust_root(root)}}
       /\ program' = UNION {admission_load_path(m, r) : r \in admission_parse_trust_root(root)}
  /\ stage' = "loaded"
  /\ UNCHANGED <<policy, scope, signing, layoutKnown, kernel, call, identity>>

\* The slots are compiled for what the hook of this node can read.  How the policy came
\* is forgotten.
Publish ==
  /\ stage = "loaded"
  /\ layoutKnown' \in BOOLEAN
  /\ \E spec \in loaded : kernel' = compile_kernel_rules_for(spec, layoutKnown')
  /\ stage' = "published"
  /\ bundleSecret' = {} /\ mount' = {} /\ root' = Pin
  /\ UNCHANGED <<policy, scope, loaded, program, call, identity>>

\* A process makes a syscall.
Enter ==
  /\ stage = "published"
  /\ \E c \in Calls : call' = {c}
  /\ \E spec \in loaded :
       \E i \in IF is_empty(spec.selector) THEN {CHOOSE x \in Identities : TRUE} ELSE Identities :
         identity' = {i}
  /\ stage' = "entered"
  /\ UNCHANGED <<policy, scope, signing, loaded, program, layoutKnown, kernel>>

\* The answers were given: the next syscall.
Leave ==
  /\ stage = "entered"
  /\ call' = {} /\ identity' = {} /\ stage' = "published"
  /\ UNCHANGED <<policy, scope, signing, loaded, program, layoutKnown, kernel>>

PolicyNext == Reconcile \/ Ferrumctl \/ Mount \/ Load \/ Publish \/ Enter \/ Leave
PolicySpec == PolicyInit /\ [][PolicyNext]_policyVars

-----------------------------------------------------------------------------
(* Both answers to the syscall in progress.                                *)

The(set) == CHOOSE x \in set : TRUE
InProgress == stage = "entered"
IsExec == The(call).syscall \in EXEC_SYSCALLS
InUtf8 ==
  NotUtf8 \cap (Range(The(call).path) \cup Range(The(call).filename) \cup Range(The(call).comm)) = {}

\* selected_cgroups_for_last_good: labels nobody observed select nothing here.
Selected ==
  LET selector == The(loaded).selector
  IN  ~is_empty(selector) /\ selector_match(selector, The(identity)) = "Match"

\* What the agent gets to see of the syscall, if there is a record of it, and decides.
Events == {syscall_event(record, The(call).arch) : record \in emit(The(call))}
Decided(event) == decide_with(The(loaded), event, The(identity), FALSE)
Stops(decision) == decision.action \in {"Deny", "Kill"}
Refused ==
  ferrum_bprm_check_security(
    kernel.rules,
    [The(call) EXCEPT !.selected = Selected],
    layoutKnown, 0) # 0

\* The event of a record that lost nothing: what the policy was written about.
WholeEvent(event) ==
  [event EXCEPT !.path = IF The(call).syscall \in PATH_BEARING_SYSCALLS THEN The(call).path
                         ELSE <<>>,
                !.comm = The(call).comm, !.path_truncated = FALSE]

\* The event of a record made of what the hook reads.
HookEvent ==
  LET c == The(call)
      reads == {"nr"} \cup (IF "kernel" \in c.reads THEN {"user"} ELSE {})
                     \cup (IF "hook comm" \in c.reads THEN {"comm"} ELSE {})
  IN  syscall_event(new_event([c EXCEPT !.path = c.filename, !.reads = reads]), c.arch)

NamesPath(rule) == rule.match_on.path_prefix # <<>> \/ rule.match_on.path_suffix # <<>>
NamesComm(rule) == rule.match_on.comm_in # <<>>
RulesNamed(id) == {rule \in Range(The(loaded).runtime.rules) : rule.id = id}

-----------------------------------------------------------------------------
(* Properties.                                                             *)

ReadBack ==
  (/\ stage = "loaded" /\ root = Pin
   /\ \E s \in bundleSecret : mount = {AsWritten(s)} /\ \A f \in s.bundle : f.public_key = Pin) =>
    /\ loaded =
         {[mode |-> policy.mode, disabled |-> policy.disabled, priority |-> policy.priority,
           selector |-> policy.selector,
           runtime |->
             [default_action |-> policy.runtime.default_action,
              rules |-> [i \in DOMAIN policy.runtime.rules |->
                [policy.runtime.rules[i] EXCEPT
                   !.syscalls = [j \in DOMAIN @ |-> trim(@[j])]]]]]}
    /\ program =
         {[mode |-> policy.mode, disabled |-> policy.disabled, priority |-> policy.priority,
           supply |-> policy.supply, admit |-> policy.admit, selector |-> policy.selector]}

Text == Seq(Nat)
Rules ==
  [id : Text, syscalls : Seq(Text), action : DOMAIN rank,
   match_on : [comm_in : Seq(Text), container_only : BOOLEAN, path_prefix : Seq(Text),
               path_suffix : Seq(Text), not_agent_self : BOOLEAN]]

\* The evaluator is given whole rules, and none that can never fire.
LoadedIsWellFormed ==
  \A spec \in loaded :
    /\ spec.runtime.default_action \in DOMAIN rank /\ spec.runtime.rules \in Seq(Rules)
    /\ \A rule \in Range(spec.runtime.rules) : ~dead_rule_reason(rule)

\* compiler/lib.rs, spec.rs, program.rs: what the control plane accepts, every agent
\* and webhook loads from the Secret as it was written, and both read back exactly what
\* the operator wrote; and whatever bytes an agent loads, live or stored, the rules it
\* runs are whole and can fire.
AcceptedPolicyLoads == ReadBack /\ LoadedIsWellFormed

\* source.rs, bundle.rs: "The embedded FSIG public key is not a trust root".  Whatever
\* lies at the mount, what either plane runs is a bundle that the holder of the pinned
\* key signed as a bundle, byte for byte.
OnlySignedPolicyLoads ==
  stage = "loaded" =>
    LET files == {EarlierFile} \cup UNION {s.bundle : s \in bundleSecret}
        signs(f) == f.signature =
          Signature(ED25519_SIGNATURE_LEN, root.of, BUNDLE_SIGNATURE_CONTEXT, f.raw)
        owned == {f.raw : f \in {g \in files : signs(g)}}
    IN  /\ loaded \subseteq UNION {LoadFebp(raw, dead) : raw \in owned, dead \in {"Reject", "Drop"}}
        /\ program \subseteq UNION {parse_verified(raw) : raw \in owned}

\* source.rs, bundle.rs, fsig.rs, apply.rs: four hand-written readers "duplicated on
\* purpose" answer alike.  On a Secret mount (not of JSON, which only the webhook reads)
\* the agent takes a bundle exactly when the webhook does, and it is the one the mounted
\* digest names; ferrumctl verify accepts what they take; a waiver list is good for both
\* or for neither; and a Secret the controller leaves alone as live is one both load
\* (given it still has its digest and embeds the pinned key: live_secret_matches looks
\* at neither).
PlanesAgree ==
  stage = "loaded" => \A m \in mount :
    /\ (m.path = "dir" \/ is_secret_fsig_file(m)) =>
         /\ \A f \in m.bundle : f.form # "json" => (loaded = {} <=> program = {})
         /\ (loaded # {} \/ (program # {} /\ \A f \in m.bundle : f.form # "json")) =>
              \E f \in m.bundle : m.digest = {PlainFile("text", bundle_digest(f.raw))}
         /\ loaded # {} => \A f \in m.bundle : verify_file(f, root)
    /\ \A f \in m.bundle : load_exceptions_source(f, root) = verify_exceptions_fsig(f, root)
    /\ \A s \in bundleSecret : \A f \in s.bundle :
         (/\ m.path = "dir" /\ m.digest # {} /\ \A g \in m.bundle : g.form = "FSIG" => g.public_key = root
          /\ live_secret_matches(m, root, bundle_digest(f.raw)))
         => loaded # {} /\ program # {}

\* progs/lib.rs, kernel_rule_matches: "Two matchers that drift are two policies".  The
\* hook refuses an exec only when the agent, asked about what the hook read, decides
\* deny or kill; and it decides so about the record of the same exec, unless the rule
\* names a path and the two read different ones (the buffer was rewritten, the kernel
\* put a directory in front, or its copy could not be read) or names a comm that one of
\* them could not read.
\* (The hook does not see which of execve and execveat it was, and compares bytes where
\* the record ends at the first that is not UTF-8.)
KernelRefusesOnlyDecided ==
  (InProgress /\ IsExec /\ InUtf8 /\ Refused) =>
    LET c == The(call)
        seen == {Decided([HookEvent EXCEPT !.syscall = s]) : s \in EXEC_SYSCALLS}
    IN  /\ \E d \in seen : Stops(d)
        /\ \A event \in Events :
             \/ \E s \in EXEC_SYSCALLS : Stops(Decided([event EXCEPT !.syscall = s]))
             \/ \E d \in seen : Stops(d) /\ \E rule \in RulesNamed(d.rule_id) :
                  \/ /\ NamesPath(rule) /\ "user" \in c.reads
                     /\ c.filename # c.path \/ "kernel" \notin c.reads
                  \/ NamesComm(rule) /\ ~({"comm", "hook comm"} \subseteq c.reads)

\* The hook reads of the exec what the record holds, as far as the rule asks: below a
\* directory descriptor the end of the path is the same; a path the hook cannot read is
\* any path.
ReadsAlike(rule) ==
  LET c == The(call)
  IN  /\ NamesPath(rule) =>
           \/ "kernel" \notin c.reads
           \/ /\ "user" \in c.reads
              /\ \/ c.filename = c.path
                 \/ rule.match_on.path_prefix = <<>> /\ ends_with(c.filename, c.path)
      /\ NamesComm(rule) => {"comm", "hook comm"} \subseteq c.reads

\* krules.rs: "A rule the kernel cannot decide is named, never dropped".  An exec that
\* the agent decides to deny or kill by a rule that is not on the list of exclusions,
\* from a pod whose labels are known, is refused by the hook, if it reads what the
\* record holds.
KernelRefusesWhatItHolds ==
  (InProgress /\ IsExec /\ InUtf8 /\ ~kernel.refused) => \A event \in Events :
    LET d == Decided(event)
        rules == The(loaded).runtime.rules
    IN  (/\ Stops(d) /\ ~d.labels_unknown
         /\ \E i \in DOMAIN rules : rules[i].id = d.rule_id /\ i \notin kernel.excluded
         /\ \A rule \in RulesNamed(d.rule_id) : ReadsAlike(rule))
        => Refused

\* Hook and evaluator are one policy: neither refuses without the other, but for what
\* one of them does not get to read.
KernelRefusesRightly == KernelRefusesOnlyDecided /\ KernelRefusesWhatItHolds

\* prefilter.rs: a record the image would hide is one no rule and no default acts on.
PrefilterHidesNothing ==
  InProgress => \A event \in Events :
    Hidden(prefilter_image(The(loaded)), event) => Decided(event).action = "Allow"

\* event.rs, path_truncated: "over-enforce with a signal rather than under-enforce in
\* silence".  What a record lost of its path (a long one, an unreadable page, the
\* buffer) never makes the decision of a rule weaker than it is for the whole path, and
\* makes the default weaker only by a rule that names a path: an Allow under a default
\* of Audit applies to a path nobody has seen as well.  A name lost is not flagged: then,
\* and only then, a rule that names a comm misses, or meets the empty name instead.
\* (A path or name that is not UTF-8 is cut without a flag, and is left out.)
NothingUnderEnforced ==
  InProgress /\ InUtf8 => \A event \in Events :
    LET whole == Decided(WholeEvent(event))
        nameless == "comm" \notin The(call).reads
    IN  \/ rank[whole.action] <= rank[Decided(event).action]
        \/ nameless /\ \E rule \in RulesNamed(whole.rule_id) : NamesComm(rule)
        \/ /\ whole.rule_id = <<>>
           /\ \E rule \in RulesNamed(Decided(event).rule_id) :
                NamesPath(rule) \/ (nameless /\ NamesComm(rule))

-----------------------------------------------------------------------------
(* What the comments say, and the code does not do.                        *)

\* "Both cases over-enforce: every rule naming a path applies to a record whose path was
\* not observed" (eval.rs, rule_matches): what was lost never weakens a decision.  An
\* Allow that names a path applies as well, and replaces a default of Audit.
LossNeverWeakens ==
  InProgress /\ InUtf8 => \A event \in Events :
    rank[Decided(WholeEvent(event)).action] <= rank[Decided(event).action]

\* "A prefix rule therefore matches neither ... the kernel side is the stricter of the two
\* there, never the looser" (progs/lib.rs, ExecPath): of an execveat below a directory
\* descriptor, what the record matches the hook refuses.  A pattern need not begin with
\* a slash: a prefix of the relative path matches the record alone.
KernelNeverLooser ==
  (InProgress /\ IsExec /\ InUtf8 /\ ~kernel.refused
     /\ {"user", "kernel", "comm", "hook comm"} \subseteq The(call).reads
     /\ ends_with(The(call).filename, The(call).path)) => \A event \in Events :
    LET d == Decided(event)
        rules == The(loaded).runtime.rules
    IN  (/\ Stops(d) /\ ~d.labels_unknown
         /\ \E i \in DOMAIN rules : rules[i].id = d.rule_id /\ i \notin kernel.excluded)
        => Refused

=============================================================================
