--------------------------- MODULE AdmissionRules ---------------------------
(***************************************************************************)
(* What one admission review decides: the pure half of ferrum-admission    *)
(* (subject.rs, eval.rs, review.rs, program.rs) and of the waiver rule of  *)
(* ferrum-policy (eval.rs).                                                *)
(*                                                                         *)
(* Data is abstracted to what a rule tells apart.  An image is a record of *)
(* its parsed reference; a label map is a function from keys to values; an *)
(* optional value is a set with at most one member; a structure of the     *)
(* wrong JSON type is the entry "malformed" where the parser meets it; a   *)
(* signature is the pair of the image and the key it was made with.        *)
(***************************************************************************)
EXTENDS Integers, FiniteSets, Sequences, SequencesExt

\* Answers of a check that may also fail.
Answers == {"yes", "no", "error"}

\* The first answer of a sequence that is not "yes", as && and ? produce it.
FirstNot(answers) ==
  LET bad == {i \in DOMAIN answers : answers[i] # "yes"}
  IN  IF bad = {} THEN "yes" ELSE answers[CHOOSE i \in bad : \A j \in bad : i <= j]

-----------------------------------------------------------------------------
(* ferrum-policy/src/eval.rs: waivers and the strongest action.            *)

MIN_REASON_LEN == 8
MAX_EXCEPTION_DAYS == 90

action_rank == [Allow |-> 0, Audit |-> 1, Deny |-> 2, Isolate |-> 3, Kill |-> 4]

\* A waiver counts only while it is complete, approved by a second person,
\* live, short enough and aimed at this namespace, policy and rule.
exception_applies(spec, namespace, policy, rule, now) ==
  /\ spec.ticket # "" /\ spec.reason >= MIN_REASON_LEN
  /\ spec.approved_by # "" /\ spec.approved_by # spec.requested_by
  /\ now < spec.expires_at
  /\ spec.expires_at <= now + MAX_EXCEPTION_DAYS
  /\ spec.namespace = namespace
  /\ policy \in spec.policies
  /\ rule \in spec.rules

exception_applies_to(exceptions, hit, now) ==
  \E spec \in exceptions : exception_applies(spec, hit.namespace, hit.policy, hit.rule, now)

\* A waiver lifts the hit it names; what is left decides by its strongest action.
evaluate(hits, default_action, exceptions, now) ==
  LET live == {h.action : h \in {x \in hits : ~exception_applies_to(exceptions, x, now)}}
  IN  IF live = {} THEN default_action
      ELSE CHOOSE a \in live : \A b \in live : action_rank[b] <= action_rank[a]

-----------------------------------------------------------------------------
(* eval.rs: selectors.                                                     *)

cluster_scoped_kind(kind) == kind \in {"ClusterRole", "ClusterRoleBinding"}

selector_nonempty(sel) == DOMAIN sel.match_labels # {} \/ sel.match_expressions # <<>>

match_expression(e, labels) ==
  LET has == e.key \in DOMAIN labels
      Answer(b) == IF b THEN "yes" ELSE "no"
  IN  CASE e.operator = "In"           -> Answer(has /\ labels[e.key] \in e.values)
        [] e.operator = "NotIn"        -> Answer(~has \/ labels[e.key] \notin e.values)
        [] e.operator = "Exists"       -> Answer(has)
        [] e.operator = "DoesNotExist" -> Answer(~has)
        [] OTHER                       -> "error"

label_selector_matches(sel, labels) ==
  IF \E k \in DOMAIN sel.match_labels :
       k \notin DOMAIN labels \/ labels[k] # sel.match_labels[k]
  THEN "no"
  ELSE FirstNot([i \in DOMAIN sel.match_expressions |->
                   match_expression(sel.match_expressions[i], labels)])

\* A selector over labels nobody has observed is an error, not a mismatch.
require_labels_if_selected(sel, labels) ==
  IF selector_nonempty(sel) /\ labels = {} THEN "error" ELSE "yes"

NoLabels == [k \in {} |-> ""]
UnwrapOrNone(labels) == IF labels = {} THEN NoLabels ELSE CHOOSE l \in labels : TRUE

program_applies(program, subject) ==
  LET scoped == cluster_scoped_kind(subject.kind)
      Unless(answer) == IF scoped THEN "yes" ELSE answer
      Required == FirstNot(<<
        require_labels_if_selected(program.selector.cluster, subject.cluster_labels),
        Unless(require_labels_if_selected(program.selector.namespace, subject.namespace_labels)),
        Unless(require_labels_if_selected(program.selector.service_account,
                                          subject.service_account_labels))>>)
      Matches == FirstNot(<<
        label_selector_matches(program.selector.cluster, UnwrapOrNone(subject.cluster_labels)),
        Unless(label_selector_matches(program.selector.namespace,
                                      UnwrapOrNone(subject.namespace_labels))),
        label_selector_matches(program.selector.workload, subject.workload_labels),
        Unless(label_selector_matches(program.selector.service_account,
                                      UnwrapOrNone(subject.service_account_labels)))>>)
  IN  IF subject.policy_namespace # "" /\ subject.namespace # subject.policy_namespace
      THEN "no"
      ELSE IF Required # "yes" THEN Required ELSE Matches

-----------------------------------------------------------------------------
(* subject.rs: what the rules see of an object.                            *)

\* A list is read in order up to the first entry that settles the question.
ScanList(items, hit) ==
  LET stops == {i \in DOMAIN items : items[i] \in {hit, "malformed"}}
      first == CHOOSE i \in stops : \A j \in stops : i <= j
  IN  IF stops = {} THEN "no" ELSE IF items[first] = hit THEN "yes" ELSE "error"

rules_have_wildcard(rules) == ScanList(rules, "star")
volumes_host_path(volumes) == ScanList(volumes, "hostPath")
is_cluster_admin_ref(ref) ==
  CASE ref = "malformed" -> "error" [] ref = "cluster-admin" -> "yes" [] OTHER -> "no"

\* The container's field, or the pod's when the container does not set it.
Inherited(container_sc, pod_sc, field) ==
  IF container_sc[field] # "unset" THEN container_sc[field] ELSE pod_sc[field]

runs_as_root(pod_sc, container_sc) ==
  /\ Inherited(container_sc, pod_sc, "runAsNonRoot") # "true"
  /\ Inherited(container_sc, pod_sc, "runAsUser") \in {"unset", "0"}

verifying_keys(roots) == UNION roots \ {"blank", "short"}

\* An image is covered by its own entry of the signatures annotation, or by the
\* single-signature annotation when the pod names one image only.
image_signature_ok(image, images, object, keys) ==
  LET sig == IF image \in DOMAIN object.signatures THEN {object.signatures[image]}
             ELSE IF Cardinality(images) = 1 THEN object.signature ELSE {}
  IN  \E k \in keys : [image |-> image, key |-> k] \in sig

image_lacks_digest(image) == image.digest = "none"
image_looks_latest(image) == image.digest = "none" /\ image.tag \in {"none", "latest"}

\* The empty reference, as parse_image reads it.
NoImage == [name |-> "", registry |-> "docker.io", tag |-> "none", digest |-> "none"]

\* One image stands for all in the reference rules: the first unsigned one, else
\* the first without a digest, else the first that looks latest, else the first.
pick_image(images, signed) ==
  LET FirstWith(Test(_)) ==
        LET hits == {i \in DOMAIN images : Test(images[i])}
        IN  IF hits = {} THEN {} ELSE {images[CHOOSE i \in hits : \A j \in hits : i <= j]}
      IsUnsigned(i) == i \notin signed
      choices == <<FirstWith(IsUnsigned), FirstWith(image_lacks_digest),
                   FirstWith(image_looks_latest), FirstWith(LAMBDA i : TRUE)>>
      found == {n \in DOMAIN choices : choices[n] # {}}
  IN  IF found = {} THEN NoImage
      ELSE CHOOSE i \in choices[CHOOSE n \in found : \A m \in found : n <= m] : TRUE

EmptySubject ==
  [kind |-> "", namespace |-> "", workload_labels |-> NoLabels, service_account |-> "",
   policy_name |-> "", policy_namespace |-> "",
   cluster_labels |-> {}, namespace_labels |-> {}, service_account_labels |-> {},
   image |-> NoImage, image_signed |-> FALSE, facts |-> {}, added_capabilities |-> {}]

\* A pod's facts are the disjunction over its containers, init and ephemeral ones
\* included; a pod without containers has the worst of them.
fill_pod(object, base, roots) ==
  LET cs == object.containers
      images == SelectSeq([i \in DOMAIN cs |-> cs[i].image], LAMBDA i : i.name # "")
      keys == verifying_keys(roots)
      signed == {i \in Range(images) : image_signature_ok(i, Range(images), object, keys)}
      Some(P(_)) == \E i \in DOMAIN cs : P(cs[i].sc)
      facts ==
        object.host
        \cup (IF volumes_host_path(object.volumes) = "yes" THEN {"hostPath"} ELSE {})
        \cup (IF Some(LAMBDA sc : sc.privileged = "true") THEN {"privileged"} ELSE {})
        \cup (IF cs = <<>> \/ Some(LAMBDA sc : sc.allowPrivilegeEscalation # "false")
              THEN {"allowPrivilegeEscalation"} ELSE {})
        \cup (IF IF cs = <<>> THEN runs_as_root(object.sc, object.sc)
                 ELSE Some(LAMBDA sc : runs_as_root(object.sc, sc))
              THEN {"runAsRoot"} ELSE {})
  IN  [base EXCEPT !.service_account = object.service_account,
         !.facts = facts,
         !.added_capabilities = UNION {cs[i].sc.add : i \in DOMAIN cs},
         !.image_signed = images # <<>> /\ Range(images) \subseteq signed,
         !.image = pick_image(images, signed)]

fill_role(object, base) ==
  [base EXCEPT !.facts = IF rules_have_wildcard(object.rules) = "yes" THEN {"wildcardsRbac"} ELSE {}]

fill_binding(object, base) ==
  [base EXCEPT !.facts = IF is_cluster_admin_ref(object.role_ref) = "yes"
                         THEN {"clusterAdminBind"} ELSE {}]

\* The object is read at all: no structure of the wrong type, and a Pod has a spec.
Parses(object) ==
  CASE object.kind = "Pod" ->
         object.spec = "object" /\ volumes_host_path(object.volumes) # "error"
    [] object.kind \in {"Role", "ClusterRole"} -> rules_have_wildcard(object.rules) # "error"
    [] object.kind \in {"RoleBinding", "ClusterRoleBinding"} ->
         is_cluster_admin_ref(object.role_ref) # "error"
    [] OTHER -> TRUE

subject_from_object(object, roots) ==
  LET base == [EmptySubject EXCEPT !.kind = object.kind, !.namespace = object.namespace,
                                   !.workload_labels = object.labels]
  IN  CASE object.kind = "Pod" -> fill_pod(object, base, roots)
        [] object.kind \in {"Role", "ClusterRole"} -> fill_role(object, base)
        [] object.kind \in {"RoleBinding", "ClusterRoleBinding"} -> fill_binding(object, base)
        [] OTHER -> base

-----------------------------------------------------------------------------
(* eval.rs: rules and mutations.                                           *)

\* A reference without a tag and without a digest means latest.
image_is_latest(image) ==
  image.tag = "latest" \/ (image.tag = "none" /\ image.digest \in {"none", "empty"})

has_verifying_public_keys(roots) == \E root \in roots : \E key \in root : key # "blank"

\* Capabilities: "NET_BIND_SERVICE" is allowed by both profiles, "CHOWN" stands for
\* the rest of the baseline list, "SYS_ADMIN" for what neither allows.
pss_forbids_added_capability(pss, cap) ==
  CASE pss = "Restricted" -> cap # "NET_BIND_SERVICE"
    [] pss = "Baseline"   -> cap \notin {"NET_BIND_SERVICE", "CHOWN"}
    [] OTHER              -> FALSE

\* The facts a profile denies on its own, beside the ones the policy lists.
PssDenies(pss) ==
  (IF pss \in {"Baseline", "Restricted"}
   THEN {"privileged", "hostPID", "hostIPC", "hostNetwork", "hostPath"} ELSE {})
  \cup (IF pss = "Restricted" THEN {"allowPrivilegeEscalation", "runAsRoot"} ELSE {})

collect_hits(program, subject) ==
  LET workload == subject.kind \in {"", "Pod"}
      role == subject.kind \in {"", "Role", "ClusterRole"}
      bind == subject.kind \in {"", "RoleBinding", "ClusterRoleBinding"}
      unsigned == /\ workload /\ program.supply.signed
                  /\ \/ ~has_verifying_public_keys(program.supply.roots)
                     \/ ~subject.image_signed
      latest == workload /\ program.supply.deny_latest /\ image_is_latest(subject.image)
      undigested == /\ workload /\ program.require_digest
                    /\ subject.image.digest \in {"none", "empty"}
      foreign == /\ workload /\ program.registries_allow # {}
                 /\ subject.image.registry \notin program.registries_allow
      pod == IF workload
             THEN (subject.facts \cap (program.deny \cup PssDenies(program.pss)))
                    \ {"wildcardsRbac", "clusterAdminBind"}
             ELSE {}
      caps == {c \in subject.added_capabilities :
                 pss_forbids_added_capability(program.pss, c) \/ c \in program.deny_caps}
      When(fires, rule) == IF fires THEN {rule} ELSE {}
  IN  When(unsigned, "unsigned") \cup When(latest, "latestTag")
      \cup When(undigested, "requireDigest") \cup When(foreign, "registryAllow") \cup pod
      \cup When(workload /\ caps # {}, "addedCapabilities")
      \cup (IF role THEN subject.facts \cap program.deny \cap {"wildcardsRbac"} ELSE {})
      \cup (IF bind THEN subject.facts \cap program.deny \cap {"clusterAdminBind"} ELSE {})

Patches == {"InjectSeccompRuntimeDefault", "DropAllCapabilities", "ReadOnlyRootFilesystem"}

mutations(program) ==
  IF program.mode = "Enforce" /\ program.pss = "Restricted" THEN Patches ELSE program.mutate

FailClosed == [allowed |-> FALSE, fail_closed |-> TRUE, mode |-> "Enforce",
               rules |-> {}, patches |-> {}]
Untouched(program) == [allowed |-> TRUE, fail_closed |-> FALSE, mode |-> program.mode,
                       rules |-> {}, patches |-> {}]

\* The whole decision on a subject.
admit(program, subject, exceptions, now) ==
  LET applies == program_applies(program, subject)
      pending == collect_hits(program, subject)
      Hit(rule) == [namespace |-> subject.policy_namespace, policy |-> subject.policy_name,
                    rule |-> rule, action |-> "Deny"]
      blocked == evaluate({Hit(r) : r \in pending}, "Allow", exceptions, now)
                   \in {"Deny", "Kill", "Isolate"}
      remaining == {r \in pending : ~exception_applies_to(exceptions, Hit(r), now)}
  IN  CASE program.disabled /\ program.mode = "Enforce" -> FailClosed
        [] OTHER ->
           CASE applies = "no"    -> Untouched(program)
             [] applies = "error" -> FailClosed
             [] OTHER ->
                IF program.disabled THEN Untouched(program)
                ELSE [allowed |-> ~blocked \/ program.mode # "Enforce", fail_closed |-> FALSE,
                      mode |-> program.mode, rules |-> remaining,
                      patches |-> mutations(program)]

-----------------------------------------------------------------------------
(* review.rs: the JSON Patch.  A document is the prefix-closed set of its  *)
(* paths; an operation adds the subtree `full` at the path `at`.           *)

container_paths(object) == {<<"container", i>> : i \in DOMAIN object.containers}

\* add_nested climbs from the wanted path to the first one whose parent the
\* ORIGINAL object has, and adds the missing levels in one value there.
add_nested(doc, path) ==
  LET Known(p) == p \in doc
      depths == {n \in 1..Len(path) : \/ Known(SubSeq(path, 1, n))
                                      \/ n = 1 \/ Known(SubSeq(path, 1, n - 1))}
      at == IF Known(path) THEN Len(path)
            ELSE CHOOSE n \in depths : \A m \in depths : m <= n
  IN  [at |-> SubSeq(path, 1, at), full |-> path]

rfc6902_patches(patches, object, doc) ==
  LET ps == SetToSeq(container_paths(object))
      For(patch, suffix) == IF patch \in patches
                            THEN [i \in DOMAIN ps |-> add_nested(doc, ps[i] \o suffix)] ELSE <<>>
      pod == IF "InjectSeccompRuntimeDefault" \in patches
             THEN <<add_nested(doc, <<"pod", "sc", "seccompProfile">>)>> ELSE <<>>
  IN  pod \o For("InjectSeccompRuntimeDefault", <<"sc", "seccompProfile">>)
          \o For("DropAllCapabilities", <<"sc", "capabilities", "drop">>)
          \o For("ReadOnlyRootFilesystem", <<"sc", "readOnlyRootFilesystem">>)

\* RFC 6902 add: the value replaces what stood at its path.
ApplyPatch(doc, ops) ==
  LET Add(d, op) == {p \in d : ~IsPrefix(op.at, p)}
                    \cup {SubSeq(op.full, 1, n) : n \in Len(op.at)..Len(op.full)}
  IN  FoldLeft(Add, doc, ops)

-----------------------------------------------------------------------------
(* review.rs: the review.                                                  *)

Reply(status, allowed, patch, why) ==
  [status |-> status, allowed |-> allowed, patch |-> patch, why |-> why]

ok_deny(why) == Reply(200, FALSE, <<>>, why)

decision_response(object, decision) ==
  IF decision.fail_closed THEN ok_deny("fail closed")
  ELSE IF ~decision.allowed THEN ok_deny("policy")
  ELSE Reply(200, TRUE,
             IF decision.mode = "Enforce" /\ decision.patches # {} /\ object.kind = "Pod"
             THEN rfc6902_patches(decision.patches, object, object.doc) ELSE <<>>,
             "policy")

watched_labels_selected(program) ==
  selector_nonempty(program.selector.namespace) \/ selector_nonempty(program.selector.service_account)

\* The subject the policy is asked about: the object's, with what the request and the
\* configuration add.
subject_of(cfg, body, prog) ==
  LET object == CHOOSE o \in body.object : TRUE
      raw == subject_from_object(object, prog.supply.roots)
      ns == IF raw.namespace = "" THEN body.namespace ELSE raw.namespace
      account == IF raw.service_account = "" THEN "default" ELSE raw.service_account
  IN  [raw EXCEPT !.namespace = ns, !.policy_name = cfg.policy_name,
         !.policy_namespace = cfg.policy_namespace,
         !.namespace_labels = cfg.labels.namespace[ns],
         !.service_account_labels = cfg.labels.service_account[<<ns, account>>],
         !.cluster_labels = cfg.labels.cluster]

\* One request body, against the program, the waivers and the grant in force.
\* Optional arguments are sets: program, grant, body.object.
handle_with(cfg, body, program, exceptions, grant, now) ==
  LET prog == CHOOSE p \in program : TRUE
      object == CHOOSE o \in body.object : TRUE
      subject == subject_of(cfg, body, prog)
      cold == ~cfg.labels.warm /\ ~cluster_scoped_kind(subject.kind) /\ watched_labels_selected(prog)
  IN  CASE body.shape \in {"empty", "not JSON", "no uid"} -> Reply(400, FALSE, <<>>, body.shape)
        [] OTHER ->
           IF \E g \in grant : now < g.expires_at THEN Reply(200, TRUE, <<>>, "break-glass")
           ELSE IF program = {} THEN ok_deny("no program")
           ELSE IF body.object = {} THEN ok_deny("no object")
           ELSE IF ~Parses(object) THEN ok_deny("malformed")
           ELSE IF cold THEN ok_deny("labels cold")
           ELSE decision_response(object, admit(prog, subject, exceptions, now))
=============================================================================
