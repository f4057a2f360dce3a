---------------------------- MODULE RuntimeRules ----------------------------
(***************************************************************************)
(* One policy, three matchers: the agent decides a record in userspace     *)
(* (ferrum-ebpf/src/eval.rs), the kernel refuses an exec on its own        *)
(* (krules.rs compiles the slots, ferrum-ebpf-progs walks them), and the   *)
(* prefilter (prefilter.rs) says which records userspace can live without. *)
(*                                                                         *)
(* A loaded policy is what Wire.tla decodes.  Texts are sequences of       *)
(* bytes, a buffer is a sequence padded with NUL.  The bit arithmetic of   *)
(* the slots is Boolean; the subtractions that may wrap keep their width.  *)
(***************************************************************************)
EXTENDS Wire

CONSTANTS
  PATH_LEN, COMM_LEN,     \* buffers of a record, NUL included
  KPATH_LEN,              \* pattern buffer of a slot
  MAX_KERNEL_RULES        \* slots of ferrum_rules

\* What the validator lets a rule name is what a record can hold (event.rs, tests).
ASSUME RuntimeRulesAssumption ==
  /\ PATH_LEN \in Nat /\ COMM_LEN \in Nat /\ KPATH_LEN \in Nat
  /\ KPATH_LEN < 128 /\ MAX_KERNEL_RULES \in Nat
  /\ PATH_LEN > 1 /\ PATH_MATCH_MAX = PATH_LEN - 1 /\ COMM_MATCH_MAX = COMM_LEN - 1

NUL == 0
rank == [Allow |-> 0, Audit |-> 1, Deny |-> 2, Isolate |-> 3, Kill |-> 4]

starts_with(s, p) == Len(p) <= Len(s) /\ SubSeq(s, 1, Len(p)) = p
ends_with(s, p) == Len(p) <= Len(s) /\ SubSeq(s, Len(s) - Len(p) + 1, Len(s)) = p

-----------------------------------------------------------------------------
(* eval.rs: selectors.                                                     *)

\* Operators of a label requirement, as texts.
In == <<121>>
NotIn == <<122>>
Exists == <<123>>
DoesNotExist == <<124>>

\* labels: a function from texts to texts.
expression_matches(e, labels) ==
  LET has == e.key \in DOMAIN labels
  IN  \/ e.operator = In /\ has /\ labels[e.key] \in Range(e.values)
      \/ e.operator = NotIn /\ (has => labels[e.key] \notin Range(e.values))
      \/ e.operator = Exists /\ has
      \/ e.operator = DoesNotExist /\ ~has

label_selector_matches(sel, labels) ==
  /\ \A p \in Range(sel.match_labels) : p[1] \in DOMAIN labels /\ labels[p[1]] = p[2]
  /\ \A e \in Range(sel.match_expressions) : expression_matches(e, labels)

labels_unobserved(sel, observed) == ~SelectorEmpty(sel) /\ ~observed

is_empty(selector) ==
  /\ SelectorEmpty(selector.cluster) /\ SelectorEmpty(selector.namespace)
  /\ SelectorEmpty(selector.workload) /\ SelectorEmpty(selector.service_account)
  /\ selector.registries_allow = <<>> /\ ~selector.require_digest

is_namespaced(selector) ==
  ~(SelectorEmpty(selector.namespace) /\ SelectorEmpty(selector.workload)
      /\ SelectorEmpty(selector.service_account))

image_matches(selector, identity) ==
  /\ selector.registries_allow = <<>>
       \/ \E reg \in Range(selector.registries_allow) :
            reg # <<>> /\ starts_with(identity.image, reg)
  /\ selector.require_digest => identity.has_digest

\* A pod nobody knows is outside a selector that needs one; labels nobody has
\* observed are an answer of their own.  Cluster labels are never observed.
selector_match(selector, identity) ==
  IF is_empty(selector) THEN "Match"
  ELSE IF is_namespaced(selector) /\ ~identity.known THEN "NoMatch"
  ELSE IF \/ labels_unobserved(selector.cluster, FALSE)
          \/ labels_unobserved(selector.namespace, identity.observed)
          \/ labels_unobserved(selector.service_account, identity.observed)
  THEN "LabelsUnknown"
  ELSE IF /\ label_selector_matches(selector.namespace, identity.namespace_labels)
          /\ label_selector_matches(selector.workload, identity.workload_labels)
          /\ label_selector_matches(selector.service_account, identity.account_labels)
          /\ image_matches(selector, identity)
  THEN "Match" ELSE "NoMatch"

-----------------------------------------------------------------------------
(* eval.rs: rules.                                                         *)

\* A list of patterns that is not empty and that no pattern of it hits.
NoPatternHits(patterns, Hits(_)) ==
  patterns # <<>> /\ ~\E p \in Range(patterns) : p # <<>> /\ Hits(p)

\* "no", "skipped" for a rule about containers and a record from none, "yes", or
\* "unknown" for a match that rests on a path nobody could read.
rule_matches(rule, event) ==
  LET on == rule.match_on
      unreadable == event.path_truncated /\ event.path = <<>>
      prefixMissed == NoPatternHits(on.path_prefix, LAMBDA p : starts_with(event.path, p))
      suffixMissed == NoPatternHits(on.path_suffix, LAMBDA p : ends_with(event.path, p))
  IN  IF \/ rule.syscalls # <<>> /\ event.syscall \notin Range(rule.syscalls)
         \/ on.comm_in # <<>> /\ event.comm \notin Range(on.comm_in)
         \/ prefixMissed /\ ~unreadable
         \/ suffixMissed /\ ~event.path_truncated
         \/ on.not_agent_self /\ event.agent_self
      THEN "no"
      ELSE IF on.container_only /\ ~event.in_container THEN "skipped"
      ELSE IF prefixMissed \/ suffixMissed THEN "unknown" ELSE "yes"

\* The first rule of the highest rank among those that match, or the default.  A
\* rule skipped because nobody proved the container is reported when it outranks.
matched_action_with(spec, event, container_unproven) ==
  LET rules == spec.runtime.rules
      hits == {i \in DOMAIN rules : rule_matches(rules[i], event) \in {"yes", "unknown"}}
      skipped == {i \in DOMAIN rules : rule_matches(rules[i], event) = "skipped"}
      top == {i \in hits : \A j \in hits : rank[rules[j].action] <= rank[rules[i].action]}
      action == IF hits = {} THEN spec.runtime.default_action ELSE rules[Min(top)].action
  IN  [action |-> action,
       rule_id |-> IF hits = {} THEN <<>> ELSE rules[Min(top)].id,
       path_unknown |-> hits # {} /\ rule_matches(rules[Min(top)], event) = "unknown",
       container_unknown |-> container_unproven
                               /\ \E i \in skipped : rank[rules[i].action] > rank[action],
       labels_unknown |-> FALSE]

cap_for_mode(mode, disabled, action) ==
  IF (disabled \/ mode \in {"Observe", "Audit"}) /\ action \notin {"Allow", "Audit"}
  THEN "Audit" ELSE action

decide_with(spec, event, identity, container_unproven) ==
  LET match == selector_match(spec.selector, identity)
      d == matched_action_with(spec, event, container_unproven)
  IN  IF match = "NoMatch"
      THEN [action |-> "Allow", rule_id |-> <<>>, path_unknown |-> FALSE,
            container_unknown |-> FALSE, labels_unknown |-> FALSE]
      ELSE [d EXCEPT !.action = cap_for_mode(spec.mode, spec.disabled, d.action),
                     !.labels_unknown = (match = "LabelsUnknown")]

-----------------------------------------------------------------------------
(* prefilter.rs.                                                           *)

PATH_BEARING_SYSCALLS == {Syscall.execve, Syscall.execveat, Syscall.open, Syscall.openat}

\* Faulty variant: every rule that names no syscall is about paths.
WidenNarrow(rule) ==
  IF rule.syscalls # <<>> THEN Trimmed(rule.syscalls) ELSE PATH_BEARING_SYSCALLS

widen_for_rule(rule) ==
  IF rule.syscalls # <<>> THEN Trimmed(rule.syscalls) \cap DATAPATH_SYSCALLS
  ELSE IF rule.match_on.path_prefix # <<>> \/ rule.match_on.path_suffix # <<>>
  THEN PATH_BEARING_SYSCALLS ELSE DATAPATH_SYSCALLS

prefilter_image(spec) ==
  LET rules == Range(spec.runtime.rules)
      narrow == spec.runtime.default_action = "Allow" /\ rules # {}
  IN  [syscalls |-> IF spec.runtime.default_action # "Allow" THEN DATAPATH_SYSCALLS
                    ELSE UNION {widen_for_rule(r) : r \in rules},
       container_only |-> narrow /\ \A r \in rules : r.match_on.container_only,
       drop_agent_self |-> narrow /\ \A r \in rules : r.match_on.not_agent_self]

Hidden(image, event) ==
  \/ event.syscall \notin image.syscalls
  \/ image.container_only /\ ~event.in_container
  \/ image.drop_agent_self /\ event.agent_self

-----------------------------------------------------------------------------
(* krules.rs: the slots of a policy.                                       *)

EXEC_SYSCALLS == {Syscall.execve, Syscall.execveat}
Padded(s, n) == [i \in 1..n |-> IF i <= Len(s) THEN s[i] ELSE NUL]
NoPattern == {}

\* Faulty variant: a pattern too long for the slot is cut to fit.
PathPatternsCut(patterns) ==
  IF patterns = <<>> THEN [ok |-> TRUE, some |-> <<NoPattern>>]
  ELSE [ok |-> \A p \in Range(patterns) : p # <<>> /\ NUL \notin Range(p),
        some |-> [i \in DOMAIN patterns |->
                    {SubSeq(patterns[i], 1, Min({Len(patterns[i]), KPATH_LEN}))}]]

\* One value per pattern, {} for "no predicate"; not ok when a pattern does not fit.
path_patterns(patterns) ==
  IF patterns = <<>> THEN [ok |-> TRUE, some |-> <<NoPattern>>]
  ELSE [ok |-> \A p \in Range(patterns) :
                 p # <<>> /\ NUL \notin Range(p) /\ Len(p) <= KPATH_LEN,
        some |-> [i \in DOMAIN patterns |-> {patterns[i]}]]

Excluded(rule, layoutKnown) ==
  \/ rule.action \notin {"Deny", "Kill"}
  \/ rule.syscalls # <<>> /\ Range(rule.syscalls) \cap EXEC_SYSCALLS = {}
  \/ (rule.match_on.path_prefix # <<>> \/ rule.match_on.path_suffix # <<>>) /\ ~layoutKnown
  \/ ~path_patterns(rule.match_on.path_prefix).ok
  \/ ~path_patterns(rule.match_on.path_suffix).ok
  \/ \E c \in Range(rule.match_on.comm_in) : c = <<>> \/ Len(c) > COMM_LEN - 1

\* KernelRule: a slot per comm, prefix and suffix, however often a list names a text.
kernel_slots(rule, selected_only) ==
  LET on == rule.match_on
      comms == IF on.comm_in = <<>> THEN <<<<>>>> ELSE on.comm_in
      prefixes == path_patterns(on.path_prefix).some
      suffixes == path_patterns(on.path_suffix).some
      PatternText(pattern) == IF pattern = {} THEN <<>> ELSE CHOOSE p \in pattern : TRUE
      Slot(c, x, y) ==
       [action |-> ActionCode[rule.action], used |-> TRUE, selected_only |-> selected_only,
        container_only |-> on.container_only, not_agent_self |-> on.not_agent_self,
        comm_len |-> Len(c), comm |-> Padded(c, COMM_LEN),
        has_prefix |-> x # {}, prefix_len |-> Len(PatternText(x)),
        prefix |-> Padded(PatternText(x), KPATH_LEN),
        has_suffix |-> y # {}, suffix_len |-> Len(PatternText(y)),
        suffix |-> Padded(PatternText(y), KPATH_LEN)]
  IN  FlattenSeq([c \in DOMAIN comms |->
        FlattenSeq([x \in DOMAIN prefixes |->
          [y \in DOMAIN suffixes |-> Slot(comms[c], prefixes[x], suffixes[y])]])])

EmptySlot ==
  [action |-> 0, used |-> FALSE, selected_only |-> FALSE, container_only |-> FALSE,
   not_agent_self |-> FALSE, comm_len |-> 0, comm |-> Padded(<<>>, COMM_LEN),
   has_prefix |-> FALSE, prefix_len |-> 0, prefix |-> Padded(<<>>, KPATH_LEN),
   has_suffix |-> FALSE, suffix_len |-> 0, suffix |-> Padded(<<>>, KPATH_LEN)]

\* A policy the kernel may not enforce is refused whole; a rule it cannot decide is
\* named.
compile_kernel_rules_for(spec, layoutKnown) ==
  LET selected_only == ~is_empty(spec.selector)
      rules == spec.runtime.rules
      excluded == {i \in DOMAIN rules : Excluded(rules[i], layoutKnown)}
      slots == FlattenSeq([i \in DOMAIN rules |->
                 IF i \in excluded THEN <<>> ELSE kernel_slots(rules[i], selected_only)])
  IN  IF \/ spec.disabled \/ spec.mode # "Enforce"
         \/ spec.runtime.default_action \notin {"Allow", "Audit"}
      THEN [refused |-> TRUE, rules |-> <<>>, excluded |-> {}]
      ELSE IF Len(slots) > MAX_KERNEL_RULES
      THEN [refused |-> TRUE, rules |-> <<>>, excluded |-> excluded]
      ELSE [refused |-> FALSE, rules |-> slots, excluded |-> excluded]

=============================================================================
