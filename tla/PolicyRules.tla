----------------------------- MODULE PolicyRules -----------------------------
(***************************************************************************)
(* What a policy may say: ferrum-policy/src/lib.rs, the tables of          *)
(* ferrum-ids, and the second gate of ferrum-compiler/src/lib.rs.          *)
(*                                                                         *)
(* A text is a sequence of bytes, with few letters; a syscall is a text of *)
(* one byte of its own.  A check is TRUE when the code answers Ok.  The    *)
(* wording of a refusal is left out.                                       *)
(***************************************************************************)
EXTENDS Integers, Sequences, SequencesExt, FiniteSetsExt

CONSTANTS
  COMM_MATCH_MAX, PATH_MATCH_MAX,   \* longest comm and path the datapath carries
  ED25519_PUBLIC_KEY_HEX_LEN,
  HexDigit                          \* bytes that are hex digits

ASSUME PolicyRulesAssumption ==
  COMM_MATCH_MAX \in Nat /\ PATH_MATCH_MAX \in Nat /\ ED25519_PUBLIC_KEY_HEX_LEN \in Nat

SPACE == 32

\* str::trim.
trim(s) ==
  LET kept == {i \in DOMAIN s : s[i] # SPACE}
  IN  IF kept = {} THEN <<>> ELSE SubSeq(s, Min(kept), Max(kept))

Trimmed(list) == {trim(s) : s \in Range(list)}

-----------------------------------------------------------------------------
(* ferrum-ids: what the datapath can observe.                              *)

Syscall == [bpf |-> <<101>>, execve |-> <<102>>, execveat |-> <<103>>,
            finit_module |-> <<104>>, init_module |-> <<105>>, open |-> <<106>>,
            openat |-> <<107>>]
DATAPATH_SYSCALLS == Range(Syscall)
is_datapath_syscall(name) == name \in DATAPATH_SYSCALLS

first_over_limit(named, limit) == \E s \in Range(named) : Len(s) > limit
unobservable_comm(named) == first_over_limit(named, COMM_MATCH_MAX)
unobservable_path_pattern(named) == first_over_limit(named, PATH_MATCH_MAX)

SYSCALL_EQUIVALENCE_CLASSES == {{Syscall.open, Syscall.openat}}

\* A rule names part of a class: the other spelling would walk past it.
uncovered_equivalent_syscall(named) ==
  \E class \in SYSCALL_EQUIVALENCE_CLASSES :
    class \cap Trimmed(named) # {} /\ ~(class \subseteq Trimmed(named))

\* Only open is missing from an architecture.
arch_restricted_syscall(name) == IF name = Syscall.open THEN {"x86_64"} ELSE {"x86_64", "aarch64"}
datapath_syscalls_for_arch(arch) == {s \in DATAPATH_SYSCALLS : arch \in arch_restricted_syscall(s)}

-----------------------------------------------------------------------------
(* ferrum-policy: one check per part of a spec.                            *)

SelectorEmpty(sel) == sel.match_labels = <<>> /\ sel.match_expressions = <<>>

validate_selector(selector) == SelectorEmpty(selector.cluster)

is_ed25519_public_key_hex(s) ==
  Len(s) = ED25519_PUBLIC_KEY_HEX_LEN /\ Range(s) \subseteq HexDigit

validate_supply(supply) ==
  LET wanted == supply.require_signed \/ supply.deny_unsigned
      roots == Range(supply.trust_roots)
      keys == UNION {Range(root.public_keys) : root \in roots}
  IN  /\ wanted => supply.trust_roots # <<>> /\ keys # {}
      /\ \A root \in roots : trim(root.name) # <<>>
      /\ \A key \in keys : is_ed25519_public_key_hex(key)

validate_rule_syscalls(syscalls) ==
  /\ \A s \in Range(syscalls) : is_datapath_syscall(trim(s))
  /\ ~uncovered_equivalent_syscall(syscalls)

validate_rule_predicates(on) ==
  /\ ~unobservable_comm(on.comm_in)
  /\ ~unobservable_path_pattern(on.path_prefix)
  /\ ~unobservable_path_pattern(on.path_suffix)

validate_rule_action(action) == action \in {"Allow", "Audit", "Kill"}

\* A rule that kills or isolates and narrows nothing.
KillsAll(rule) ==
  /\ rule.action \in {"Kill", "Isolate"}
  /\ rule.syscalls = <<>> /\ rule.match_on.comm_in = <<>>
  /\ rule.match_on.path_prefix = <<>> /\ rule.match_on.path_suffix = <<>>

validate_runtime(runtime) ==
  /\ runtime.default_action \notin {"Kill", "Isolate", "Deny"}
  /\ \A i, j \in DOMAIN runtime.rules : i # j => runtime.rules[i].id # runtime.rules[j].id
  /\ \A rule \in Range(runtime.rules) :
       /\ trim(rule.id) # <<>>
       /\ validate_rule_action(rule.action)
       /\ validate_rule_syscalls(rule.syscalls)
       /\ validate_rule_predicates(rule.match_on)
       /\ ~KillsAll(rule)

validate_common(spec) ==
  /\ ~(spec.disabled /\ spec.mode = "Enforce")
  /\ validate_selector(spec.selector)
  /\ validate_supply(spec.supply)
  /\ validate_runtime(spec.runtime)

validate_cluster_policy(spec) == validate_common(spec)

\* A tenant may not make admission fail open.
validate_namespaced_policy(spec) ==
  validate_common(spec) /\ spec.admit.failure_policy # "Ignore"

-----------------------------------------------------------------------------
(* ferrum-compiler: the same questions asked again before bytes are made.  *)

reject_kill_all(runtime) ==
  /\ runtime.default_action \notin {"Kill", "Isolate"}
  /\ \A rule \in Range(runtime.rules) : ~KillsAll(rule)

reject_unobservable_syscalls(runtime) ==
  \A rule \in Range(runtime.rules) :
    /\ \A s \in Range(rule.syscalls) : is_datapath_syscall(trim(s))
    /\ ~uncovered_equivalent_syscall(rule.syscalls)

reject_unobservable_predicates(runtime) ==
  \A rule \in Range(runtime.rules) :
    /\ ~unobservable_comm(rule.match_on.comm_in)
    /\ ~unobservable_path_pattern(rule.match_on.path_prefix)
    /\ ~unobservable_path_pattern(rule.match_on.path_suffix)

reject_cluster_selector(selector) == SelectorEmpty(selector.cluster)

reject_unexecutable_actions(runtime) ==
  /\ runtime.default_action # "Deny"
  /\ \A rule \in Range(runtime.rules) : rule.action \notin {"Deny", "Isolate"}

CompilerAccepts(spec) ==
  /\ reject_kill_all(spec.runtime)
  /\ reject_unobservable_syscalls(spec.runtime)
  /\ reject_unobservable_predicates(spec.runtime)
  /\ reject_unexecutable_actions(spec.runtime)
  /\ reject_cluster_selector(spec.selector)

=============================================================================
