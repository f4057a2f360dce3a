-------------------------------- MODULE Wire --------------------------------
(***************************************************************************)
(* The signed bytes of a policy: written by ferrum-compiler (encode.rs,    *)
(* lib.rs), read by the agent (ferrum-ebpf: envelope.rs, spec.rs) and by   *)
(* the webhook (ferrum-admission: bundle.rs, program.rs).  Three hands     *)
(* wrote down the order of the fields.                                     *)
(*                                                                         *)
(* A buffer is a sequence of cells.  An integer of any width is one cell;  *)
(* a string is its length and then its bytes; a list is its count and then *)
(* its items.  A magic number is one cell.  A length past u16 makes the    *)
(* encoder answer Err: the cell TooLong.  A map is the sequence of its     *)
(* pairs in key order.                                                     *)
(***************************************************************************)
EXTENDS PolicyRules

CONSTANTS
  U16_MAX,        \* longest string or list an encoder accepts
  NotUtf8         \* bytes no text of a Rust String holds

TooLong == -999
FRMB == 901
FADM == 902
FEBP == 903
FWSM == 904
BUNDLE_FORMAT == 1
AGENT_ABI == 1
ADMISSION_ABI == 1

\* The numbers of the enumerations, as each side wrote them down.
ModeCode == [Observe |-> 0, Audit |-> 1, Enforce |-> 2]
FailureCode == [Fail |-> 0, Ignore |-> 1]
PssCode == [Privileged |-> 0, Baseline |-> 1, Restricted |-> 2, Custom |-> 3]
ActionCode == [Allow |-> 0, Audit |-> 1, Deny |-> 2, Kill |-> 3, Isolate |-> 4]

-----------------------------------------------------------------------------
(* ferrum-compiler/src/encode.rs.                                          *)

put_len(n) == <<IF n > U16_MAX THEN TooLong ELSE n>>
put_bool(b) == <<IF b THEN 1 ELSE 0>>
put_str(s) == put_len(Len(s)) \o s
PutAll(Put(_), items) == put_len(Len(items)) \o FlattenSeq([i \in DOMAIN items |-> Put(items[i])])
put_str_list(items) == PutAll(put_str, items)

encode_label_selector(sel) ==
  LET Pair(p) == put_str(p[1]) \o put_str(p[2])
      Requirement(e) == put_str(e.key) \o put_str(e.operator) \o put_str_list(e.values)
  IN  PutAll(Pair, sel.match_labels) \o PutAll(Requirement, sel.match_expressions)

encode_selector(sel) ==
  encode_label_selector(sel.cluster) \o encode_label_selector(sel.namespace)
    \o encode_label_selector(sel.workload) \o encode_label_selector(sel.service_account)
    \o put_str_list(sel.registries_allow) \o put_bool(sel.require_digest)

encode_supply(supply) ==
  LET Root(r) == put_str(r.name) \o put_str_list(r.keyless_issuer_allow)
                   \o put_str_list(r.public_keys)
  IN  put_bool(supply.require_signed) \o put_bool(supply.deny_unsigned)
        \o put_bool(supply.deny_latest_tag) \o PutAll(Root, supply.trust_roots)

encode_deny(deny) ==
  put_bool(deny.privileged) \o put_bool(deny.host_pid) \o put_bool(deny.host_ipc)
    \o put_bool(deny.host_network) \o put_bool(deny.host_path)
    \o put_bool(deny.allow_privilege_escalation) \o put_bool(deny.run_as_root)
    \o put_bool(deny.wildcards_rbac) \o put_bool(deny.cluster_admin_bind)
    \o put_str_list(deny.added_capabilities)

encode_mutate(mutate) ==
  put_bool(mutate.inject_seccomp_runtime_default) \o put_bool(mutate.drop_all_capabilities)
    \o put_bool(mutate.read_only_root_filesystem)

encode_admission(fx) ==
  <<FADM, ADMISSION_ABI, ModeCode[fx.mode]>> \o put_bool(fx.disabled) \o <<fx.priority>>
    \o <<FailureCode[fx.admit.failure_policy], PssCode[fx.admit.pss]>>
    \o encode_supply(fx.supply) \o encode_deny(fx.admit.deny) \o encode_mutate(fx.admit.mutate)
    \o encode_selector(fx.selector)

\* Faulty variant: the two path lists are swapped.
EncodeRuleSwapped(rule) ==
  put_str(rule.id) \o put_str_list(rule.syscalls) \o <<ActionCode[rule.action]>>
    \o put_str_list(rule.match_on.comm_in) \o put_bool(rule.match_on.container_only)
    \o put_str_list(rule.match_on.path_suffix) \o put_str_list(rule.match_on.path_prefix)
    \o put_bool(rule.match_on.not_agent_self)

encode_rule(rule) ==
  put_str(rule.id) \o put_str_list(rule.syscalls) \o <<ActionCode[rule.action]>>
    \o put_str_list(rule.match_on.comm_in) \o put_bool(rule.match_on.container_only)
    \o put_str_list(rule.match_on.path_prefix) \o put_str_list(rule.match_on.path_suffix)
    \o put_bool(rule.match_on.not_agent_self)

encode_ebpf(fx) ==
  <<FEBP, AGENT_ABI, ModeCode[fx.mode]>> \o put_bool(fx.disabled) \o <<fx.priority>>
    \o <<ActionCode[fx.runtime.default_action]>> \o encode_selector(fx.selector)
    \o PutAll(encode_rule, fx.runtime.rules)

\* The bytes the digest and the signature are over.
append_len_prefixed(blob) == <<Len(blob)>> \o blob
bundle_digest_material(admission_program, ebpf_spec, wasm) ==
  <<FRMB, BUNDLE_FORMAT, AGENT_ABI, ADMISSION_ABI>> \o append_len_prefixed(admission_program)
    \o append_len_prefixed(ebpf_spec) \o append_len_prefixed(wasm)

\* ferrum-wasm-abi and ferrum-wasm-host: the slot holds a module nobody executes.
WASM_ABI_VERSION == 1
KIND_PLACEHOLDER == 0
placeholder_module == <<FWSM, WASM_ABI_VERSION, KIND_PLACEHOLDER>>
accept_bundle_slot(module) ==
  Len(module) >= Len(placeholder_module)
    /\ SubSeq(module, 1, Len(placeholder_module)) = placeholder_module

\* emit_bundle: {} for an Err, the bytes otherwise.
emit_bundle(fx) ==
  LET admission == encode_admission(fx)
      ebpf == encode_ebpf(fx)
  IN  IF ~CompilerAccepts(fx) \/ TooLong \in Range(admission) \cup Range(ebpf) THEN {}
      ELSE {bundle_digest_material(admission, ebpf, placeholder_module)}

compile_cluster_policy(spec) == IF validate_cluster_policy(spec) THEN emit_bundle(spec) ELSE {}
compile_namespaced_policy(spec) == IF validate_namespaced_policy(spec) THEN emit_bundle(spec) ELSE {}

-----------------------------------------------------------------------------
(* A reader: the buffer, how far it got, whether nothing failed yet, and   *)
(* the value just read.                                                    *)

Reader(buf) == [buf |-> buf, pos |-> 0, ok |-> TRUE, val |-> <<>>]
Failed(r) == [r EXCEPT !.ok = FALSE, !.val = <<>>]
Check(Holds(_), r) == IF r.ok /\ Holds(r.val) THEN r ELSE Failed(r)
Map(F(_), r) == IF r.ok THEN [r EXCEPT !.val = F(r.val)] ELSE r

take(r, n) ==
  IF ~r.ok \/ r.pos + n > Len(r.buf) THEN Failed(r)
  ELSE [r EXCEPT !.pos = r.pos + n, !.val = SubSeq(r.buf, r.pos + 1, r.pos + n)]
Sized(n) == IF n.ok THEN take(n, n.val) ELSE n

\* u8, u16, u32, i32: one cell.
num(r) == Map(Head, take(r, 1))
expect(r, value) == Check(LAMBDA v : v = value, num(r))
bool(r) == Map(LAMBDA v : v = 1, Check(LAMBDA v : v \in {0, 1}, num(r)))
enum(r, codes) ==
  Map(LAMBDA v : CHOOSE n \in DOMAIN codes : codes[n] = v,
      Check(LAMBDA v : v \in Range(codes), num(r)))
blob(r) == Sized(num(r))
str(r) == Check(LAMBDA v : Range(v) \cap NotUtf8 = {}, blob(r))

\* A count, then that many items.
Items(Read(_), n) ==
  IF ~n.ok THEN n
  ELSE FoldLeft(LAMBDA acc, i : IF ~acc.ok THEN acc
                                ELSE Map(LAMBDA v : Append(acc.val, v), Read(acc)),
                [n EXCEPT !.val = <<>>], [i \in 1..n.val |-> i])
ReadAll(Read(_), r) == Items(Read, num(r))
str_list(r) == ReadAll(str, r)

\* A structure: its fields, each a name and how it is read, in the order of the source.
Fields(Read(_, _), fields, r) ==
  IF ~r.ok THEN r
  ELSE FoldLeft(LAMBDA acc, f : IF ~acc.ok THEN acc
                                ELSE Map(LAMBDA v : acc.val @@ (f[1] :> v), Read(f[2], acc)),
                [r EXCEPT !.val = <<>>], fields)
Plain(kind, r) ==
  CASE kind = "bool" -> bool(r)
    [] kind = "num" -> num(r)
    [] kind = "str" -> str(r)
    [] kind = "list" -> str_list(r)
    [] kind = "blob" -> blob(r)
    [] kind = "Mode" -> enum(r, ModeCode)
    [] kind = "Action" -> enum(r, ActionCode)
    [] kind = "FailurePolicy" -> enum(r, FailureCode)
    [] kind = "Pss" -> enum(r, PssCode)

\* What was read, when it was read to the end.
finish(r) == IF r.ok /\ r.pos = Len(r.buf) THEN {r.val} ELSE {}

-----------------------------------------------------------------------------
(* ferrum-ebpf/src/envelope.rs and spec.rs: the agent.                     *)

trim_syscall(name) == trim(name)

decode_label_selector(r) ==
  LET Pair(q) == Map(LAMBDA v : <<v.key, v.value>>,
                     Fields(Plain, <<<<"key", "str">>, <<"value", "str">>>>, q))
      Requirement(q) ==
        Fields(Plain, <<<<"key", "str">>, <<"operator", "str">>, <<"values", "list">>>>, q)
      Read(kind, q) == IF kind = "pairs" THEN ReadAll(Pair, q) ELSE ReadAll(Requirement, q)
  IN  Fields(Read, <<<<"match_labels", "pairs">>, <<"match_expressions", "requirements">>>>, r)

decode_selector(r) ==
  LET Read(kind, q) == IF kind = "labels" THEN decode_label_selector(q) ELSE Plain(kind, q)
  IN  Fields(Read,
        <<<<"cluster", "labels">>, <<"namespace", "labels">>, <<"workload", "labels">>,
          <<"service_account", "labels">>, <<"registries_allow", "list">>,
          <<"require_digest", "bool">>>>, r)

decode_rule(r) ==
  Map(LAMBDA v :
        [id |-> v.id,
         syscalls |-> [i \in DOMAIN v.syscalls |-> trim_syscall(v.syscalls[i])],
         action |-> v.action,
         match_on |-> [f \in {"comm_in", "container_only", "path_prefix", "path_suffix",
                              "not_agent_self"} |-> v[f]]],
      Fields(Plain,
        <<<<"id", "str">>, <<"syscalls", "list">>, <<"action", "Action">>,
          <<"comm_in", "list">>, <<"container_only", "bool">>, <<"path_prefix", "list">>,
          <<"path_suffix", "list">>, <<"not_agent_self", "bool">>>>, r))

\* A rule that can never fire.
dead_rule_reason(rule) ==
  \/ \E s \in Range(rule.syscalls) : ~is_datapath_syscall(s)
  \/ unobservable_comm(rule.match_on.comm_in)
  \/ unobservable_path_pattern(rule.match_on.path_prefix)
  \/ unobservable_path_pattern(rule.match_on.path_suffix)

\* A dead rule refuses a live bundle, and is dropped from a stored one.
Runtime(v, rules) == [default_action |-> v.default_action, rules |-> rules]
parse_febp_with(buf, dead) ==
  LET Read(kind, q) ==
        CASE kind = "selector" -> decode_selector(q)
          [] kind = "rules" -> ReadAll(decode_rule, q)
          [] OTHER -> Plain(kind, q)
      Alive(rule) == ~dead_rule_reason(rule)
  IN  UNION {LET kept == SelectSeq(v.rules, Alive)
             IN  IF ~reject_kill_all(Runtime(v, v.rules)) \/ (dead = "Reject" /\ kept # v.rules)
                 THEN {}
                 ELSE {[mode |-> v.mode, disabled |-> v.disabled, priority |-> v.priority,
                        selector |-> v.selector, runtime |-> Runtime(v, kept)]} :
               v \in finish(Fields(Read,
                       <<<<"mode", "Mode">>, <<"disabled", "bool">>, <<"priority", "num">>,
                         <<"default_action", "Action">>, <<"selector", "selector">>,
                         <<"rules", "rules">>>>,
                       expect(expect(Reader(buf), FEBP), AGENT_ABI)))}

\* The three slots of a bundle, after magic, format and the two ABIs.
Slots == <<<<"admission", "blob">>, <<"ebpf", "blob">>, <<"wasm", "blob">>>>

parse_frmb(buf) ==
  {v.ebpf : v \in
     {s \in finish(Fields(Plain, Slots,
                num(expect(expect(expect(Reader(buf), FRMB), BUNDLE_FORMAT), AGENT_ABI)))) :
        s.ebpf # <<>> /\ s.ebpf[1] = FEBP /\ accept_bundle_slot(s.wasm)}}

extract_febp(buf) == IF buf # <<>> /\ buf[1] = FEBP THEN {buf} ELSE parse_frmb(buf)

\* Loader::load_bundle_with after the digest: {} for an Err.
LoadFebp(buf, dead) == UNION {parse_febp_with(febp, dead) : febp \in extract_febp(buf)}

-----------------------------------------------------------------------------
(* ferrum-admission/src/bundle.rs and program.rs: the webhook.             *)

decode_supply(r) ==
  LET Root(q) == Fields(Plain, <<<<"name", "str">>, <<"keyless_issuer_allow", "list">>,
                                 <<"public_keys", "list">>>>, q)
      Read(kind, q) == IF kind = "roots" THEN ReadAll(Root, q) ELSE Plain(kind, q)
  IN  Fields(Read, <<<<"require_signed", "bool">>, <<"deny_unsigned", "bool">>,
                     <<"deny_latest_tag", "bool">>, <<"trust_roots", "roots">>>>, r)

decode_deny(r) ==
  Fields(Plain,
    <<<<"privileged", "bool">>, <<"host_pid", "bool">>, <<"host_ipc", "bool">>,
      <<"host_network", "bool">>, <<"host_path", "bool">>,
      <<"allow_privilege_escalation", "bool">>, <<"run_as_root", "bool">>,
      <<"wildcards_rbac", "bool">>, <<"cluster_admin_bind", "bool">>,
      <<"added_capabilities", "list">>>>, r)

decode_mutate(r) ==
  Fields(Plain,
    <<<<"inject_seccomp_runtime_default", "bool">>, <<"drop_all_capabilities", "bool">>,
      <<"read_only_root_filesystem", "bool">>>>, r)

\* The selector once more, by the webhook's own reader.
admission_decode_label_selector(r) ==
  LET Label(q) == Map(LAMBDA v : <<v.key, v.value>>,
                      Fields(Plain, <<<<"key", "str">>, <<"value", "str">>>>, q))
      Expression(q) ==
        Fields(Plain, <<<<"key", "str">>, <<"operator", "str">>, <<"values", "list">>>>, q)
      Read(kind, q) == IF kind = "labels" THEN ReadAll(Label, q) ELSE ReadAll(Expression, q)
  IN  Fields(Read, <<<<"match_labels", "labels">>, <<"match_expressions", "expressions">>>>, r)

admission_decode_selector(r) ==
  LET Read(kind, q) ==
        IF kind = "labels" THEN admission_decode_label_selector(q) ELSE Plain(kind, q)
  IN  Fields(Read,
        <<<<"cluster", "labels">>, <<"namespace", "labels">>, <<"workload", "labels">>,
          <<"service_account", "labels">>, <<"registries_allow", "list">>,
          <<"require_digest", "bool">>>>, r)

parse_program(buf) ==
  LET Read(kind, q) ==
        CASE kind = "supply" -> decode_supply(q)
          [] kind = "deny" -> decode_deny(q)
          [] kind = "mutate" -> decode_mutate(q)
          [] kind = "selector" -> admission_decode_selector(q)
          [] OTHER -> Plain(kind, q)
  IN  {[mode |-> v.mode, disabled |-> v.disabled, priority |-> v.priority,
        supply |-> v.supply, selector |-> v.selector,
        admit |-> [f \in {"failure_policy", "pss", "deny", "mutate"} |-> v[f]]] :
         v \in finish(Fields(Read,
                 <<<<"mode", "Mode">>, <<"disabled", "bool">>, <<"priority", "num">>,
                   <<"failure_policy", "FailurePolicy">>, <<"pss", "Pss">>,
                   <<"supply", "supply">>, <<"deny", "deny">>, <<"mutate", "mutate">>,
                   <<"selector", "selector">>>>,
                 expect(expect(Reader(buf), FADM), ADMISSION_ABI)))}

extract_admission_program(buf) ==
  {v.admission : v \in
     {s \in finish(Fields(Plain, Slots,
                Check(LAMBDA abi : abi <= ADMISSION_ABI,
                      num(num(expect(expect(Reader(buf), FRMB), BUNDLE_FORMAT)))))) :
        accept_bundle_slot(s.wasm) /\ s.admission # <<>>}}

parse_verified(buf) ==
  IF buf # <<>> /\ buf[1] = FADM THEN parse_program(buf)
  ELSE UNION {parse_program(fadm) : fadm \in extract_admission_program(buf)}

=============================================================================
