---------------------------- MODULE MCPolicyPath ----------------------------
(***************************************************************************)
(* Policies in families, each varying what one part of the path looks at:  *)
(* patterns, names and flags of one rule, two rules together, modes and    *)
(* defaults, selectors, and the admission half.  Texts use the letters 1   *)
(* and 2; Bad is a byte of no UTF-8 text.                                  *)
(***************************************************************************)
EXTENDS PolicyPath

Bad == 9
MCNotUtf8 == {Bad}
MCHexDigit == {1, 2}

Both == <<Syscall.execve, Syscall.execveat>>
Pairs == {Both, <<Syscall.execve>>}
Paths == {<<>>, <<1>>, <<2>>, <<1, 2>>, <<2, 1>>, <<1, 2, 1>>, <<2, 2, 2>>, <<1, 2, 2, 1>>,
          <<1, Bad>>, <<Bad, 2>>}

NoSelector == [match_labels |-> <<>>, match_expressions |-> <<>>]
AllPods == [cluster |-> NoSelector, namespace |-> NoSelector, workload |-> NoSelector,
            service_account |-> NoSelector, registries_allow |-> <<>>, require_digest |-> FALSE]
Labelled(k, v) == [NoSelector EXCEPT !.match_labels = <<<<k, v>>>>]
Requires(k, op, values) ==
  [NoSelector EXCEPT !.match_expressions = <<[key |-> k, operator |-> op, values |-> values]>>]

Rule(id, syscalls, action, comm, prefix, suffix, container, own) ==
  [id |-> id, syscalls |-> syscalls, action |-> action,
   match_on |-> [comm_in |-> comm, container_only |-> container, path_prefix |-> prefix,
                 path_suffix |-> suffix, not_agent_self |-> own]]

NothingDenied ==
  [privileged |-> FALSE, host_pid |-> FALSE, host_ipc |-> FALSE, host_network |-> FALSE,
   host_path |-> FALSE, allow_privilege_escalation |-> FALSE, run_as_root |-> FALSE,
   wildcards_rbac |-> FALSE, cluster_admin_bind |-> FALSE, added_capabilities |-> <<>>]
NothingMutated ==
  [inject_seccomp_runtime_default |-> FALSE, drop_all_capabilities |-> FALSE,
   read_only_root_filesystem |-> FALSE]
Base ==
  [mode |-> "Enforce", priority |-> 0, disabled |-> FALSE, selector |-> AllPods,
   supply |-> [require_signed |-> FALSE, deny_unsigned |-> FALSE, deny_latest_tag |-> FALSE,
               trust_roots |-> <<>>],
   admit |-> [failure_policy |-> "Fail", pss |-> "Restricted", deny |-> NothingDenied,
              mutate |-> NothingMutated],
   runtime |-> [default_action |-> "Allow", rules |-> <<>>]]
WithRules(rules) == [Base EXCEPT !.runtime.rules = rules]

\* Nothing, one letter, two patterns, one too long for a slot, the empty pattern.
Patterns == {<<>>, <<<<2>>>>, <<<<1, 2>>, <<2>>>>, <<<<1, 2, 2>>>>, <<<<>>>>}
ByPattern ==
  {WithRules(<<Rule(<<1>>, sys, "Kill", <<>>, p, s, FALSE, FALSE)>>) :
     sys \in Pairs \cup {<<>>}, p \in Patterns, s \in Patterns}
ByName ==
  {WithRules(<<Rule(<<1>>, sys, action, comm, <<>>, <<>>, container, own)>>) :
     sys \in Pairs \cup {<<>>, <<Syscall.openat, Syscall.open>>, <<<<SPACE>> \o Syscall.bpf>>},
     action \in {"Audit", "Kill"}, comm \in {<<>>, <<<<1>>>>, <<<<1>>, <<2>>>>, <<<<1>>, <<1>>>>, <<<<>>>>},
     container \in BOOLEAN, own \in BOOLEAN}
Pool ==
  {Rule(<<1>>, sys, "Kill", <<>>, <<<<1>>>>, <<>>, FALSE, FALSE) : sys \in Pairs} \cup
  {Rule(<<2>>, <<>>, "Audit", <<<<1>>>>, <<>>, <<>>, TRUE, TRUE),
   Rule(<<1, 1>>, <<>>, "Kill", <<>>, <<>>, <<<<2>>>>, TRUE, FALSE),
   Rule(<<1>>, <<Syscall.bpf>>, "Kill", <<>>, <<>>, <<>>, TRUE, TRUE),
   Rule(<<2>>, <<>>, "Allow", <<>>, <<>>, <<>>, FALSE, FALSE),
   Rule(<<2, 2>>, <<>>, "Allow", <<>>, <<>>, <<<<1>>>>, FALSE, FALSE)}
ByTwo ==
  {[WithRules(<<a, b>>) EXCEPT !.runtime.default_action = d] :
     a \in Pool, b \in Pool, d \in {"Allow", "Audit"}}
\* What a lost name and a byte that is not UTF-8 bring about.
ByLoss ==
  {[WithRules(<<Rule(<<1>>, <<>>, "Allow", <<<<>>>>, <<>>, <<>>, FALSE, FALSE)>>)
      EXCEPT !.runtime.default_action = "Audit"],
   WithRules(<<Rule(<<1>>, Both, "Kill", <<>>, <<>>, <<<<1>>>>, FALSE, FALSE)>>)}
KillByName(pair) == Rule(<<1>>, pair, "Kill", <<<<1>>>>, <<>>, <<>>, FALSE, FALSE)
ByMode ==
  {[WithRules(<<KillByName(Both)>>) EXCEPT !.mode = m, !.disabled = off,
                                           !.runtime.default_action = d, !.priority = -1] :
     m \in {"Observe", "Audit", "Enforce"}, off \in BOOLEAN,
     d \in {"Allow", "Audit", "Deny", "Kill", "Isolate"}}
BySelector ==
  {[WithRules(<<KillByName(Both)>>) EXCEPT !.selector = s] :
     s \in {[AllPods EXCEPT !.namespace = Labelled(<<1>>, <<1>>)],
            [AllPods EXCEPT !.namespace = Requires(<<1>>, NotIn, <<<<1>>>>)],
            [AllPods EXCEPT !.workload = Requires(<<1>>, In, <<<<1>>, <<2>>>>)],
            [AllPods EXCEPT !.workload = Requires(<<1>>, DoesNotExist, <<>>)],
            [AllPods EXCEPT !.service_account = Requires(<<1>>, Exists, <<>>),
                            !.registries_allow = <<<<1>>>>],
            [AllPods EXCEPT !.require_digest = TRUE],
            [AllPods EXCEPT !.registries_allow = <<<<>>, <<2>>>>],
            [AllPods EXCEPT !.cluster = Labelled(<<1>>, <<1>>)]}}
\* What only the admission half, the encoder and the validator tell apart.
Root(name, keys) == [name |-> name, keyless_issuer_allow |-> <<<<2>>>>, public_keys |-> keys]
ByAdmission ==
  {[Base EXCEPT !.admit.deny = [NothingDenied EXCEPT ![f] = TRUE, !.added_capabilities = <<<<2, 1>>>>]] :
     f \in DOMAIN NothingDenied \ {"added_capabilities"}}
  \cup {[Base EXCEPT !.admit.mutate = [NothingMutated EXCEPT ![f] = TRUE], !.admit.pss = p,
                     !.admit.failure_policy = x] :
          f \in DOMAIN NothingMutated, p \in DOMAIN PssCode, x \in DOMAIN FailureCode}
  \cup {[Base EXCEPT !.supply.require_signed = b, !.supply.deny_unsigned = c,
                     !.supply.deny_latest_tag = TRUE, !.supply.trust_roots = roots] :
          b \in BOOLEAN, c \in BOOLEAN,
          roots \in {<<>>, <<Root(<<1>>, <<>>)>>, <<Root(<<1>>, <<<<1, 2>>>>), Root(<<2>>, <<>>)>>,
                     <<Root(<<SPACE>>, <<<<1, 2>>>>)>>, <<Root(<<1>>, <<<<1, 7>>>>)>>}}
Refusable ==
  {WithRules(<<r>>) :
     r \in {Rule(<<SPACE>>, Both, "Kill", <<>>, <<>>, <<>>, FALSE, FALSE),
            Rule(<<1>>, <<Syscall.openat>>, "Audit", <<>>, <<>>, <<>>, FALSE, FALSE),
            Rule(<<1>>, <<<<77>>>>, "Audit", <<>>, <<>>, <<>>, FALSE, FALSE),
            Rule(<<1>>, Both, "Deny", <<>>, <<>>, <<>>, FALSE, FALSE),
            Rule(<<1>>, Both, "Audit", <<<<1, 1>>>>, <<>>, <<>>, FALSE, FALSE),
            Rule(<<1>>, Both, "Audit", <<>>, <<<<1, 1, 1, 1>>>>, <<>>, FALSE, FALSE),
            Rule(<<1>>, <<>>, "Kill", <<>>, <<>>, <<>>, TRUE, TRUE),
            Rule([i \in 1..(U16_MAX + 1) |-> 1], Both, "Kill", <<>>, <<>>, <<>>, FALSE, FALSE)}}

MCEarlier == [Base EXCEPT !.priority = 7]
MCProbed == {WithRules(<<KillByName(Both)>>)}
MCPolicies == MCProbed \cup ByPattern \cup ByName \cup ByTwo \cup ByLoss \cup ByMode \cup BySelector \cup ByAdmission
              \cup Refusable

Call(syscall, path, comm, container, own, reads) ==
  [arch |-> "x86_64", syscall |-> syscall, path |-> path, filename |-> path, comm |-> comm,
   in_container |-> container, agent_self |-> own, selected |-> FALSE, reads |-> reads]
AllReads == {"nr", "comm", "user", "hook comm", "kernel"}
DirFd == <<3>>    \* /dev/fd/<n>/
\* Every read that may fail, alone and with others; names above a directory; a buffer
\* rewritten between the two reads.
MCCalls ==
  {Call(s, p, <<1>>, TRUE, FALSE, reads) :
     s \in {Syscall.execve, Syscall.openat}, p \in Paths,
     reads \in {AllReads \ missed : missed \in SUBSET {"user", "kernel"}}}
  \cup {Call(s, p, c, container, own, AllReads) :
          s \in {Syscall.execveat, Syscall.bpf}, p \in {<<1>>, <<2>>}, c \in {<<1>>, <<2>>},
          container \in BOOLEAN, own \in BOOLEAN}
  \cup {[Call(Syscall.openat, <<2>>, <<2>>, FALSE, FALSE, AllReads) EXCEPT !.arch = "aarch64"]}
  \cup {Call(s, p, <<1>>, TRUE, FALSE, reads) :
          s \in {Syscall.execve, Syscall.bpf}, p \in {<<1>>, <<2>>},
          reads \in {{}, {"nr", "user", "kernel"}} \cup
                    {AllReads \ {missed} : missed \in {"nr", "comm", "hook comm"}}}
  \cup {[Call(Syscall.execveat, p, <<1>>, TRUE, FALSE, reads) EXCEPT !.filename = DirFd \o p] :
          p \in {<<1>>, <<2>>, <<1, 2>>, <<2, 1>>},
          reads \in {AllReads, AllReads \ {"user"}, AllReads \ {"kernel"}}}
  \cup {[Call(Syscall.execve, p, <<1>>, TRUE, FALSE, AllReads) EXCEPT !.filename = f] :
          p \in {<<1>>, <<2>>}, f \in {<<2>>, <<1, 2>>, <<1, 2, 2, 1>>}}

None == [k \in {} |-> <<>>]
One(v) == [k \in {<<1>>} |-> v]
Pod(known, observed, labels) ==
  [known |-> known, observed |-> observed, namespace_labels |-> labels,
   workload_labels |-> labels, account_labels |-> labels,
   image |-> IF known THEN <<1, 2>> ELSE <<>>, has_digest |-> known]
MCIdentities ==
  {Pod(FALSE, FALSE, None), Pod(TRUE, FALSE, None), Pod(TRUE, TRUE, None),
   Pod(TRUE, TRUE, One(<<1>>)), Pod(TRUE, TRUE, One(<<3>>))}
=============================================================================
