------------------------------ MODULE ExecHook ------------------------------
(***************************************************************************)
(* What the kernel side does with one syscall: ferrum-ebpf-progs (main.rs  *)
(* and lib.rs) and the record userspace makes of it (ferrum-ebpf/src/      *)
(* event.rs).  A syscall is seen twice when it is an exec: the tracepoint  *)
(* copies the caller's path from user memory into a record, then the LSM   *)
(* hook reads the kernel's own copy and walks the slots.                   *)
(*                                                                         *)
(* call: [syscall, path, filename, comm, in_container, agent_self,         *)
(* selected, reads].  The tracepoint finds path at the caller's pointer;   *)
(* filename is linux_binprm's.  They differ when another thread rewrote    *)
(* the buffer between the two reads, and for an execveat below a directory *)
(* descriptor, where the kernel puts /dev/fd/<n>/ in front.  reads tells   *)
(* which helpers answer: "nr", "comm" and "user" of the tracepoint,        *)
(* "hook comm" and "kernel" of the hook.                                   *)
(***************************************************************************)
EXTENDS RuntimeRules

EPERM == 1

\* Arithmetic of u8 and u16.
TopBit8(x) == (x % 256) \div 128
TopBit16(x) == (x % 65536) \div 32768

-----------------------------------------------------------------------------
(* The tracepoint and its record.                                          *)

\* bpf_probe_read_*_str: at most PATH_LEN - 1 bytes and a NUL.
StrBytes(s) == SubSeq(s, 1, Min({Len(s), PATH_LEN - 1}))

\* The name as read, or none: no flag says which.
Name(call, read) == Padded(IF read \in call.reads THEN call.comm ELSE <<>>, COMM_LEN)

\* The event filled in: only four syscalls carry a path.  A read of it that fails or
\* fills the buffer is flagged; the buffer stays empty when it failed.
new_event(call) ==
  LET bears == call.syscall \in PATH_BEARING_SYSCALLS
      readable == bears /\ "user" \in call.reads
      read == IF readable THEN StrBytes(call.path) ELSE <<>>
  IN  [syscall |-> call.syscall, comm |-> Name(call, "comm"),
       path |-> Padded(read, PATH_LEN), in_container |-> call.in_container,
       agent_self |-> call.agent_self,
       path_truncated |-> bears /\ (~readable \/ Len(read) >= PATH_LEN - 1)]

\* emit: without the number of the syscall there is no record.  (A ring that is full is
\* Pipeline's.)
emit(call) == IF "nr" \in call.reads THEN {new_event(call)} ELSE {}

path_bytes(buf) ==
  LET ends == {i \in DOMAIN buf : buf[i] = NUL}
  IN  IF ends = {} THEN buf ELSE SubSeq(buf, 1, Min(ends) - 1)

\* Up to the first byte that is not UTF-8.
nul_trimmed_str(buf) ==
  LET s == path_bytes(buf)
      bad == {i \in DOMAIN s : s[i] \in NotUtf8}
  IN  IF bad = {} THEN s ELSE SubSeq(s, 1, Min(bad) - 1)

\* Faulty variant: read from the buffer alone.
PathTruncatedFromBuffer(record) == Len(path_bytes(record.path)) >= PATH_LEN - 1

path_truncated(record) ==
  record.path_truncated \/ Len(path_bytes(record.path)) >= PATH_LEN - 1

\* A syscall number the table of the architecture lacks is named "unknown".
syscall_name(arch, syscall) ==
  IF syscall \in datapath_syscalls_for_arch(arch) THEN syscall ELSE <<>>

syscall_event(record, arch) ==
  [syscall |-> syscall_name(arch, record.syscall), comm |-> nul_trimmed_str(record.comm),
   path |-> nul_trimmed_str(record.path), in_container |-> record.in_container,
   agent_self |-> record.agent_self, path_truncated |-> path_truncated(record)]

-----------------------------------------------------------------------------
(* The LSM hook.                                                           *)

\* ExecPath::unknown: a hook that does not know where the path is.
unknown == [bytes |-> Padded(<<>>, PATH_LEN), len |-> 0, known |-> FALSE, truncated |-> FALSE]

\* read_exec_path: not known without an offset; a failed read is an empty,
\* truncated path.
read_exec_path(call, layoutKnown) ==
  LET read == StrBytes(call.filename)
  IN  IF ~layoutKnown THEN unknown
      ELSE IF "kernel" \notin call.reads
      THEN [unknown EXCEPT !.known = TRUE, !.truncated = TRUE]
      ELSE [bytes |-> Padded(read, PATH_LEN), len |-> Len(read), known |-> TRUE,
            truncated |-> Len(read) >= PATH_LEN - 1]

prefix_diff(slot, path) ==
  \E i \in 1..Min({slot.prefix_len, KPATH_LEN}) : slot.prefix[i] # path.bytes[i]

\* The suffix starts len - suffix_len bytes in, in u16, masked into the buffer.
suffix_diff(slot, path) ==
  \E i \in 1..Min({slot.suffix_len, KPATH_LEN}) :
    slot.suffix[i] # path.bytes[((path.len - slot.suffix_len + i - 1) % PATH_LEN) + 1]

comm_diff(slot, comm) == slot.comm # comm

prefix_hit(slot, path) ==
  /\ ~prefix_diff(slot, path) /\ slot.prefix_len # 0
  /\ TopBit8(KPATH_LEN - slot.prefix_len) = 0

suffix_hit(slot, path) ==
  /\ ~suffix_diff(slot, path) /\ slot.suffix_len # 0
  /\ TopBit16(path.len - slot.suffix_len) = 0
  /\ TopBit8(KPATH_LEN - slot.suffix_len) = 0

\* An unreadable path satisfies a prefix, an incomplete one satisfies a suffix; a
\* hook without the layout satisfies no slot that names a path.
kernel_rule_mask(slot, call, path) ==
  LET unreadable == path.truncated /\ path.len = 0
  IN  /\ slot.used
      /\ ~comm_diff(slot, Name(call, "hook comm")) \/ slot.comm_len = 0
      /\ slot.has_prefix => prefix_hit(slot, path) \/ unreadable
      /\ slot.has_suffix => suffix_hit(slot, path) \/ path.truncated
      /\ slot.has_prefix \/ slot.has_suffix => path.known
      /\ TopBit8(COMM_LEN - slot.comm_len) = 0
      /\ ~(slot.not_agent_self /\ call.agent_self)
      /\ slot.container_only => call.in_container
      /\ slot.selected_only => call.selected

\* A table of nibbles indexed by the action's number; 5, 6 and 7 rank lowest.
action_rank(action) == LET r == <<0, 1, 2, 4, 3, 0, 0, 0>> IN r[(action % 8) + 1]

\* walk_rules: one slot after the other, the strongest so far kept.
walk_rules(verdict, slot, call, path) ==
  LET candidate == IF kernel_rule_mask(slot, call, path) THEN action_rank(slot.action) ELSE 0
  IN  IF TopBit8(action_rank(verdict) - candidate) = 1 THEN slot.action ELSE verdict

kernel_verdict(slots, call, path) ==
  LET Walk(verdict, slot) == walk_rules(verdict, slot, call, path)
      all == slots \o [i \in 1..(MAX_KERNEL_RULES - Len(slots)) |-> EmptySlot]
  IN  FoldLeft(Walk, ActionCode.Allow, all)

action_refuses(action) == action \in {ActionCode.Deny, ActionCode.Kill}

\* A program before this one already refused: its answer stands.
lsm_verdict(previous, refuses) == IF previous # 0 THEN previous ELSE IF refuses THEN -EPERM ELSE 0

ferrum_bprm_check_security(slots, call, layoutKnown, previous) ==
  lsm_verdict(previous,
              action_refuses(kernel_verdict(slots, call, read_exec_path(call, layoutKnown))))

=============================================================================
