------------------------------ MODULE Attach ------------------------------
(***************************************************************************)
(* The kernel side of an agent's start: the map definitions of the ELF,    *)
(* the tracepoints this node has, the load, the hooks one by one, the LSM  *)
(* hook and the offset it reads, and pinning all of it on bpffs            *)
(* (ferrum-ebpf/src/kernel.rs, btf.rs and lib.rs).                         *)
(*                                                                         *)
(* The kernel and the ELF are chosen once.  `held` are the hooks attached  *)
(* through the handle, which its drop detaches; `pins` are the files under *)
(* the pin root, each with the agent instance that made it (0: somebody    *)
(* else's).  A pinned link keeps its hook on without any process.          *)
(***************************************************************************)
EXTENDS Naturals, Sequences, FiniteSets, SequencesExt

CONSTANTS
    TRACEPOINTS,    \* the tracepoints of the datapath, in attach order
    MaxPinCalls     \* calls of pin_at on one handle

VARIABLES
    kernel,     \* the node's kernel
    elf,        \* the ELF the image carries
    phase,      \* where this instance is in its start or in pin_at
    todo,       \* hooks (or maps) still to do in this phase
    held,       \* hooks attached through the handle
    links,      \* hooks whose link id the handle still holds, in order
    unhooked,   \* syscalls reported as having no hook here
    told,       \* hooks an error of pin_at reported as lost
    exec,       \* what the exec hook was told about linux_binprm
    lsmWhy,     \* why the LSM hook is not attached, when it is not
    pins,       \* files under the pin root
    pin,        \* calls of pin_at by this handle, and what the last one returned
    instance    \* number of this agent process

attachVars == <<kernel, elf, phase, todo, held, links, unhooked, told, exec, lsmWhy, pins, pin,
                instance>>

LSM_HOOK == "bprm_check_security"

(* ---- the ELF's maps ---- *)

REQUIRED_MAPS ==
    [ferrum_events |-> "ringbuf/ring bytes", ferrum_self |-> "array/4/8/1",
     ferrum_cgroups |-> "hash/8/1/cgroups", ferrum_selected |-> "hash/8/1/cgroups",
     ferrum_rules |-> "array/4/rule/slots"]

(* Section headers, symbol table and string tables lie inside the file.    *)
elf_sections(e) == e.wellFormed

(* The symbol of that name must be an object of the maps section with the  *)
(* size of one definition.                                                 *)
map_def_bytes(e, name) ==
    {s.def : s \in {t \in e.symbols : /\ elf_sections(e) /\ t.name = name
                                      /\ t.object /\ t.section = "maps" /\ t.whole}}

elf_map_def(e, name) == map_def_bytes(e, name)

verify_map_defs(e) == \A name \in DOMAIN REQUIRED_MAPS : elf_map_def(e, name) = {REQUIRED_MAPS[name]}

(* ---- BTF ---- *)

KNOWN_KINDS == {"int", "ptr", "struct", "typedef", "const"}
QUALIFIERS == {"typedef", "const"}
MAX_STRIP == 32

(* A type section with a kind of unknown length cannot be read past it.    *)
BtfParse(types) == \A i \in DOMAIN types : types[i].kind \in KNOWN_KINDS

(* Follow qualifiers to the type they qualify, a bounded number of times;  *)
(* type ids start at 1 and 0 is void.                                      *)
strip(types, id) ==
    LET at[n \in 1..MAX_STRIP] ==
            IF n = 1 THEN id
            ELSE LET i == at[n - 1] IN
                 IF i \in DOMAIN types /\ types[i].kind \in QUALIFIERS THEN types[i].ref ELSE i
        end == at[MAX_STRIP]
    IN  {types[i] : i \in {j \in {end} : j \in DOMAIN types /\ types[j].kind \notin QUALIFIERS}}

members(t) == {m \in t.members : m.name = "filename"}

PointsAtChar(types, id) ==
    \E p \in strip(types, id) :
        p.kind = "ptr" /\ \E c \in strip(types, p.ref) : c.kind = "int" /\ c.name = "char"

Binprms(types) == {i \in DOMAIN types : types[i].kind = "struct" /\ types[i].name = "linux_binprm"}

(* The byte offset of linux_binprm::filename, when this BTF leaves no doubt *)
(* about it; zero is never the answer.                                     *)
binprm_filename_offset(types) ==
    LET structs == Binprms(types)
        fields == UNION {members(types[i]) : i \in structs}
    IN  IF /\ BtfParse(types)
           /\ structs # {} /\ \A i \in structs : members(types[i]) # {}
           /\ \A m \in fields : ~m.bitfield /\ m.bits % 8 = 0 /\ PointsAtChar(types, m.ref)
           /\ Cardinality({m.bits : m \in fields}) = 1
           /\ \A m \in fields : m.bits # 0
        THEN {m.bits \div 8 : m \in fields} ELSE {}

running_kernel_binprm_filename_offset(k) == UNION {binprm_filename_offset(t) : t \in k.btf}

(* ---- what this node can hook ---- *)

tracepoints_for_arch(k) == SelectSeq(TRACEPOINTS, LAMBDA h : h \in k.arch)
tracepoints_absent_on_arch(k) == ToSet(TRACEPOINTS) \ k.arch

(* Whether tracefs shows this tracepoint; without a tracefs nobody can     *)
(* tell.                                                                   *)
tracepoint_in_tracefs(k, h) == IF ~k.tracefs THEN {} ELSE {h \in k.tracepoints}

(* `bpf` in the active list, or, with no list to read, kernel BTF.         *)
lsm_available(k) == k.lsm = "listed" \/ (k.lsm = "unreadable" /\ k.btf # {})

(* The soft limit is raised to the hard one, which may still be too low for *)
(* a kernel that charges the maps against it.                              *)
raise_memlock(k) == k.hardLimit
LoadFits(k) == k.charges => raise_memlock(k) = "enough"

(* ---- attach_for_arch ---- *)

NoHandle == /\ held' = {} /\ links' = <<>>

(* Any failure drops the handle: nothing it attached stays.                *)
AttachFails == /\ phase' = "failed" /\ todo' = <<>> /\ NoHandle
               /\ UNCHANGED <<unhooked, told, exec, lsmWhy, pins, pin, instance>>

(* The probe that forgets to report what it dropped.                       *)
ProbeSilently ==
    /\ phase = "start"
    /\ LET wanted == SelectSeq(tracepoints_for_arch(kernel),
                               LAMBDA h : tracepoint_in_tracefs(kernel, h) # {FALSE})
       IN  IF ~verify_map_defs(elf) \/ wanted = <<>> THEN AttachFails
           ELSE /\ phase' = "load" /\ todo' = wanted
                /\ unhooked' = tracepoints_absent_on_arch(kernel)
                /\ UNCHANGED <<held, links, told, exec, lsmWhy, pins, pin, instance>>
    /\ UNCHANGED <<kernel, elf>>

(* Absence is read from tracefs before anything is loaded.                 *)
Probe ==
    /\ phase = "start"
    /\ LET absent == {h \in ToSet(tracepoints_for_arch(kernel)) :
                         tracepoint_in_tracefs(kernel, h) = {FALSE}}
           wanted == SelectSeq(tracepoints_for_arch(kernel), LAMBDA h : h \notin absent)
       IN  IF ~verify_map_defs(elf) \/ wanted = <<>> THEN AttachFails
           ELSE /\ phase' = "load" /\ todo' = wanted
                /\ unhooked' = tracepoints_absent_on_arch(kernel) \union absent
                /\ UNCHANGED <<held, links, told, exec, lsmWhy, pins, pin, instance>>
    /\ UNCHANGED <<kernel, elf>>

Load ==
    /\ phase = "load"
    /\ IF ~LoadFits(kernel) THEN AttachFails
       ELSE /\ phase' = "hook"
            /\ exec' = running_kernel_binprm_filename_offset(kernel)
            /\ UNCHANGED <<todo, held, links, unhooked, told, lsmWhy, pins, pin, instance>>
    /\ UNCHANGED <<kernel, elf>>

(* The tracepoint's id is read from tracefs; any other refusal of the      *)
(* kernel is a failed attach too.                                          *)
AttachHook(refused) ==
    /\ phase = "hook" /\ todo # <<>>
    /\ IF refused \/ Head(todo) \notin elf.programs \/ ~kernel.tracefs
          \/ Head(todo) \notin kernel.tracepoints
       THEN AttachFails
       ELSE /\ held' = held \union {Head(todo)} /\ links' = Append(links, Head(todo))
            /\ todo' = Tail(todo) /\ phase' = IF Len(todo) = 1 THEN "lsm" ELSE "hook"
            /\ UNCHANGED <<unhooked, told, exec, lsmWhy, pins, pin, instance>>
    /\ UNCHANGED <<kernel, elf>>

(* Every refusal leaves the tracepoints on and names itself.               *)
AttachLsm(refused) ==
    /\ phase = "lsm"
    /\ LET why == CASE ~lsm_available(kernel) -> {"not detected"}
                    [] kernel.btf = {} -> {"no BTF"}
                    [] LSM_HOOK \notin elf.programs -> {"missing"}
                    [] refused -> {"refused"}
                    [] OTHER -> {}
       IN  /\ lsmWhy' = why
           /\ held' = IF why = {} THEN held \union {LSM_HOOK} ELSE held
    /\ phase' = "up"
    /\ UNCHANGED <<kernel, elf, todo, links, unhooked, told, exec, pins, pin, instance>>

(* ---- pin_at ---- *)

PINNED_MAPS == <<"ferrum_events", "ferrum_cgroups", "ferrum_self">>

Occupied(path) == \E p \in pins : p.path = path

PinEnds(result) == phase' = "up" /\ todo' = <<>> /\ pin' = [pin EXCEPT !.last = result]

PinBegins ==
    /\ phase = "up" /\ pin.calls < MaxPinCalls
    /\ phase' = "pin maps" /\ todo' = PINNED_MAPS
    /\ pin' = [calls |-> pin.calls + 1, last |-> "running"]
    /\ UNCHANGED <<kernel, elf, held, links, unhooked, told, exec, lsmWhy, pins, instance>>

(* Maps first: what can go wrong with the filesystem goes wrong while no   *)
(* hook has left its program.                                              *)
PinMap ==
    /\ phase = "pin maps"
    /\ IF Occupied(Head(todo)) \/ ~kernel.bpffs
       THEN PinEnds("error") /\ UNCHANGED pins
       ELSE /\ pins' = pins \union {[path |-> Head(todo), by |-> instance]}
            /\ UNCHANGED pin
            /\ IF Len(todo) = 1 THEN phase' = "pin links" /\ todo' = links
               ELSE phase' = phase /\ todo' = Tail(todo)
    /\ UNCHANGED <<kernel, elf, held, links, unhooked, told, exec, lsmWhy, instance>>

(* The hook is put back, or the error says that it is gone.                *)
reattach(h, works) ==
    /\ PinEnds("error")
    /\ IF works THEN links' = <<h>> /\ UNCHANGED <<held, told>>
       ELSE links' = <<>> /\ held' = held \ {h} /\ told' = told \union {h}

(* The link leaves its program: pinned, it lives by the file alone.  The   *)
(* ids taken and not yet visited are dropped on an early return.           *)
PinLink(works, back) ==
    /\ phase = "pin links" /\ todo # <<>>
    /\ LET h == Head(todo) IN
       \/ /\ Occupied(h)
          /\ PinEnds("error") /\ links' = <<h>>
          /\ UNCHANGED <<held, told, pins>>
       \/ /\ ~Occupied(h) /\ ~(kernel.bpfLink /\ works)
          /\ reattach(h, back) /\ UNCHANGED pins
       \/ /\ ~Occupied(h) /\ kernel.bpfLink /\ works
          /\ pins' = pins \union {[path |-> h, by |-> instance]}
          /\ held' = held \ {h} /\ links' = Tail(links)
          /\ todo' = Tail(todo)
          /\ UNCHANGED <<phase, told, pin>>
    /\ UNCHANGED <<kernel, elf, unhooked, exec, lsmWhy, instance>>

(* The LSM link last; a failed re-attach is also why the hook is off.      *)
PinLsm(works, back) ==
    /\ phase = "pin links" /\ todo = <<>>
    /\ IF LSM_HOOK \notin held THEN PinEnds("ok") /\ UNCHANGED <<held, told, lsmWhy, pins>>
       ELSE \/ /\ Occupied(LSM_HOOK)
               /\ PinEnds("error") /\ UNCHANGED <<held, told, lsmWhy, pins>>
            \/ /\ ~Occupied(LSM_HOOK) /\ works
               /\ pins' = pins \union {[path |-> LSM_HOOK, by |-> instance]}
               /\ held' = held \ {LSM_HOOK}
               /\ PinEnds("ok") /\ UNCHANGED <<told, lsmWhy>>
            \/ /\ ~Occupied(LSM_HOOK) /\ ~works
               /\ PinEnds("error") /\ UNCHANGED pins
               /\ IF back THEN UNCHANGED <<held, told, lsmWhy>>
                  ELSE /\ held' = held \ {LSM_HOOK} /\ told' = told \union {LSM_HOOK}
                       /\ lsmWhy' = {"re-attach"}
    /\ UNCHANGED <<kernel, elf, links, unhooked, exec, instance>>

(* ---- around it ---- *)

(* What a process that ends takes with it; pinned files stay.              *)
HandleDropped ==
    /\ todo' = <<>> /\ NoHandle
    /\ unhooked' = {} /\ told' = {} /\ exec' = {} /\ lsmWhy' = {}
    /\ pin' = [calls |-> 0, last |-> "none"]
    /\ UNCHANGED <<elf, pins>>

AttachInit(k, e) ==
    /\ kernel = k /\ elf = e
    /\ phase = "off" /\ todo = <<>> /\ held = {} /\ links = <<>>
    /\ unhooked = {} /\ told = {} /\ exec = {} /\ lsmWhy = {}
    /\ pins = {[path |-> p, by |-> 0] : p \in k.planted}
    /\ pin = [calls |-> 0, last |-> "none"]
    /\ instance = 0

AttachNext ==
    \/ Probe \/ Load \/ PinBegins \/ PinMap
    \/ \E refused \in BOOLEAN : AttachHook(refused) \/ AttachLsm(refused)
    \/ \E works, back \in BOOLEAN : PinLink(works, back) \/ PinLsm(works, back)

(* ---- what must hold ---- *)

PinnedBy(i) == {p.path : p \in {q \in pins : q.by = i}}

Attached == phase \notin {"off", "start", "load", "hook", "lsm", "failed"}

Live == held \union PinnedBy(instance)

(* Once a handle is up, and whatever pin_at does to it afterwards, every   *)
(* datapath syscall has its hook on this node or has been reported without *)
(* one; a start that failed left no hook behind (kernel.rs attach_for_arch, *)
(* pin_at, reattach).                                                      *)
EveryHookAccounted ==
    /\ Attached => ToSet(TRACEPOINTS) \subseteq Live \union unhooked \union told
    /\ Attached => (LSM_HOOK \in Live <=> lsmWhy = {})
    /\ phase \in {"off", "start", "load", "failed"} => held = {}

(* A pin_at that returned Ok on a fresh handle has put every hook of the   *)
(* handle under the pin root, so the node keeps watching when the agent    *)
(* dies (kernel.rs pin_at).                                                *)
PinnedMeansAll ==
    pin = [calls |-> 1, last |-> "ok"] =>
        held = {} /\ ToSet(TRACEPOINTS) \subseteq PinnedBy(instance) \union unhooked

(* An exec hook that was given an offset reads the file name of the        *)
(* program this kernel executes, never another field (btf.rs).             *)
PathOffsetIsTrue == exec \subseteq {kernel.filenameAt}

(* What an attached agent says of its hooks, its pins and the path it      *)
(* reads is so, through every failure of attaching and pinning.            *)
AttachIsTrue == EveryHookAccounted /\ PinnedMeansAll /\ PathOffsetIsTrue

=============================================================================
