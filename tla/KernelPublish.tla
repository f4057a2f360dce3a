--------------------------- MODULE KernelPublish ---------------------------
(***************************************************************************)
(* How the agent's ring thread brings the two kernel maps, ferrum_rules    *)
(* (an array of rule slots) and ferrum_selected (a set of cgroup ids), to  *)
(* the policy in force: republish_kernel_policy and plan_kernel_publish of *)
(* ferrum-agent/src/lib.rs, the writers of ferrum-ebpf/src/kernel.rs, and  *)
(* the arm of the ring loop in ferrum-agent/src/main.rs that runs them.    *)
(*                                                                         *)
(* Every write of one map entry is one step and may fail.  The ring thread *)
(* holds a read guard on the agent for a whole republish, so the policy in *)
(* force (digest) changes only between two republishes; the cgroup index   *)
(* has a lock of its own and moves at any time.                            *)
(*                                                                         *)
(* Abstractions: a rule is the digest it was compiled from (slot i holds   *)
(* only ever the i-th rule of a set); an identity is what the selectors    *)
(* tell apart; error texts, counts of excluded rules and the reason of a   *)
(* refused set are left out (a refused set has no rules).  The id order in *)
(* which a diff is applied is left open.  The loader never forgets its     *)
(* last good bundle (ferrum-ebpf/src/loader.rs), so the branch of          *)
(* republish_kernel_policy for "no bundle in force" under a published one  *)
(* is never taken.                                                         *)
(***************************************************************************)
EXTENDS Integers, FiniteSets

CONSTANTS
    Digests,             \* the bundles the policy mount may deliver
    NoDigest,            \* no bundle, Option::None
    Cgroups,             \* cgroup ids of this node
    Idents,              \* pod identities the selectors tell apart
    NoPod,               \* a cgroup that the index does not hold
    HasSelector,         \* the bundles whose selector is not empty
    Selects,             \* <<d, i>>: the selector of d matches identity i
    RuleCount,           \* slots the kernel-decidable rules of d take
    MAX_KERNEL_RULES,    \* slots of ferrum_rules
    CGROUPS_MAX_ENTRIES  \* entries that fit ferrum_selected

ASSUME DigestAssumption == /\ NoDigest \notin Digests
                           /\ HasSelector \subseteq Digests

ASSUME IndexAssumption == /\ NoPod \notin Idents
                          /\ IsFiniteSet(Cgroups)
                          /\ Selects \subseteq Digests \X Idents

\* compile_kernel_rules refuses a set that does not fit rather than truncate it.
ASSUME SlotAssumption == /\ MAX_KERNEL_RULES \in Nat \ {0}
                         /\ CGROUPS_MAX_ENTRIES \in Nat
                         /\ RuleCount \in [Digests -> 0 .. MAX_KERNEL_RULES]

Slots == 0 .. MAX_KERNEL_RULES - 1

NoRule == NoDigest  \* an empty slot

VARIABLES
    digest,     \* loader.last_good_digest: the policy in force
    index,      \* SharedCgroupIndex: cgroup id -> identity
    rules,      \* ferrum_rules as the kernel holds it
    selected,   \* ferrum_selected, and its mirror in the handle
    published,  \* the ring loop's local: the digest the maps hold
    unsynced,   \* kernel_rules_unsynced, without its text
    installed,  \* kernel_rules_installed, the reported slot count
    gauge,      \* selected_cgroups, the reported entry count
    pc,         \* where the ring thread is in a republish
    slot,       \* the next slot a loop over the slots writes
    want,       \* selected_cgroups_for_last_good, read once per republish
    asked       \* history: the cgroups each policy asked for, see OnlySelectedRefused

agentVars == <<unsynced, installed, gauge>>
vars == <<digest, index, rules, selected, published, agentVars, pc, slot, want, asked>>

----------------------------------------------------------------------------
(* What a policy means for the two maps. *)

\* selected_cgroups_for_last_good: empty without a bundle and for a policy
\* without a selector.
SelectedCgroups(d) ==
    IF d \in HasSelector THEN {c \in Cgroups : <<d, index[c]>> \in Selects} ELSE {}

\* The rule that sync_kernel_rules puts into slot s; the tail is emptied.
RuleAt(d, s) ==
    IF d \in Digests /\ s < RuleCount[d] THEN d ELSE NoRule

\* The loop "for index in 0..MAX_KERNEL_RULES" ends with this slot.
LastSlot(s) == s + 1 = MAX_KERNEL_RULES

RulesImage(d) == [s \in Slots |-> RuleAt(d, s)]

Count(d) == IF d \in Digests THEN RuleCount[d] ELSE 0

\* kernel_rule_matches, as far as the two maps decide it: a slot is in use, and
\* a rule of a selected policy fires only for a cgroup in ferrum_selected.
KernelRefuses(d, c) ==
    /\ \E s \in Slots : rules[s] = d
    /\ d \in HasSelector => c \in selected

----------------------------------------------------------------------------
Init ==
    /\ digest = NoDigest
    /\ index = [c \in Cgroups |-> NoPod]
    /\ rules = [s \in Slots |-> NoRule]
    /\ selected = {}
    /\ published = NoDigest
    /\ unsynced = "None"
    /\ installed = 0
    /\ gauge = 0
    /\ pc = "idle"
    /\ slot = 0
    /\ want = {}
    /\ asked = [d \in Digests |-> {}]

(* The reload poller installs a bundle.  It takes the write guard, so never *)
(* while a republish is under way.                                          *)
Reload(d) ==
    /\ pc = "idle"
    /\ d # digest
    /\ digest' = d
    /\ UNCHANGED <<index, rules, selected, published, agentVars, pc, slot, want, asked>>

(* A refresh swaps the index, at any time. *)
ReplaceIndex(next) ==
    /\ next # index
    /\ index' = next
    /\ UNCHANGED <<digest, rules, selected, published, agentVars, pc, slot, want, asked>>

\* Faulty variant: the error arm remembers the digest as published.
FailRemembersDigest ==
    /\ pc' = "idle"
    /\ slot' = 0
    /\ want' = {}
    /\ published' = digest
    /\ unsynced' = "Some"
    /\ installed' = 0
    /\ UNCHANGED gauge

(* The Err arm of the ring loop: mark_kernel_rules_unsynced, published = None. *)
Fail ==
    /\ pc' = "idle"
    /\ slot' = 0
    /\ want' = {}
    /\ published' = NoDigest
    /\ unsynced' = "Some"
    /\ installed' = 0
    /\ UNCHANGED gauge

(* plan_map_sync refuses a set that does not fit the map, before any write. *)
RepublishOversized ==
    /\ pc = "idle"
    /\ Cardinality(SelectedCgroups(digest)) > CGROUPS_MAX_ENTRIES
    /\ Fail
    /\ UNCHANGED <<digest, index, rules, selected, asked>>

\* Faulty variant: the selected set moves before the rules come off.
FirstStepSelectedFirst(policyChanged, selectedChanged) ==
    IF selectedChanged THEN "selected"
    ELSE IF policyChanged THEN "rules" ELSE "idle"

\* plan_kernel_publish: the first step of the sequence, given whether the
\* policy and the selected set changed.
FirstStep(policyChanged, selectedChanged) ==
    IF policyChanged THEN "retire"
    ELSE IF selectedChanged THEN "selected" ELSE "idle"

\* ... the step after RetireRules ...
AfterRetire == IF selected # want THEN "selected" ELSE "rules"

\* ... and the one after PublishSelected.
AfterSelected == IF digest # published THEN "rules" ELSE "done"

(* A republish starts: the digest and the wanted set are read, once. *)
Republish ==
    /\ pc = "idle"
    /\ LET w == SelectedCgroups(digest)
       IN  /\ Cardinality(w) <= CGROUPS_MAX_ENTRIES
           /\ pc' = FirstStep(digest # published, w # selected)
           /\ pc' # "idle"
           /\ want' = w
           /\ asked' = IF pc' = "selected"
                       THEN [asked EXCEPT ![digest] = @ \cup w] ELSE asked
    /\ slot' = 0
    /\ UNCHANGED <<digest, index, rules, selected, published, agentVars>>

----------------------------------------------------------------------------
(* RetireRules: clear_kernel_rules, slot by slot. *)
RetireSlot ==
    /\ pc = "retire"
    /\ rules' = [rules EXCEPT ![slot] = NoRule]
    /\ IF ~LastSlot(slot)
       THEN /\ slot' = slot + 1
            /\ UNCHANGED <<pc, asked>>
       ELSE /\ slot' = 0
            /\ pc' = AfterRetire
            /\ asked' = [d \in Digests |-> IF d = digest THEN want ELSE {}]
    /\ UNCHANGED <<digest, index, selected, published, agentVars, want>>

(* PublishSelected: sync_selected_cgroups removes first, then inserts. *)
SelectedMoved ==
    /\ pc' = IF selected' = want THEN AfterSelected ELSE "selected"
    /\ UNCHANGED <<digest, index, rules, published, agentVars, slot, want, asked>>

RemoveSelected(c) ==
    /\ pc = "selected"
    /\ c \in selected \ want
    /\ selected' = selected \ {c}
    /\ SelectedMoved

InsertSelected(c) ==
    /\ pc = "selected"
    /\ selected \subseteq want
    /\ c \in want \ selected
    /\ selected' = selected \cup {c}
    /\ SelectedMoved

(* PublishRules: sync_kernel_rules writes every slot, the empty tail too. *)
WriteSlot ==
    /\ pc = "rules"
    /\ rules' = [rules EXCEPT ![slot] = RuleAt(digest, slot)]
    /\ IF ~LastSlot(slot)
       THEN /\ slot' = slot + 1
            /\ UNCHANGED pc
       ELSE /\ slot' = 0
            /\ pc' = "done"
    /\ UNCHANGED <<digest, index, selected, published, agentVars, want, asked>>

(* mark_kernel_rules_synced (after PublishRules only), mark_selected_cgroups, *)
(* and Ok(Published(digest)).                                                 *)
PublishDone ==
    /\ pc = "done"
    /\ IF digest # published
       THEN /\ installed' = Count(digest)
            /\ unsynced' = "None"
       ELSE UNCHANGED <<installed, unsynced>>
    /\ gauge' = Cardinality(selected)
    /\ published' = digest
    /\ pc' = "idle"
    /\ want' = {}
    /\ UNCHANGED <<digest, index, rules, selected, slot, asked>>

(* A write of one entry that the kernel refuses.  Inside sync_kernel_rules *)
(* the map is cleared before the error is returned.                        *)
WriteFails ==
    /\ pc \in {"retire", "selected", "clear"}
    /\ Fail
    /\ UNCHANGED <<digest, index, rules, selected, asked>>

WriteSlotFails ==
    /\ pc = "rules"
    /\ pc' = "clear"
    /\ slot' = 0
    /\ UNCHANGED <<digest, index, rules, selected, published, agentVars, want, asked>>

ClearSlot ==
    /\ pc = "clear"
    /\ rules' = [rules EXCEPT ![slot] = NoRule]
    /\ IF ~LastSlot(slot)
       THEN /\ slot' = slot + 1
            /\ UNCHANGED <<pc, published, agentVars, want>>
       ELSE Fail
    /\ UNCHANGED <<digest, index, selected, asked>>

----------------------------------------------------------------------------
(* The steps of the ring thread in which every write succeeds ... *)
RingStep ==
    \/ Republish
    \/ RepublishOversized
    \/ RetireSlot
    \/ \E c \in Cgroups : RemoveSelected(c) \/ InsertSelected(c)
    \/ WriteSlot
    \/ ClearSlot
    \/ PublishDone

(* ... and the ones in which a write fails. *)
WriteFault == WriteFails \/ WriteSlotFails

Environment ==
    \/ \E d \in Digests : Reload(d)
    \/ \E next \in [Cgroups -> Idents \cup {NoPod}] : ReplaceIndex(next)

Next == RingStep \/ WriteFault \/ Environment

Spec == Init /\ [][Next]_vars

(* The ring thread loops forever and no lock it takes is held across a wait. *)
FairSpec == Spec /\ WF_vars(RingStep)

----------------------------------------------------------------------------
\* The types: no slot outside ferrum_rules is written, no count exceeds its size.
TypeOK ==
    /\ digest \in Digests \cup {NoDigest}
    /\ index \in [Cgroups -> Idents \cup {NoPod}]
    /\ rules \in [Slots -> Digests \cup {NoRule}]
    /\ selected \subseteq Cgroups
    /\ published \in Digests \cup {NoDigest}
    /\ unsynced \in {"None", "Some"}
    /\ installed \in 0 .. MAX_KERNEL_RULES
    /\ gauge \in Nat
    /\ pc \in {"idle", "retire", "selected", "rules", "clear", "done"}
    /\ slot \in Slots
    /\ want \subseteq Cgroups
    /\ asked \in [Digests -> SUBSET Cgroups]

\* The outage the order of the three steps exists to prevent (lib.rs, "refuses
\* execs in containers the policy never selected"): whatever fails and however
\* pods and policies move, a rule of a selected policy refuses execs only in
\* cgroups this very policy asked for since it last took the rules over.
OnlySelectedRefused ==
    \A d \in HasSelector, c \in Cgroups :
        KernelRefuses(d, c) => c \in asked[d]

\* ferrum_rules never holds rules of two policies at once, not even half-way
\* through a publish, after a failed write or after a failed clearing.
OnePolicyInRules ==
    \A s, t \in Slots :
        rules[s] # NoRule /\ rules[t] # NoRule => rules[s] = rules[t]

\* Between two republishes an agent that reports no unsynced rule set holds
\* exactly the policy it believes it published, and reports its true size.
SyncedMeansPublished ==
    pc = "idle" /\ unsynced = "None" =>
        /\ rules = RulesImage(published)
        /\ installed = Count(published)
        /\ gauge = Cardinality(selected)

\* The maps never refuse more than one policy asked for, and the agent never says
\* they hold what they do not.
KernelIsSafe ==
    /\ TypeOK
    /\ OnlySelectedRefused
    /\ OnePolicyInRules
    /\ SyncedMeansPublished

\* The other half of plan_kernel_publish: pods moving under an unchanged policy
\* open no prevention gap, so no slot is emptied or rewritten while the maps
\* hold the policy in force.
UnchangedPolicyKeepsRules ==
    [][rules' # rules => digest # published]_vars

\* The maps hold the policy in force and the pods it selects right now.
Converged ==
    /\ published = digest
    /\ unsynced = "None"
    /\ rules = RulesImage(digest)
    /\ selected = SelectedCgroups(digest)

\* Once writes stop failing, pods and policies stop moving and the selected set
\* fits its map, the next ticks bring the maps to the policy in force, whatever
\* half-applied state the failures left.
EventuallyConverges ==
    (/\ <>[][~WriteFault /\ ~Environment]_vars
     /\ <>[](Cardinality(SelectedCgroups(digest)) <= CGROUPS_MAX_ENTRIES))
        => <>[]Converged

----------------------------------------------------------------------------
(* What the comments say of a failed republish, and the code does not do. *)

\* "Every failure leaves the sequence stopped with the rules off" (lib.rs),
\* "ferrum_rules was cleared, so this node prevents nothing in kernel".
FailureLeavesRulesOff ==
    pc = "idle" /\ unsynced = "Some" => rules = [s \in Slots |-> NoRule]
=============================================================================
