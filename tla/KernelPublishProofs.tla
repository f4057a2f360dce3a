------------------------- MODULE KernelPublishProofs -------------------------
(***************************************************************************)
(* For any policies, pods, slot count and map capacity: the safety         *)
(* properties of KernelPublish.  One inductive invariant carries all of    *)
(* them.  It says what each phase of a republish knows about the rules     *)
(* map, and that whatever rules are in it, the selected set lies within    *)
(* what their policy asked for.                                            *)
(***************************************************************************)
EXTENDS KernelPublish, TLAPS, FiniteSetTheorems

\* Before the first bundle there is nothing to publish.
NoPolicyYet ==
    digest = NoDigest => /\ pc = "idle"
                         /\ selected = {}
                         /\ unsynced = "None"
                         /\ published = NoDigest

\* A digest is remembered as published only by a success.
Remembered == published \in Digests => unsynced = "None"

\* The maps hold the published policy when the ring thread is idle, and while
\* it only moves pods.
InForce ==
    /\ unsynced = "None" /\ (pc = "idle" \/ published = digest) =>
           /\ \A s \in Slots : rules[s] = RuleAt(published, s)
           /\ installed = Count(published)
    /\ unsynced = "None" /\ pc = "idle" => gauge = Cardinality(selected)

\* The selected set lies within what the policy in the rules map asked for.
Covered == \A s \in Slots : rules[s] \in Digests => selected \subseteq asked[rules[s]]

\* What each phase knows.
Phases ==
    /\ pc \in {"retire", "rules", "clear"} => digest # published
    /\ pc \in {"idle", "selected", "done"} => slot = 0
    /\ pc = "retire" => \A s \in Slots : s < slot => rules[s] = NoRule
    /\ pc = "selected" =>
           /\ want \subseteq asked[digest]
           /\ \A s \in Slots : rules[s] \in {NoRule, digest}
           /\ digest # published => \A s \in Slots : rules[s] = NoRule
    /\ pc = "rules" =>
           /\ selected \subseteq asked[digest]
           /\ \A s \in Slots : rules[s] = IF s < slot THEN RuleAt(digest, s) ELSE NoRule
    /\ pc = "clear" =>
           /\ selected \subseteq asked[digest]
           /\ \A s \in Slots : rules[s] \in {NoRule, digest}
    /\ pc = "done" /\ digest # published => \A s \in Slots : rules[s] = RuleAt(digest, s)

IInv ==
    /\ TypeOK
    /\ NoPolicyYet
    /\ Remembered
    /\ InForce
    /\ Covered
    /\ OnePolicyInRules
    /\ Phases

----------------------------------------------------------------------------
USE DEF agentVars, vars, NoRule

\* What a policy asks for is a set of cgroups, and a set of cgroups has a size.
LEMMA SelectedType ==
    ASSUME TypeOK, NEW d
    PROVE  SelectedCgroups(d) \subseteq Cgroups
BY DEF SelectedCgroups

\* The size of a set of cgroups is a natural number: Cgroups is finite.
LEMMA SizeType ==
    ASSUME NEW S, S \subseteq Cgroups
    PROVE  Cardinality(S) \in Nat
BY IndexAssumption, FS_Subset, FS_CardinalityType

\* A slot holds a bundle's rule or none, and a bundle has at most every slot.
LEMMA RuleType ==
    ASSUME NEW d, NEW s \in Slots
    PROVE  /\ RuleAt(d, s) \in Digests \cup {NoRule}
           /\ RuleAt(d, s) \in {NoRule, d}
           /\ Count(d) \in 0 .. MAX_KERNEL_RULES
BY SlotAssumption DEF RuleAt, Count

\* The maps and the locals of a ring thread that starts have their types.
LEMMA TypeInit == Init => TypeOK
BY SlotAssumption DEF Init, TypeOK, Slots

\* Every step keeps the types: no loop runs past the slots of ferrum_rules.
LEMMA TypeStep == TypeOK /\ [Next]_vars => TypeOK'
<1> SUFFICES ASSUME TypeOK, [Next]_vars PROVE TypeOK'
    OBVIOUS
<1> USE SlotAssumption, DigestAssumption DEF TypeOK
<1>1. CASE Republish
  <2>1. SelectedCgroups(digest) \subseteq Cgroups
    BY SelectedType
  <2>2. want' \subseteq Cgroups
    BY <1>1, <2>1 DEF Republish
  <2>3. asked' \in [Digests -> SUBSET Cgroups]
    BY <1>1, <2>1 DEF Republish
  <2>4. pc' \in {"retire", "selected"} /\ slot' \in Slots
    BY <1>1 DEF Republish, FirstStep, Slots
  <2> QED
    BY <1>1, <2>2, <2>3, <2>4 DEF Republish
<1>2. CASE RepublishOversized
    BY <1>2 DEF RepublishOversized, Fail, Slots
<1>3. CASE RetireSlot
  <2>1. asked' \in [Digests -> SUBSET Cgroups]
    BY <1>3 DEF RetireSlot
  <2>2. slot' \in Slots /\ rules' \in [Slots -> Digests \cup {NoRule}]
    BY <1>3 DEF RetireSlot, LastSlot, Slots
  <2>3. pc' \in {"retire", "selected", "rules"}
    BY <1>3 DEF RetireSlot, AfterRetire
  <2> QED
    BY <1>3, <2>1, <2>2, <2>3 DEF RetireSlot
<1>4. ASSUME NEW c \in Cgroups, RemoveSelected(c) \/ InsertSelected(c)
      PROVE  TypeOK'
    BY <1>4 DEF RemoveSelected, InsertSelected, SelectedMoved, AfterSelected
<1>5. CASE WriteSlot
    BY <1>5, RuleType DEF WriteSlot, LastSlot, Slots
<1>6. CASE ClearSlot
    BY <1>6 DEF ClearSlot, Fail, LastSlot, Slots
<1>7. CASE PublishDone
  <2>1. Count(digest) \in 0 .. MAX_KERNEL_RULES
    BY RuleType
  <2>2. gauge' \in Nat
    BY <1>7, SizeType DEF PublishDone
  <2>3. installed' \in 0 .. MAX_KERNEL_RULES /\ unsynced' \in {"None", "Some"}
    BY <1>7, <2>1 DEF PublishDone
  <2> QED
    BY <1>7, <2>2, <2>3 DEF PublishDone
<1>8. CASE WriteFault
    BY <1>8 DEF WriteFault, WriteFails, WriteSlotFails, Fail, Slots
<1>9. ASSUME NEW d \in Digests, Reload(d)
      PROVE  TypeOK'
    BY <1>9 DEF Reload
<1>10. ASSUME NEW next \in [Cgroups -> Idents \cup {NoPod}], ReplaceIndex(next)
       PROVE  TypeOK'
    BY <1>10 DEF ReplaceIndex
<1>11. CASE UNCHANGED vars
    BY <1>11
<1> QED
    BY <1>1, <1>2, <1>3, <1>4, <1>5, <1>6, <1>7, <1>8, <1>9, <1>10, <1>11
    DEF Next, RingStep, Environment

----------------------------------------------------------------------------
\* Empty maps and no policy in force satisfy every part of the invariant.
LEMMA InvInit == Init => IInv
<1> SUFFICES ASSUME Init PROVE IInv
    OBVIOUS
<1>1. TypeOK
    BY TypeInit
<1>2. Cardinality(selected) = 0
    BY FS_EmptySet DEF Init
<1>3. InForce
    BY <1>2, DigestAssumption DEF Init, InForce, RuleAt, Count
<1>4. Covered /\ OnePolicyInRules
    BY DigestAssumption DEF Init, Covered, OnePolicyInRules
<1> QED
    BY <1>1, <1>3, <1>4, DigestAssumption
    DEF IInv, Init, NoPolicyYet, Remembered, Phases

\* A republish that starts: retiring an old policy, or moving pods under the
\* policy in force, whose rules are the only ones in the map.
LEMMA RepublishInv == IInv /\ TypeOK' /\ Republish => IInv'
<1> SUFFICES ASSUME IInv, TypeOK', Republish PROVE IInv'
    OBVIOUS
<1> USE DigestAssumption DEF IInv, TypeOK
<1>1. digest \in Digests
    BY DEF Republish, FirstStep, NoPolicyYet, SelectedCgroups
<1>2. pc' = "retire" => digest # published
    BY DEF Republish, FirstStep
<1>3. pc' = "selected" => digest = published /\ asked' = [asked EXCEPT ![digest] = @ \cup want']
    BY DEF Republish, FirstStep
<1>4. pc' \in {"retire", "selected"}
    BY DEF Republish, FirstStep
<1>5. \A d \in Digests : asked[d] \subseteq asked'[d]
    BY <1>1, <1>3, <1>4 DEF Republish
<1>6. Covered'
    BY <1>5 DEF Republish, Covered
<1>7. pc' = "selected" => \A s \in Slots : rules'[s] \in {NoRule, digest'}
    BY <1>1, <1>3, RuleType DEF Republish, InForce, Remembered
<1>8. pc' = "selected" => want' \subseteq asked'[digest']
    BY <1>1, <1>3 DEF Republish
<1>9. Phases'
    BY <1>2, <1>3, <1>4, <1>7, <1>8 DEF Republish, Phases, Slots
<1>10. InForce'
    BY <1>4 DEF Republish, InForce
<1> QED
    BY <1>1, <1>6, <1>9, <1>10
    DEF Republish, NoPolicyYet, Remembered, OnePolicyInRules

\* The error arm needs nothing but that the rules in the map are still covered.
LEMMA FailInv ==
    ASSUME IInv, TypeOK', Fail, digest' = digest, digest \in Digests,
           Covered', OnePolicyInRules'
    PROVE  IInv'
BY DigestAssumption DEF IInv, Fail, NoPolicyYet, Remembered, InForce, Phases

\* Clearing a slot takes rules away only; the last slot leaves the map empty, so
\* the cgroups the new policy asks for can be noted without covering an old rule.
LEMMA RetireSlotInv == IInv /\ TypeOK' /\ RetireSlot => IInv'
<1> SUFFICES ASSUME IInv, TypeOK', RetireSlot PROVE IInv'
    OBVIOUS
<1> USE DigestAssumption, SlotAssumption DEF IInv, TypeOK
<1>1. digest \in Digests /\ digest # published
    BY DEF RetireSlot, NoPolicyYet, Phases
<1>2. \A s \in Slots : s <= slot => rules'[s] = NoRule
    BY DEF RetireSlot, Phases, Slots
<1>3. \A s \in Slots : rules'[s] \in {NoRule, rules[s]}
    BY DEF RetireSlot
<1>4. OnePolicyInRules'
    BY <1>3 DEF OnePolicyInRules
<1>5. CASE LastSlot(slot)
  <2>1. \A s \in Slots : rules'[s] = NoRule
    BY <1>2, <1>5 DEF LastSlot, Slots
  <2>2. /\ pc' \in {"selected", "rules"}
        /\ pc' = "rules" => selected = want
        /\ slot' = 0
    BY <1>5 DEF RetireSlot, AfterRetire
  <2>3. asked'[digest] = want /\ want' = want
    BY <1>1, <1>5 DEF RetireSlot
  <2>4. Phases'
    BY <1>1, <2>1, <2>2, <2>3 DEF RetireSlot, Phases, Slots
  <2> QED
    BY <1>1, <1>4, <2>1, <2>2, <2>4
    DEF RetireSlot, NoPolicyYet, Remembered, InForce, Covered
<1>6. CASE ~LastSlot(slot)
  <2>1. pc' = "retire" /\ asked' = asked /\ slot' = slot + 1
    BY <1>6 DEF RetireSlot
  <2>2. Covered'
    BY <1>3, <2>1 DEF RetireSlot, Covered
  <2>3. Phases'
    BY <1>1, <1>2, <2>1 DEF RetireSlot, Phases, Slots
  <2> QED
    BY <1>1, <1>4, <2>1, <2>2, <2>3
    DEF RetireSlot, NoPolicyYet, Remembered, InForce
<1> QED
    BY <1>5, <1>6

\* The selected set moves: towards what the policy in force asked for, and no
\* other policy has a rule in the map.
LEMMA SelectedInv ==
    ASSUME IInv, TypeOK', NEW c \in Cgroups, RemoveSelected(c) \/ InsertSelected(c)
    PROVE  IInv'
<1> USE DigestAssumption, SlotAssumption DEF IInv, TypeOK
<1>0. pc = "selected" /\ SelectedMoved
    BY DEF RemoveSelected, InsertSelected
<1>1. digest \in Digests
    BY <1>0 DEF NoPolicyYet
<1>2. selected' \subseteq selected \cup want
    BY DEF RemoveSelected, InsertSelected
<1>3. \A s \in Slots : rules[s] \in {NoRule, digest}
    BY <1>0 DEF Phases
<1>4. Covered'
    BY <1>0, <1>1, <1>2, <1>3 DEF Covered, SelectedMoved, Phases
<1>5. /\ pc' = "selected" \/ (selected' = want /\ pc' = AfterSelected)
      /\ UNCHANGED <<digest, rules, published, agentVars, slot, want, asked>>
    BY <1>0 DEF SelectedMoved
<1>6. CASE pc' = "selected"
  <2>1. Phases'
    BY <1>0, <1>5, <1>6 DEF Phases
  <2> QED
    BY <1>0, <1>1, <1>4, <1>5, <1>6, <2>1
    DEF NoPolicyYet, Remembered, InForce, OnePolicyInRules
<1>7. CASE selected' = want /\ pc' = AfterSelected
  <2>1. \/ digest # published /\ pc' = "rules" /\ \A s \in Slots : rules[s] = NoRule
        \/ digest = published /\ pc' = "done"
    BY <1>0, <1>7 DEF AfterSelected, Phases
  <2>2. slot = 0
    BY <1>0 DEF Phases
  <2>3. Phases'
    BY <1>0, <1>1, <1>5, <1>7, <2>1, <2>2 DEF Phases, Slots
  <2> QED
    BY <1>0, <1>1, <1>4, <1>5, <2>1, <2>3
    DEF NoPolicyYet, Remembered, InForce, OnePolicyInRules
<1> QED
    BY <1>5, <1>6, <1>7

\* Writing a slot puts in a rule of the policy whose cgroups are selected, and
\* the last slot completes its image.
LEMMA WriteSlotInv == IInv /\ TypeOK' /\ WriteSlot => IInv'
<1> SUFFICES ASSUME IInv, TypeOK', WriteSlot PROVE IInv'
    OBVIOUS
<1> USE DigestAssumption, SlotAssumption DEF IInv, TypeOK
<1>1. digest \in Digests /\ digest # published
    BY DEF WriteSlot, NoPolicyYet, Phases
<1>2. \A s \in Slots : rules'[s] = IF s <= slot THEN RuleAt(digest, s) ELSE NoRule
    BY DEF WriteSlot, Phases, Slots
<1>3. \A s \in Slots : rules'[s] \in {NoRule, digest}
    BY <1>2, RuleType
<1>4. Covered' /\ OnePolicyInRules'
    BY <1>1, <1>3 DEF WriteSlot, Covered, OnePolicyInRules, Phases
<1>5. CASE LastSlot(slot)
  <2>1. pc' = "done" /\ slot' = 0 /\ \A s \in Slots : rules'[s] = RuleAt(digest, s)
    BY <1>2, <1>5 DEF WriteSlot, LastSlot, Slots
  <2> QED
    BY <1>1, <1>4, <2>1
    DEF WriteSlot, NoPolicyYet, Remembered, InForce, Phases
<1>6. CASE ~LastSlot(slot)
  <2>1. pc' = "rules" /\ slot' = slot + 1
    BY <1>6 DEF WriteSlot
  <2>2. Phases'
    BY <1>1, <1>2, <2>1 DEF WriteSlot, Phases, Slots
  <2> QED
    BY <1>1, <1>4, <2>1, <2>2
    DEF WriteSlot, NoPolicyYet, Remembered, InForce
<1> QED
    BY <1>5, <1>6

\* The clearing that follows a refused write takes rules away, and ends in the
\* error arm.
LEMMA ClearSlotInv == IInv /\ TypeOK' /\ ClearSlot => IInv'
<1> SUFFICES ASSUME IInv, TypeOK', ClearSlot PROVE IInv'
    OBVIOUS
<1> USE DigestAssumption, SlotAssumption DEF IInv, TypeOK
<1>1. digest \in Digests /\ digest # published
    BY DEF ClearSlot, NoPolicyYet, Phases
<1>2. \A s \in Slots : rules'[s] \in {NoRule, rules[s]} /\ rules'[s] \in {NoRule, digest}
    BY DEF ClearSlot, Phases
<1>3. Covered' /\ OnePolicyInRules'
    BY <1>2 DEF ClearSlot, Covered, OnePolicyInRules
<1>4. CASE LastSlot(slot)
    BY <1>1, <1>3, <1>4, FailInv DEF ClearSlot
<1>5. CASE ~LastSlot(slot)
  <2>1. pc' = "clear"
    BY <1>5 DEF ClearSlot
  <2> QED
    BY <1>1, <1>2, <1>3, <1>5, <2>1
    DEF ClearSlot, NoPolicyYet, Remembered, InForce, Phases
<1> QED
    BY <1>4, <1>5

\* The one step that clears the degradation finds the whole policy in the map.
LEMMA PublishDoneInv == IInv /\ TypeOK' /\ PublishDone => IInv'
<1> SUFFICES ASSUME IInv, TypeOK', PublishDone PROVE IInv'
    OBVIOUS
<1> USE DigestAssumption, SlotAssumption DEF IInv, TypeOK
<1>1. digest \in Digests
    BY DEF PublishDone, NoPolicyYet
<1>2. Covered' /\ OnePolicyInRules'
    BY DEF PublishDone, Covered, OnePolicyInRules
<1>3. \A s \in Slots : rules'[s] = RuleAt(published', s)
    BY <1>1 DEF PublishDone, Phases, InForce, Remembered
<1>4. installed' = Count(published') /\ unsynced' = "None"
    BY <1>1 DEF PublishDone, Phases, InForce, Remembered
<1>5. InForce'
    BY <1>3, <1>4 DEF PublishDone, InForce
<1> QED
    BY <1>1, <1>2, <1>4, <1>5 DEF PublishDone, NoPolicyYet, Remembered, Phases

\* A selected set that does not fit ends in the error arm with both maps as they
\* were: its policy is not the published one any more, but its rules are covered.
LEMMA OversizedInv == IInv /\ TypeOK' /\ RepublishOversized => IInv'
<1> SUFFICES ASSUME IInv, TypeOK', RepublishOversized PROVE IInv'
    OBVIOUS
<1>1. digest \in Digests
  <2>1. SelectedCgroups(digest) # {}
    BY FS_EmptySet, SlotAssumption DEF RepublishOversized
  <2> QED
    BY <2>1, DigestAssumption DEF SelectedCgroups
<1>2. Covered' /\ OnePolicyInRules'
    BY DEF RepublishOversized, IInv, Covered, OnePolicyInRules
<1> QED
    BY <1>1, <1>2, FailInv DEF RepublishOversized

\* A refused write ends in the error arm, or in the clearing if it was of a rule.
LEMMA FaultInv == IInv /\ TypeOK' /\ WriteFault => IInv'
<1> SUFFICES ASSUME IInv, TypeOK', WriteFault PROVE IInv'
    OBVIOUS
<1>1. Covered' /\ OnePolicyInRules' /\ digest' = digest
    BY DEF WriteFault, WriteFails, WriteSlotFails, IInv, Covered, OnePolicyInRules
<1>2. digest \in Digests
    BY DEF WriteFault, WriteFails, WriteSlotFails, IInv, NoPolicyYet, TypeOK
<1>3. CASE WriteFails
    BY <1>1, <1>2, <1>3, FailInv DEF WriteFails
<1>4. CASE WriteSlotFails
  <2>1. \A s \in Slots : rules[s] \in {NoRule, digest}
    BY <1>4, RuleType DEF WriteSlotFails, IInv, Phases
  <2> QED
    BY <1>1, <1>2, <1>4, <2>1, DigestAssumption
    DEF WriteSlotFails, IInv, NoPolicyYet, Remembered, InForce, Phases
<1> QED
    BY <1>3, <1>4 DEF WriteFault

\* A reload and a refresh of the cgroup index touch neither map.
LEMMA EnvironmentInv == IInv /\ TypeOK' /\ Environment => IInv'
<1> SUFFICES ASSUME IInv, TypeOK', Environment PROVE IInv'
    OBVIOUS
<1> USE DigestAssumption DEF IInv
<1>1. ASSUME NEW d \in Digests, Reload(d) PROVE IInv'
    BY <1>1 DEF Reload, NoPolicyYet, Remembered, InForce, Covered, OnePolicyInRules, Phases
<1>2. ASSUME NEW next, ReplaceIndex(next) PROVE IInv'
    BY <1>2 DEF ReplaceIndex, NoPolicyYet, Remembered, InForce, Covered, OnePolicyInRules, Phases
<1> QED
    BY <1>1, <1>2 DEF Environment

----------------------------------------------------------------------------
\* Every step of the ring thread, of the kernel and of the rest of the node keeps
\* the invariant.
LEMMA InvStep == IInv /\ [Next]_vars => IInv'
<1> SUFFICES ASSUME IInv, [Next]_vars PROVE IInv'
    OBVIOUS
<1>1. TypeOK'
    BY TypeStep DEF IInv
<1>2. CASE UNCHANGED vars
    BY <1>2 DEF IInv, TypeOK, NoPolicyYet, Remembered, InForce, Covered,
                OnePolicyInRules, Phases
<1>3. ASSUME NEW c \in Cgroups, RemoveSelected(c) \/ InsertSelected(c) PROVE IInv'
    BY <1>1, <1>3, SelectedInv
<1> QED
    BY <1>1, <1>2, <1>3, RepublishInv, OversizedInv, RetireSlotInv, WriteSlotInv,
       ClearSlotInv, PublishDoneInv, FaultInv, EnvironmentInv DEF Next, RingStep

\* The inductive invariant holds in every reachable state, for any number of
\* slots, cgroups and policies.
THEOREM Invariance == Spec => []IInv
BY InvInit, InvStep, PTL DEF Spec

\* The types hold in every reachable state: no index leaves the slots, no count
\* exceeds them.
THEOREM TypeCorrect == Spec => []TypeOK
BY Invariance, PTL DEF IInv

\* Whatever writes fail and however pods and policies move, a rule of a selected
\* policy refuses execs only in cgroups that policy asked for.
THEOREM NoForeignRefusal == Spec => []OnlySelectedRefused
<1>1. IInv => OnlySelectedRefused
    BY DigestAssumption DEF IInv, OnlySelectedRefused, KernelRefuses, Covered
<1> QED
    BY <1>1, Invariance, PTL

\* ferrum_rules never mixes two policies.
THEOREM NeverMixed == Spec => []OnePolicyInRules
BY Invariance, PTL DEF IInv

\* An agent that reports no failure holds, and correctly counts, the policy it
\* believes it published.
THEOREM SyncedIsTrue == Spec => []SyncedMeansPublished
<1>1. IInv => SyncedMeansPublished
    BY DEF IInv, TypeOK, SyncedMeansPublished, InForce, RulesImage
<1> QED
    BY <1>1, Invariance, PTL

\* All of it together: the maps and what the agent says of them are safe in every
\* reachable state.
THEOREM KernelSafe == Spec => []KernelIsSafe
BY TypeCorrect, NoForeignRefusal, NeverMixed, SyncedIsTrue, PTL DEF KernelIsSafe

\* A step changes the rules map only when the policy in force is not the
\* published one.
THEOREM NoNeedlessGap == Spec => UnchangedPolicyKeepsRules
<1>1. IInv /\ [Next]_vars => [rules' # rules => digest # published]_vars
    BY DEF IInv, Phases, Next, RingStep, WriteFault, Environment, Republish,
           RepublishOversized, RetireSlot, RemoveSelected, InsertSelected, SelectedMoved,
           WriteSlot, ClearSlot, PublishDone, WriteFails, WriteSlotFails, Reload, ReplaceIndex
<1> QED
    BY <1>1, Invariance, PTL DEF Spec, UnchangedPolicyKeepsRules
=============================================================================
