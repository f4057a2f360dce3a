-------------------------- MODULE MCKernelPublish --------------------------
(* Instances of KernelPublish: two selected policies and one without a     *)
(* selector, two cgroups, two kinds of pod.                                *)
EXTENDS KernelPublish

CONSTANTS d1, d2, d3, web, db

MCHasSelector == {d1, d2} \cap Digests

\* d1 selects web pods and d2 selects both kinds: the sets overlap.
MCSelects == {<<d1, web>>, <<d2, web>>, <<d2, db>>} \cap (Digests \X Idents)

\* d1 fills the map, d2 leaves a tail empty, d3 has one rule.
MCRuleCount == [d \in Digests |-> IF d = d1 THEN MAX_KERNEL_RULES ELSE 1]

(* No write ever fails: what is left are reloads and moving pods. *)
FaultFreeSpec == Init /\ [][RingStep \/ Environment]_vars
=============================================================================
