----------------------------- MODULE Suspension -----------------------------
(***************************************************************************)
(* What break-glass promises (ferrum-breakglass/src/lib.rs): enforcement   *)
(* is suspended by one grant at a time, only after the activation of that  *)
(* grant is on record, and records are never taken back.                   *)
(***************************************************************************)
EXTENDS FiniteSets

CONSTANT Grant          \* the grants that can be issued

VARIABLES suspended,    \* the grant in force: a set with at most one member
          recorded      \* the grants whose activation is on durable record

svars == <<suspended, recorded>>

Init == suspended = {} /\ recorded = {}

\* Activations reach the journal: one flush covers all that was written before it.
\* Enforcement stays as it is.
Record(G) == recorded' = recorded \cup G /\ UNCHANGED suspended

\* Enforcement stops under a recorded grant, and never while another holds.
Suspend(g) == g \in recorded /\ suspended = {} /\ suspended' = {g} /\ UNCHANGED recorded

\* Enforcement is back: window closed, grant withdrawn, superseded, process gone.
Lift == suspended' = {} /\ UNCHANGED recorded

Next == \/ \E G \in SUBSET Grant : Record(G)
        \/ \E g \in Grant : Suspend(g)
        \/ Lift

Spec == Init /\ [][Next]_svars
=============================================================================
