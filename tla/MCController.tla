---------------------------- MODULE MCController ----------------------------
(* One policy and the waiver watch: the two that share the set. *)
EXTENDS Controller

CONSTANTS here, elsewhere

MCKind == [p \in Policies |-> "cluster"]

\* One waiver targets the policy, the other one that is not there.  (A live
\* waiver names at least one: validate_exception refuses an empty target.)
MCTargets == [x \in Waivers |-> IF x = elsewhere THEN {"other"} ELSE Policies]
=============================================================================
