----------------------------- MODULE MCReaction -----------------------------
(* The agent's own cgroup and one id that changes hands, one process.      *)
(* Respond is asked for, in the host's pid namespace or in another.        *)
EXTENDS Reaction

MCSetups == {[role |-> "respond", host_pidns |-> ns] : ns \in BOOLEAN}

Rule(a, co) == [action |-> a, container_only |-> co]
MCRules == {Rule("Kill", TRUE), Rule("Kill", FALSE), Rule("Isolate", TRUE), Rule("Deny", FALSE)}
=============================================================================
