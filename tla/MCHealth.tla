------------------------------ MODULE MCHealth ------------------------------
(***************************************************************************)
(* The two status surfaces of Ferrum, the agent's and the controller's.    *)
(* They are written by the same scheme and share nothing, so a behaviour   *)
(* is one of either.                                                       *)
(***************************************************************************)
EXTENDS NodeHealth, ControllerHealth

VARIABLE program   \* "agent" or "controller"

vars == <<program, nodeVars, controllerVars>>

\* The part that does not move starts in one state.
Init ==
  /\ program \in {"agent", "controller"} /\ NodeInit /\ ControllerInit
  /\ program = "controller" => boot = CHOOSE b \in Boots : TRUE

Agent(Step) == program = "agent" /\ Step /\ UNCHANGED <<program, controllerVars>>
Controller(Step) == program = "controller" /\ Step /\ UNCHANGED <<program, nodeVars>>

Next == Agent(NodeNext) \/ Controller(ControllerNext)

\* The status loop of the agent and the interval timer of the controller never stop,
\* time passes, and an event is handled to its end.
Fairness ==
  /\ WF_vars(Agent(StatusStep)) /\ WF_vars(Agent(Elapses))
  /\ WF_vars(Controller(PublishStatus))
  /\ \A l \in Loops : WF_vars(Controller(EventEnds(l)))

Spec == Init /\ [][Next]_vars /\ Fairness

(* NodeStatusSettles, where the agent runs.                                *)
AgentStatusSettles == program = "agent" => NodeStatusSettles
-----------------------------------------------------------------------------
(* Four ways a node is started: respond with a file and a bundle path; the *)
(* same outside the host's pid namespace, given no policy name and left    *)
(* with part of the last-known-good; observe, logging only, on a node      *)
(* without BPF LSM; and a respond agent that cannot check a target, whose  *)
(* attach failed and whose list of waivers could not be read.              *)
RespondBoot ==
  [with_dir |-> TRUE, with_path |-> TRUE, role |-> "respond", host_pidns |-> TRUE,
   policy_name |-> TRUE, unprovable |-> FALSE, cgroup2 |-> TRUE, attach |-> "lsm",
   bundle |-> "good", exceptions |-> "live"]

MCBoots ==
  {RespondBoot,
   [RespondBoot EXCEPT !.host_pidns = FALSE, !.policy_name = FALSE, !.attach = "failed",
      !.bundle = "lkg_partial"],
   [RespondBoot EXCEPT !.with_dir = FALSE, !.with_path = FALSE, !.role = "observe",
      !.host_pidns = FALSE, !.attach = "fallback", !.bundle = "none",
      !.exceptions = "absent"],
   [RespondBoot EXCEPT !.with_dir = FALSE, !.unprovable = TRUE, !.cgroup2 = FALSE,
      !.attach = "failed", !.bundle = "lkg", !.exceptions = "bad"]}
=============================================================================
