------------------------------ MODULE Reaction ------------------------------
(***************************************************************************)
(* What the agent does about a record: handle_event_at and react of        *)
(* ferrum-agent/src/lib.rs, the refusals and the target check of           *)
(* respond.rs, and the window in which the agent decides whether an        *)
(* unflagged record came from the host, over the map of ContainerMap.      *)
(*                                                                         *)
(* The policy is one rule.  A record is judged, its target is looked up in *)
(* /proc, and the signal is sent in three steps, between which processes   *)
(* exit and pids are used again.  Waivers are the matter of Waivers, what  *)
(* a policy decides that of RuntimeRules.                                  *)
(***************************************************************************)
EXTENDS ContainerMap, FiniteSetsExt

CONSTANTS
  ProofTtl,     \* UNPROVEN_PROOF_TTL
  TrackedMax,   \* CONTAINER_FLAG_TRACKED_MAX
  Setups,       \* [role, host_pidns]: the flag and the node
  Rules,        \* [action, container_only]: the rule of the policy of the moment
  MaxRecords,   \* bound: records of a behaviour
  MaxWaiting    \* bound: records the pump has not taken

ASSUME ReactionAssumption ==
  /\ ProofTtl \in Nat \ {0} /\ TrackedMax \in Nat \ {0}
  /\ Setups \subseteq [role : {"respond", "observe"}, host_pidns : BOOLEAN]

VARIABLES
  setup,
  proc,      \* cgroup of the process the records name, or "gone"
  emitted,   \* records so far
  queue,     \* records the pump has not taken: [cg, tgid, in_container, agent_self]
  pump,      \* [pc, rec, reused]: the record in hand and whether its pid moved on
  unproven,  \* container_unproven_window: id -> [opened, seen]
  gained,    \* what the respond counters gained by the last record taken
  called,    \* history: that record called for a reaction
  signals    \* history: the signal it led to

agentVars == <<unproven, gained, called>>
vars == <<cmVars, setup, proc, emitted, queue, pump, agentVars, signals>>

Idle == [pc |-> "idle"]
Counters == {"kill", "refused", "role_skipped", "failed", "confirmed", "stale", "unprovable",
             "unproven"}
Zero == [k \in Counters |-> 0]

-----------------------------------------------------------------------------
(* Start.                                                                  *)

\* main: disable_respond.
RoleAtStart(s) == IF s.role = "respond" /\ s.host_pidns THEN "respond" ELSE "observe"
role == RoleAtStart(setup)
responder == role = "respond"

\* self_tgid_to_publish.
SelfPublished == setup.host_pidns

Init ==
  /\ CMInit
  /\ setup \in Setups /\ proc = AgentCgroup /\ emitted = 0 /\ queue = <<>> /\ pump = Idle
  /\ unproven = <<>> /\ gained = Zero
  /\ called = FALSE /\ signals = {}

-----------------------------------------------------------------------------
(* Processes and the records they leave.                                   *)

\* The process exits, or its pid goes to another; the agent cannot tell.
PidMoves ==
  /\ Change
  /\ \E c \in {c \in Cgroups : dir[c] # "none"} \cup {"gone"} : c # proc /\ proc' = c
  /\ pump' = IF pump.pc = "kill" THEN [pump EXCEPT !.reused = TRUE] ELSE pump
  /\ UNCHANGED <<now, treeVars, refresher, index, chan, mapVars, setup, emitted, queue,
                 agentVars, signals>>

Emit(cg, tgid) ==
  /\ emitted < MaxRecords /\ Len(queue) < MaxWaiting
  /\ queue' = Append(queue, [cg |-> cg, tgid |-> tgid, in_container |-> cg \in kmap,
                             agent_self |-> tgid = "agent" /\ SelfPublished])
  /\ emitted' = emitted + 1
  /\ UNCHANGED <<cmVars, setup, proc, pump, agentVars, signals>>

ProcessEmits == proc # "gone" /\ Emit(proc, "target")
AgentEmits == Emit(AgentCgroup, "agent")

-----------------------------------------------------------------------------
(* Is an unflagged cgroup a host's?                                        *)

\* Faulty variant: a scan that began with the question will do.
ProvenSince(opened) == map.at # Never /\ map.at >= opened

ProvenAfter(opened) == map.at # Never /\ map.at > opened

\* evict_unproven: entries not proven any more go; if none did, the oldest seen.
evict_unproven(windows) ==
  LET proven == {c \in DOMAIN windows : ProvenAfter(windows[c].opened)
                                          /\ now - windows[c].opened < ProofTtl}
      cut == Min({windows[c].seen : c \in DOMAIN windows})
      kept == IF proven # DOMAIN windows THEN proven
              ELSE {c \in DOMAIN windows : windows[c].seen > cut}
  IN  [c \in kept |-> windows[c]]

\* A full table makes room before a new id enters.
Tracked(windows, c) ==
  IF Cardinality(DOMAIN windows) >= TrackedMax /\ c \notin DOMAIN windows
  THEN evict_unproven(windows) ELSE windows

\* The windows after container_unproven(c): opened on the first question, and again
\* once the proof is too old.
WindowFor(c) ==
  LET held == Tracked(unproven, c)
      opened == IF c \in DOMAIN held /\ now - held[c].opened < ProofTtl
                THEN held[c].opened ELSE now
  IN  [x \in {c} \cup DOMAIN held |->
         IF x = c THEN [opened |-> opened, seen |-> now] ELSE held[x]]

\* The answer, given the windows after the question.
container_unproven(c, windows) == container_map_ready /\ ~ProvenAfter(windows[c].opened)

-----------------------------------------------------------------------------
(* react.                                                                  *)

\* refuse_reason, without the role: the agent itself, a host process, a pod nobody
\* knows, an unproven scope, the agent's own pid (as its own namespace counts).
RefuseReason(rec, unknown, scope_unproven) ==
  \/ rec.agent_self \/ ~rec.in_container \/ unknown \/ scope_unproven
  \/ rec.tgid = "agent" /\ setup.host_pidns

Count(before, names) == gained' = [k \in Counters |-> before[k] + (IF k \in names THEN 1 ELSE 0)]

\* The rule decides a record it matches; one about containers is passed over for
\* an unflagged record, which is reported if the caller may be in one after all.
Matches(rule, rec) == rec.in_container \/ ~rule.container_only
CallsFor(rule, rec) == Matches(rule, rec) /\ rule.action \in {"Kill", "Isolate", "Deny"}

\* handle_event_at up to the target check.  Whether the node can look a target up
\* at all is settled when the agent starts; here it may be either for each record.
Handle ==
  /\ pump.pc = "idle" /\ queue # <<>>
  /\ queue' = Tail(queue) /\ signals' = {}
  /\ \E rule \in Rules, scope_unproven, provable \in BOOLEAN :
     LET rec == Head(queue)
         unknown == rec.cg \notin index
         asked == unknown /\ ~rec.in_container /\ container_map_ready
         windows == IF asked THEN WindowFor(rec.cg) ELSE unproven
         doubtful == \/ ~unknown /\ ~rec.in_container
                     \/ asked /\ container_unproven(rec.cg, windows)
         doubt == IF doubtful /\ ~Matches(rule, rec) THEN {"unproven"} ELSE {}
     IN  /\ unproven' = windows
         /\ called' = CallsFor(rule, rec)
         /\ IF ~CallsFor(rule, rec) THEN Count(Zero, doubt) /\ pump' = Idle
            ELSE IF rule.action = "Deny" THEN Count(Zero, {"refused"}) /\ pump' = Idle
            ELSE IF role # "respond" THEN Count(Zero, {"role_skipped"}) /\ pump' = Idle
            ELSE IF RefuseReason(rec, unknown, scope_unproven) \/ rule.action = "Isolate"
            THEN Count(Zero, {"refused"}) /\ pump' = Idle
            ELSE IF ~provable THEN Count(Zero, {"refused", "unprovable"}) /\ pump' = Idle
            ELSE /\ pump' = [pc |-> "check", rec |-> rec, reused |-> FALSE]
                 /\ gained' = Zero
  /\ UNCHANGED <<cmVars, setup, proc, emitted>>

\* Where the process of a record is now.
CgroupOf(rec) == IF rec.tgid = "agent" THEN rec.cg ELSE proc

\* Faulty variant: a process that can be found will do.
CheckAnyTarget ==
  /\ pump.pc = "check"
  /\ IF CgroupOf(pump.rec) # "gone"
     THEN Count(gained, {"confirmed"}) /\ pump' = [pump EXCEPT !.pc = "kill"]
     ELSE Count(gained, {"refused", "stale"}) /\ pump' = Idle
  /\ UNCHANGED <<cmVars, setup, proc, emitted, queue, unproven, called, signals>>

\* ProcCgroupCheck: the process must be in the cgroup that raised the record.
CheckTarget ==
  /\ pump.pc = "check"
  /\ IF CgroupOf(pump.rec) = pump.rec.cg
     THEN Count(gained, {"confirmed"}) /\ pump' = [pump EXCEPT !.pc = "kill"]
     ELSE Count(gained, {"refused", "stale"}) /\ pump' = Idle
  /\ UNCHANGED <<cmVars, setup, proc, emitted, queue, unproven, called, signals>>

\* Faulty variant: a signal that failed is not counted.
FailedUncounted(ok) == IF ok THEN {"kill"} ELSE {}

\* The counter of a signal.
Outcome(ok) == IF ok THEN {"kill"} ELSE {"failed"}

\* SignalResponder::kill; it fails on a process that is gone, and may be refused.
Signal ==
  /\ pump.pc = "kill"
  /\ responder
  /\ \E ok \in BOOLEAN :
       /\ ok => CgroupOf(pump.rec) # "gone"
       /\ Count(gained, Outcome(ok))
       /\ signals' = IF ~ok THEN {}
                     ELSE {[rec |-> pump.rec, hit |-> CgroupOf(pump.rec),
                             reused |-> pump.reused]}
       /\ proc' = IF ok /\ pump.rec.tgid = "target" THEN "gone" ELSE proc
  /\ pump' = Idle
  /\ UNCHANGED <<cmVars, setup, emitted, queue, unproven, called>>

PumpStep == Handle \/ CheckTarget \/ Signal

Next ==
  \/ /\ NodeStep
     /\ proc # "gone" => dir'[proc] # "none"  \* a cgroup is removed when it is empty
     /\ UNCHANGED <<setup, proc, emitted, queue, pump, agentVars, signals>>
  \/ PidMoves \/ ProcessEmits \/ AgentEmits
  \/ PumpStep

Spec == Init /\ [][Next]_vars

-----------------------------------------------------------------------------

(* A signal goes to a process that sat in the cgroup of the record when it *)
(* was looked up, was flagged as a container's, and is not the agent: a    *)
(* pid used again while its record waited is never signalled, and one used *)
(* again after the look-up is the only way to hit another (respond.rs,     *)
(* react).                                                                 *)
SignalHitsItsTarget ==
  \A s \in signals : /\ s.hit = s.rec.cg \/ s.reused
                     /\ s.rec.in_container
                     /\ s.rec.tgid # "agent"

(* Every record that called for a reaction is in exactly one of the four   *)
(* counters of the outcome, whichever guard, look-up or signal ended it,   *)
(* and each look-up in exactly one of its own (react).                     *)
EveryReactionCounted ==
  pump.pc = "idle" =>
    /\ gained.kill + gained.refused + gained.role_skipped + gained.failed
         = IF called THEN 1 ELSE 0
    /\ gained.kill + gained.failed = gained.confirmed
    /\ gained.stale + gained.unprovable <= gained.refused

(* A pod that could already be resolved one whole refresh before the agent *)
(* first saw its id unflagged is never held to be the host's, whatever the *)
(* id was before and however long ago that was proven (container_unproven, *)
(* UNPROVEN_PROOF_TTL).                                                    *)
SettledPodIsNoHost ==
  \A c \in DOMAIN unproven \ index :
    /\ container_map_ready /\ ProvenAfter(unproven[c].opened)
    /\ now - unproven[c].opened < ProofTtl
    => ~(c \in Resolvable(dir, known) /\ since[c] + ScanMax <= unproven[c].opened)

-----------------------------------------------------------------------------
(* What the comments say, and the code does not do.                        *)

(* The claim of container_unproven: a scan that resolved after the         *)
(* question was first asked had every container running then in it.        *)
ProvenIsHost ==
  \A c \in DOMAIN unproven \ index :
    container_map_ready /\ ProvenAfter(unproven[c].opened)
    => ~(c \in Resolvable(dir, known) /\ since[c] <= unproven[c].opened)
=============================================================================
