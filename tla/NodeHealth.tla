----------------------------- MODULE NodeHealth -----------------------------
(***************************************************************************)
(* What a node says of itself: the reasons of degraded_reasons_at and the  *)
(* fields of Agent behind them (ferrum-agent/src/lib.rs), the poll of the  *)
(* bundle mount and the status tick, the write of status.json outside the  *)
(* lock (status.rs), and the scrape (metrics.rs).                          *)
(*                                                                         *)
(* A reason is a pair: its id (DEGRADED_REASON_IDS) and what its text adds *)
(* to that.  Most follow one field; the timed ones hold for                *)
(* DEGRADED_RECOVERY after the last time they happened; the first terminal *)
(* fault is kept.  Time is the number of ticks something has left.         *)
(* Nothing but the tests marks the control plane down: it is left out.     *)
(***************************************************************************)
EXTENDS Integers, FiniteSets

CONSTANTS
  Boots,       \* how the agent may be started: records, see Booted
  DECODE_FAILURE_RUN_MAX, DEGRADED_RECOVERY, CONTAINER_MAP_SYNC_BUDGET,
  CONTAINER_FLAG_GRACE, RESPOND_TARGET_UNPROVEN_MIN, RESPOND_SIGNAL_FAILING_MIN,
  MaxMarks,    \* bound: marks of a behaviour
  MaxFaults    \* bound: writes of the status file that fail

ASSUME NodeHealthAssumption ==
  {DECODE_FAILURE_RUN_MAX, DEGRADED_RECOVERY, CONTAINER_MAP_SYNC_BUDGET,
   CONTAINER_FLAG_GRACE, RESPOND_TARGET_UNPROVEN_MIN, RESPOND_SIGNAL_FAILING_MIN}
    \subseteq Nat \ {0}

VARIABLES
  boot,        \* the flags and the host this process was started with
  agent,       \* the fields of Agent the reasons read
  host,        \* the mount, the disk, the export queue: what the polls look at
  reported,    \* degraded_reported: the reasons of the last tick, or Unreported
  tick,        \* the tick in hand: [pc, json, ok]
  surface,     \* what a reader finds: the file, or without one the last object logged
  ctx,         \* the ids stamped on every exported event
  marks, faults

nodeVars == <<boot, agent, host, reported, tick, surface, ctx, marks, faults>>

-----------------------------------------------------------------------------
(* The reasons.                                                            *)

DEG_LOADER == "loader_degraded"
DEG_NOT_ATTACHED == "not_attached"
DEG_DATAPATH == "datapath_unknown_syscall"
DEG_CGROUP_INDEX_EMPTY == "cgroup_index_empty"
DEG_KERNEL_RULES_UNSYNCED == "kernel_rules_unsynced"
DEG_LSM_FALLBACK == "lsm_fallback"
DEG_CONTAINER_MAP == "container_map_not_ready"
DEG_EXPORT_DEAD == "export_dead"
DEG_EXPORT_LOSSY == "export_lossy"
DEG_DECODE_FAILURES == "decode_failures"
DEG_LABELS_UNKNOWN == "labels_unknown"
DEG_RING_DROPS == "ring_drops"
DEG_PATH_TRUNCATED == "path_truncated"
DEG_IDENTITY_UNKNOWN == "identity_unknown"
DEG_LKG_PARTIAL == "lkg_partial"
DEG_CONTAINER_FLAG == "container_flag_disagreement"
DEG_BUNDLE_UNREADABLE == "bundle_unreadable"
DEG_CLOCK_ROLLBACK == "clock_rollback"
DEG_CLOCK_FLOOR_UNPERSISTED == "clock_floor_unpersisted"
DEG_STATUS_UNWRITABLE == "status_unwritable"
DEG_WAIVERS_DROPPED == "waivers_dropped"
WAIVERS_UNJOINED == "waivers_unjoined"
RESPOND_NO_HOST_PIDNS == "respond_no_host_pidns"
SELF_TGID_UNPUBLISHED == "self_tgid_unpublished"
TARGET_CHECK_UNPROVABLE == "target_check_unprovable"
TARGET_NEVER_PROVEN == "target_never_proven"
RESPOND_SIGNAL_FAILING == "respond_signal_failing"
CGROUP_ROOT_UNDERIVABLE == "cgroup_root_underivable"
DATAPATH_UNDECODABLE == "datapath_undecodable"
DATAPATH_ABI_MISMATCH == "datapath_abi_mismatch"
RECORD_CHANNEL_GONE == "record_channel_gone"
UNMAPPED_REASON_ID == "unmapped"

\* The fields that are reasons as they stand.
Plain == {DEG_LOADER, DEG_DATAPATH, DEG_CLOCK_ROLLBACK, DEG_CLOCK_FLOOR_UNPERSISTED,
          DEG_BUNDLE_UNREADABLE, DEG_CGROUP_INDEX_EMPTY, DEG_KERNEL_RULES_UNSYNCED,
          DEG_EXPORT_DEAD, DEG_LKG_PARTIAL, DEG_STATUS_UNWRITABLE, RESPOND_NO_HOST_PIDNS,
          DEG_WAIVERS_DROPPED}
\* The ones that happen.
Timed == {DEG_EXPORT_LOSSY, DEG_DECODE_FAILURES, DEG_LABELS_UNKNOWN, DEG_RING_DROPS,
          DEG_PATH_TRUNCATED, DEG_IDENTITY_UNKNOWN, DEG_CONTAINER_FLAG}

DEGRADED_REASON_IDS ==
  Plain \cup Timed
    \cup {DEG_NOT_ATTACHED, DEG_LSM_FALLBACK, DEG_CONTAINER_MAP, WAIVERS_UNJOINED,
          SELF_TGID_UNPUBLISHED, TARGET_CHECK_UNPROVABLE, TARGET_NEVER_PROVEN,
          RESPOND_SIGNAL_FAILING, CGROUP_ROOT_UNDERIVABLE, DATAPATH_UNDECODABLE,
          DATAPATH_ABI_MISMATCH, RECORD_CHANNEL_GONE}

\* A reason is matched by the longest text it starts with; what follows is its detail.
degraded_reason_id(reason) ==
  IF reason[1] \in DEGRADED_REASON_IDS THEN reason[1] ELSE UNMAPPED_REASON_ID

\* A waiver names this agent's policy and a rule and is live, or falls short in one way.
WaiverKinds == {"live", "other_policy", "expired", "unmatchable"}

waiver_can_apply(w) == boot.policy_name /\ w = "live"
waivers_inert(a) == {w \in a.exceptions : ~waiver_can_apply(w)}
\* No policy is called "": with no name every waiver is of another policy.
waivers_unjoined_total(a) ==
  Cardinality({w \in a.exceptions : w = "other_policy" \/ ~boot.policy_name})

\* The text counts the waivers of each sort, or says that no name was given.
waivers_unjoined(a) ==
  IF waivers_inert(a) = {} THEN {}
  ELSE {<<WAIVERS_UNJOINED, IF boot.policy_name THEN waivers_inert(a) ELSE {"unnamed"}>>}

container_map_ready(a) == a.map = "synced" /\ a.map_left > 0

If(condition, reason) == IF condition THEN {<<reason, {}>>} ELSE {}

\* The reasons that only stand under respond: a node that was not told to react is not
\* degraded because it could not.
respond_reasons(a) ==
  IF a.role # "respond" THEN {}
  ELSE If(a.self_tgid_unpublished, SELF_TGID_UNPUBLISHED)
         \cup (IF boot.unprovable THEN If(TRUE, TARGET_CHECK_UNPROVABLE)
               ELSE If(a.confirmed = 0 /\ a.stale >= RESPOND_TARGET_UNPROVEN_MIN,
                       TARGET_NEVER_PROVEN))
         \cup If(a.kill = 0 /\ a.failed >= RESPOND_SIGNAL_FAILING_MIN, RESPOND_SIGNAL_FAILING)

\* degraded_reasons_at.
degraded_reasons(a) ==
  {<<r, {}>> : r \in a.raised} \cup {<<r, {}>> : r \in {t \in Timed : a.left[t] > 0}}
    \cup If(~a.attached, DEG_NOT_ATTACHED)
    \cup If(a.attached /\ a.lsm_fallback, DEG_LSM_FALLBACK)
    \cup (IF container_map_ready(a) THEN {}
          ELSE {<<DEG_CONTAINER_MAP, IF a.map = "error" THEN {"error"} ELSE {}>>})
    \cup (IF a.terminal_fault = "" THEN {} ELSE If(TRUE, a.terminal_fault))
    \cup waivers_unjoined(a) \cup respond_reasons(a)

\* status_json of the agent: the reasons, and the state and totals behind them.
node_status_json(a) ==
  [reasons |-> degraded_reasons(a), role |-> a.role, attached |-> a.attached,
   terminal |-> a.terminal_fault, map |-> a.map, run |-> a.decode_failed_run,
   held |-> Cardinality(a.exceptions), inert |-> Cardinality(waivers_inert(a)),
   unjoined |-> waivers_unjoined_total(a), kill |-> a.kill, failed |-> a.failed,
   stale |-> a.stale, write_failed |-> DEG_STATUS_UNWRITABLE \in a.raised]

\* exposition: one series for every id, from the same object.
exposition(a) == {degraded_reason_id(r) : r \in degraded_reasons(a)}

-----------------------------------------------------------------------------
(* Agent::new, and main as far as the status loop.                         *)

NoJson == [none |-> TRUE]
Unreported == {<<"unreported", {}>>}
NoTick == [pc |-> "asleep", json |-> NoJson, ok |-> TRUE]
Closed == [age |-> -1, synced |-> FALSE]

\* The bundle of the mount is enforced, or with the loader degraded the last-known-good,
\* the rules of it this build still takes, or without a path nothing.
\* A respond agent outside the host's pid namespace is made an observer and says so.  A
\* failed attach is an error of the container map, and the agent parks on its status.
Booted(b) ==
  [role |-> IF b.role = "respond" /\ b.host_pidns THEN "respond" ELSE "observe",
   raised |-> {DEG_CGROUP_INDEX_EMPTY}
                \cup (IF b.role = "respond" /\ ~b.host_pidns THEN {RESPOND_NO_HOST_PIDNS} ELSE {})
                \cup (IF b.bundle = "good" THEN {} ELSE {DEG_LOADER})
                \cup (IF b.bundle = "lkg_partial" THEN {DEG_LKG_PARTIAL} ELSE {})
                \cup (IF b.exceptions = "bad" THEN {DEG_WAIVERS_DROPPED} ELSE {}),
   exceptions |-> {b.exceptions} \cap WaiverKinds,
   attached |-> b.attach # "failed", lsm_fallback |-> b.attach = "fallback",
   self_tgid_unpublished |-> b.attach # "failed" /\ ~b.host_pidns,
   map |-> IF b.attach = "failed" THEN "error" ELSE "never", map_left |-> 0,
   left |-> [r \in Timed |-> 0], flag_window |-> Closed,
   terminal_fault |-> IF b.cgroup2 THEN "" ELSE CGROUP_ROOT_UNDERIVABLE,
   decode_failed_run |-> 0, kill |-> 0, failed |-> 0, confirmed |-> 0, stale |-> 0]

\* What the poll will find: a mount that does not stat, a bundle or a list that is new to
\* it, a disk that takes no write, a wall clock behind the floor, a dead export writer,
\* losses it has not seen.
CalmHost == [stat |-> TRUE, bundle |-> "seen", list |-> "seen", disk |-> TRUE,
             clock_back |-> FALSE, export_dead |-> FALSE, export_lost |-> FALSE]

NodeInit ==
  /\ boot \in Boots /\ agent = Booted(boot) /\ host = CalmHost
  /\ reported = Unreported /\ tick = NoTick /\ surface = NoJson /\ ctx = {}
  /\ marks = 0 /\ faults = 0

-----------------------------------------------------------------------------
(* The marks, made by the ring, the pump and the refresher at any time.    *)

Mark == marks < MaxMarks /\ marks' = marks + 1
statusVars == <<boot, reported, tick, surface, ctx, faults>>

Marks(new) == Mark /\ agent' = new /\ UNCHANGED <<host, statusVars>>
\* What only a node with an attached datapath sees.
RingMarks(new) == agent.attached /\ Marks(new)

Raise(reason) == [agent EXCEPT !.raised = @ \cup {reason}]
Clear(reason) == [agent EXCEPT !.raised = @ \ {reason}]
\* mark_terminal_fault keeps the first.
MarkedTerminal(a, reason) == IF a.terminal_fault = "" THEN reason ELSE a.terminal_fault
\* mark_now: the window starts again each time.
Stamped(a, reason) == [a EXCEPT !.left[reason] = DEGRADED_RECOVERY]

Less(n) == IF n > 0 THEN n - 1 ELSE n
GraceRuns(a) == a.flag_window.age \in 0 .. CONTAINER_FLAG_GRACE - 1

\* Time passes, for every `within' at once.
Elapses ==
  /\ agent.map_left > 0 \/ GraceRuns(agent) \/ \E r \in Timed : agent.left[r] > 0
  /\ agent' = [agent EXCEPT !.left = [r \in Timed |-> Less(@[r])], !.map_left = Less(@),
                            !.flag_window.age = IF GraceRuns(agent) THEN @ + 1 ELSE @]
  /\ UNCHANGED <<host, marks, statusVars>>

\* A waiver's expiry passes.
Expires ==
  /\ "live" \in agent.exceptions
  /\ Marks([agent EXCEPT !.exceptions = (@ \ {"live"}) \cup {"expired"}])

\* The refresher fills the index, where it runs at all.
IndexFills ==
  /\ boot.cgroup2 /\ DEG_CGROUP_INDEX_EMPTY \in agent.raised
  /\ Marks(Clear(DEG_CGROUP_INDEX_EMPTY))

\* set_container_map_synced_at, by the ring thread; `later' when the scan was stamped
\* after the flag of a container first disagreed.
MapSynced(later) ==
  /\ later => agent.flag_window.age >= 0
  /\ RingMarks([agent EXCEPT !.map = "synced", !.map_left = CONTAINER_MAP_SYNC_BUDGET,
                             !.flag_window.synced = @ \/ later])
\* mark_container_map_error: a refused sync, or the publisher gone.
MapFails == agent.map # "error" /\ RingMarks([agent EXCEPT !.map = "error"])

mark_kernel_rules_unsynced ==
  DEG_KERNEL_RULES_UNSYNCED \notin agent.raised /\ RingMarks(Raise(DEG_KERNEL_RULES_UNSYNCED))
mark_kernel_rules_synced ==
  DEG_KERNEL_RULES_UNSYNCED \in agent.raised /\ RingMarks(Clear(DEG_KERNEL_RULES_UNSYNCED))

record_unknown_syscall == DEG_DATAPATH \notin agent.raised /\ RingMarks(Raise(DEG_DATAPATH))
record_labels_unknown == RingMarks(Stamped(agent, DEG_LABELS_UNKNOWN))
record_identity_unknown == RingMarks(Stamped(agent, DEG_IDENTITY_UNKNOWN))
record_path_truncated == RingMarks(Stamped(agent, DEG_PATH_TRUNCATED))
record_drop == RingMarks(Stamped(agent, DEG_RING_DROPS))

\* note_container_flag_disagreement, for one cgroup: the first opens a window, and one
\* after the grace and after a scan that should have published it is a fault.
FlagDisagrees ==
  /\ agent.attached
  /\ \/ /\ agent.flag_window = Closed
        /\ agent' = [agent EXCEPT !.flag_window = [age |-> 0, synced |-> FALSE]]
        /\ UNCHANGED marks
     \/ /\ agent.flag_window.age >= CONTAINER_FLAG_GRACE /\ agent.flag_window.synced
        /\ Mark
        /\ agent' = Stamped([agent EXCEPT !.flag_window = Closed], DEG_CONTAINER_FLAG)
  /\ UNCHANGED <<host, statusVars>>

\* record_decode_failure_at, and record_datapath_abi_mismatch_at for a record that
\* another build stamped: the run is looked at before the stamp is.
DecodeFails(mismatch) ==
  LET run == agent.decode_failed_run + 1
      failed == Stamped([agent EXCEPT !.decode_failed_run = run], DEG_DECODE_FAILURES)
      fault == IF run >= DECODE_FAILURE_RUN_MAX THEN DATAPATH_UNDECODABLE
               ELSE DATAPATH_ABI_MISMATCH
  IN  RingMarks(IF run >= DECODE_FAILURE_RUN_MAX \/ mismatch
                THEN [failed EXCEPT !.terminal_fault = MarkedTerminal(agent, fault)] ELSE failed)

\* record_decode_success.
Decodes ==
  /\ agent.decode_failed_run # 0 /\ agent' = [agent EXCEPT !.decode_failed_run = 0]
  /\ UNCHANGED <<host, marks, statusVars>>

\* publish_record on a channel nobody reads.
ChannelGone ==
  RingMarks([agent EXCEPT !.terminal_fault = MarkedTerminal(agent, RECORD_CHANNEL_GONE)])

\* react, past the refusals: the target is checked, then signalled.
React(outcome) ==
  /\ agent.role = "respond" /\ ~boot.unprovable
  /\ RingMarks(CASE outcome = "stale"  -> [agent EXCEPT !.stale = @ + 1]
                 [] outcome = "killed" -> [agent EXCEPT !.confirmed = @ + 1, !.kill = @ + 1]
                 [] outcome = "failed" -> [agent EXCEPT !.confirmed = @ + 1, !.failed = @ + 1])

\* What changes on the host between two polls.
HostChanges ==
  /\ Mark /\ UNCHANGED <<agent, statusVars>>
  /\ \/ host' = [host EXCEPT !.stat = ~@] \/ host' = [host EXCEPT !.disk = ~@]
     \/ \E b \in {"good", "refused", "unsaved"} : host' = [host EXCEPT !.bundle = b]
     \/ \E l \in {"live", "other_policy", "bad", "absent"} : host' = [host EXCEPT !.list = l]
     \/ host' = [host EXCEPT !.clock_back = TRUE]
     \/ host' = [host EXCEPT !.export_dead = TRUE] \/ host' = [host EXCEPT !.export_lost = TRUE]

MarkStep ==
  \/ Elapses \/ Expires \/ IndexFills \/ MapFails \/ HostChanges
  \/ mark_kernel_rules_unsynced \/ mark_kernel_rules_synced \/ record_unknown_syscall
  \/ record_labels_unknown \/ record_identity_unknown \/ record_path_truncated \/ record_drop
  \/ FlagDisagrees \/ Decodes \/ ChannelGone
  \/ \E flag \in BOOLEAN : MapSynced(flag) \/ DecodeFails(flag)
  \/ \E outcome \in {"stale", "killed", "failed"} : React(outcome)

-----------------------------------------------------------------------------
(* The status thread: poll_bundle_shared and poll_once, or poll_status for *)
(* an agent with no bundle path.                                           *)

With(a, reason, holds) ==
  [a EXCEPT !.raised = IF holds THEN @ \cup {reason} ELSE @ \ {reason}]

\* apply_path of a bundle with another stamp.  A bundle that verifies clears lkg_partial
\* even where it cannot be saved; one refused, or not saved, degrades the loader.
PolledBundle(a) ==
  LET noted == With(a, DEG_BUNDLE_UNREADABLE, ~host.stat)
  IN  IF ~host.stat \/ host.bundle = "seen" THEN noted
      ELSE With(IF host.bundle = "refused" THEN noted ELSE With(noted, DEG_LKG_PARTIAL, FALSE),
                DEG_LOADER, host.bundle # "good")

\* reload_exceptions_path of a list with another stamp, which is not the bundle's: one
\* that cannot be read drops the waivers, and so does one that is gone, without a word.
PolledList(a) ==
  IF host.list = "seen" THEN a
  ELSE With([a EXCEPT !.exceptions = {host.list} \cap WaiverKinds],
            DEG_WAIVERS_DROPPED, host.list = "bad")

\* poll_once before its tick: the bundle, the list, then the clock floor.
Polled(a) ==
  IF ~boot.with_path THEN a
  ELSE With(PolledList(PolledBundle(a)), DEG_CLOCK_FLOOR_UNPERSISTED, ~host.disk)

\* note_export_state_at.
NotedExport(a) ==
  LET dead == IF host.export_dead THEN [a EXCEPT !.raised = @ \cup {DEG_EXPORT_DEAD}] ELSE a
  IN  IF host.export_lost THEN Stamped(dead, DEG_EXPORT_LOSSY) ELSE dead

\* now_from.
ReadClock(a) == IF host.clock_back THEN [a EXCEPT !.raised = @ \cup {DEG_CLOCK_ROLLBACK}] ELSE a

\* update_event_context: stable ids, not sentences, go on every event from here on.
update_event_context(reasons) == {degraded_reason_id(r) : r \in reasons}

\* StatusPublisher::tick, under the agent's lock.  The object is rendered on every tick
\* for the file, on a change for the log.  The clock is read for the waivers held and for
\* the object's own time, after the flag it may raise was looked at.
StatusTick ==
  LET a == NotedExport(Polled(agent))
      reasons == degraded_reasons(a)
      render == boot.with_dir \/ reported # reasons
  IN  /\ tick.pc = "asleep"
      /\ agent' = (IF render \/ a.exceptions # {} THEN ReadClock(a) ELSE a)
      /\ reported' = reasons /\ ctx' = update_event_context(reasons)
      /\ host' = [host EXCEPT !.export_lost = FALSE,
                    !.bundle = IF boot.with_path /\ host.stat THEN "seen" ELSE @,
                    !.list = IF boot.with_path THEN "seen" ELSE @]
      /\ tick' = [pc |-> "commit", ok |-> TRUE,
                  json |-> IF render THEN node_status_json(a) ELSE NoJson]
      /\ UNCHANGED <<boot, surface, marks, faults>>

\* What write_status, and the removal of the old file after a failure, leave behind.
WriteOutcomes(file, content) ==
  {[ok |-> TRUE, file |-> content]} \cup {[ok |-> FALSE, file |-> f] : f \in {NoJson, file}}

\* commit, outside the lock.
Commit ==
  /\ tick.pc = "commit"
  /\ IF tick.json = NoJson \/ ~boot.with_dir
     THEN /\ surface' = IF tick.json = NoJson THEN surface ELSE tick.json
          /\ tick' = [tick EXCEPT !.pc = "note"] /\ faults' = faults
     ELSE \E o \in WriteOutcomes(surface, tick.json) :
            /\ faults' = faults + (IF o.ok THEN 0 ELSE 1) /\ faults' <= MaxFaults
            /\ surface' = o.file /\ tick' = [tick EXCEPT !.pc = "note", !.ok = o.ok]
  /\ UNCHANGED <<boot, agent, host, reported, ctx, marks>>

\* note_status_write.
Note ==
  /\ tick.pc = "note"
  /\ agent' = With(agent, DEG_STATUS_UNWRITABLE, ~tick.ok) /\ tick' = NoTick
  /\ UNCHANGED <<boot, host, reported, surface, ctx, marks, faults>>

\* Faulty variant: a scrape counts as a report.
ScrapeReports ==
  /\ agent' = ReadClock(agent) /\ reported' = degraded_reasons(agent)
  /\ UNCHANGED <<boot, host, tick, surface, ctx, marks, faults>>

\* spawn_metrics: a snapshot and its exposition, which only reads, but for the clock.
Scrape ==
  /\ agent' = ReadClock(agent)
  /\ UNCHANGED <<boot, host, reported, tick, surface, ctx, marks, faults>>

StatusStep == StatusTick \/ Commit \/ Note

\* Killed and started again: only the file is left.
AgentRestart ==
  /\ Mark /\ boot' \in {b \in Boots : b.with_dir = boot.with_dir}
  /\ agent' = Booted(boot') /\ host' = CalmHost
  /\ reported' = Unreported /\ tick' = NoTick /\ ctx' = {}
  /\ surface' = IF boot.with_dir THEN surface ELSE NoJson
  /\ UNCHANGED faults

NodeNext == MarkStep \/ StatusStep \/ Scrape \/ AgentRestart

-----------------------------------------------------------------------------
(* Once nothing changes, a reader finds what holds and only that: the file *)
(* is the whole status object, the log without one has the reasons, and    *)
(* the events carry their ids; and a mount that does not stat is among     *)
(* them.  Not lost to a failed write, to a scrape taken for a report, to a *)
(* mark between the tick and its commit, or to a restart over the old file *)
(* (poll_once, tick, commit, note_status_write, update_event_context).     *)
NodeStatusSettles ==
  <>[](/\ surface # NoJson /\ surface.reasons = degraded_reasons(agent)
       /\ boot.with_dir => surface = node_status_json(agent)
       /\ ctx = exposition(agent)
       /\ boot.with_path => (~host.stat <=> <<DEG_BUNDLE_UNREADABLE, {}>> \in surface.reasons))
=============================================================================
