---------------------------- MODULE ContainerMap ----------------------------
(***************************************************************************)
(* How a record gets its container flag.  The refresher thread of          *)
(* ferrum-agent/src/main.rs scans the cgroup tree, joins it with the pods  *)
(* the watch has seen and publishes the result over a channel of one slot; *)
(* the ring thread carries it into ferrum_cgroups, the map the eBPF        *)
(* programs read.  Agent keeps what the last sync was (lib.rs) and calls   *)
(* the map ready, stale or broken.                                         *)
(*                                                                         *)
(* Durations are small numbers, a time is a number of ticks.               *)
(***************************************************************************)
EXTENDS Integers, Sequences, FiniteSets

CONSTANTS
  Cgroups,      \* cgroup ids; the kernel gives them out again
  AgentCgroup,  \* the one of the agent's own pod
  SyncBudget,   \* CONTAINER_MAP_SYNC_BUDGET
  ScanMax,      \* bound: ticks one refresh may take
  MaxTime,      \* bound: ticks of a behaviour
  MaxChanges    \* bound: changes to the tree, to the pods seen and to processes

ASSUME ContainerMapAssumption ==
  /\ AgentCgroup \in Cgroups
  /\ SyncBudget \in Nat \ {0} /\ ScanMax \in Nat /\ MaxTime \in Nat /\ MaxChanges \in Nat

VARIABLES
  now, changes,
  dir,       \* cgroup tree: what each id is, "none", "host" or "pod"
  known,     \* ids whose pod and container the watch has seen
  since,     \* when an id last became a pod a scan can resolve
  refresher, \* where the thread is: [pc, tree, started, resolved_at]
  index,     \* SharedCgroupIndex: ids with an identity
  chan,      \* the channel, at most one CgroupPublish
  carrier,   \* the ring thread, as far as it carries: "up", "done" or "gone"
  kmap,      \* ferrum_cgroups, and container_cgroups of the handle
  map        \* container_map_*: [synced, entries, error, at]

treeVars == <<dir, known, since>>
mapVars == <<carrier, kmap, map>>
cmVars == <<now, changes, treeVars, refresher, index, chan, mapVars>>

Never == -1
PUBLISHER_GONE == "CGROUP_PUBLISHER_GONE"
Resolvable(d, k) == {c \in Cgroups : d[c] = "pod" /\ c \in k}

\* The agent runs in a pod; the watch hears of a pod before its cgroup exists.
CMInit ==
  /\ now = 0 /\ changes = 0
  /\ dir = [c \in Cgroups |-> IF c = AgentCgroup THEN "pod" ELSE "none"]
  /\ known = Cgroups /\ since = [c \in Cgroups |-> 0]
  /\ refresher = [pc |-> "scan", tree |-> {}, started |-> 0, resolved_at |-> Never]
  /\ index = {} /\ chan = <<>> /\ carrier = "up" /\ kmap = {}
  /\ map = [synced |-> FALSE, entries |-> 0, error |-> "", at |-> Never]

-----------------------------------------------------------------------------
(* The node.                                                               *)

\* A refresh takes at most ScanMax ticks.
Tick ==
  /\ now < MaxTime
  /\ refresher.pc = "join" => now - refresher.started < ScanMax
  /\ now' = now + 1
  /\ UNCHANGED <<changes, treeVars, refresher, index, chan, mapVars>>

Change == changes < MaxChanges /\ changes' = changes + 1

SetTree(d, k) ==
  /\ Change
  /\ dir' = d /\ known' = k
  /\ since' = [c \in Cgroups |->
       IF c \notin Resolvable(d, k) THEN 0
       ELSE IF c \in Resolvable(dir, known) THEN since[c] ELSE now]
  /\ UNCHANGED <<now, refresher, index, chan, mapVars>>

MakeDir(c, kind) == dir[c] = "none" /\ SetTree([dir EXCEPT ![c] = kind], known)
RemoveDir(c) == dir[c] # "none" /\ SetTree([dir EXCEPT ![c] = "none"], known)
PodSeen(c) == c \notin known /\ SetTree(dir, known \cup {c})
PodForgotten(c) == c \in known /\ dir[c] # "pod" /\ SetTree(dir, known \ {c})

-----------------------------------------------------------------------------
(* spawn_cgroup_refresh.                                                   *)

\* CgroupResolver::refresh reads the tree ...
ScanTree ==
  /\ refresher.pc = "scan"
  /\ refresher' = [refresher EXCEPT !.pc = "join", !.started = now,
                                    !.tree = {c \in Cgroups : dir[c] = "pod"}]
  /\ UNCHANGED <<now, changes, treeVars, index, chan, mapVars>>

\* ... and joins it with the pods of the moment; the stamp is taken when it returns.
Join ==
  /\ refresher.pc = "join"
  /\ index' = refresher.tree \cap known
  /\ refresher' = [refresher EXCEPT !.pc = "publish", !.resolved_at = now, !.tree = {},
                                    !.started = 0]
  /\ UNCHANGED <<now, changes, treeVars, chan, mapVars>>

\* A refresh that fails keeps index and stamp, and publishes them if there are any.
RefreshFails ==
  /\ refresher.pc = "join"
  /\ refresher' = [refresher EXCEPT !.tree = {}, !.started = 0,
       !.pc = IF refresher.resolved_at = Never THEN "scan" ELSE "publish"]
  /\ UNCHANGED <<now, changes, treeVars, index, chan, mapVars>>

\* publish_cgroups: a full channel drops the update, a dead carrier ends the thread.
Publish ==
  /\ refresher.pc = "publish"
  /\ refresher' = [refresher EXCEPT !.pc = IF carrier = "gone" THEN "gone" ELSE "scan"]
  /\ chan' = IF carrier = "gone" \/ chan # <<>> THEN chan
             ELSE <<[cgroups |-> index, at |-> refresher.resolved_at]>>
  /\ UNCHANGED <<now, changes, treeVars, index, mapVars>>

RefresherPanics ==
  /\ refresher.pc # "gone"
  /\ refresher' = [refresher EXCEPT !.pc = "gone", !.tree = {}, !.started = 0]
  /\ UNCHANGED <<now, changes, treeVars, index, chan, mapVars>>

RefreshStep == ScanTree \/ Join \/ RefreshFails \/ Publish

-----------------------------------------------------------------------------
(* The ring thread: drain_cgroup_updates and the closure it applies.       *)

\* Faulty variant: the map counts as synced from the moment the update arrived.
SyncedOnArrival(update) ==
  [synced |-> TRUE, entries |-> Cardinality(update.cgroups), error |-> "", at |-> now]

\* set_container_map_synced_at.
Synced(update) ==
  [synced |-> TRUE, entries |-> Cardinality(update.cgroups), error |-> "", at |-> update.at]

\* mark_container_map_error: the old entries and stamp stay.
Broken(error) == [map EXCEPT !.synced = FALSE, !.error = error]

CarryUpdate ==
  /\ carrier = "up" /\ chan # <<>>
  /\ kmap' = chan[1].cgroups /\ map' = Synced(chan[1])
  /\ chan' = <<>>
  /\ UNCHANGED <<now, changes, treeVars, refresher, index, carrier>>

\* sync_container_cgroups removes before it inserts and stops at the first error;
\* a plan past CGROUPS_MAX_ENTRIES writes nothing.
CarryFails ==
  /\ carrier = "up" /\ chan # <<>>
  /\ LET next == chan[1].cgroups
     IN  kmap' \in {kmap \ r : r \in SUBSET (kmap \ next)}
                     \cup {(kmap \cap next) \cup i : i \in SUBSET (next \ kmap)}
  /\ map' = Broken("sync")
  /\ chan' = <<>>
  /\ UNCHANGED <<now, changes, treeVars, refresher, index, carrier>>

PublisherGone ==
  /\ carrier = "up" /\ chan = <<>> /\ refresher.pc = "gone"
  /\ carrier' = "done" /\ map' = Broken(PUBLISHER_GONE)
  /\ UNCHANGED <<now, changes, treeVars, refresher, index, chan, kmap>>

CarrierPanics ==
  /\ carrier # "gone" /\ carrier' = "gone" /\ chan' = <<>>
  /\ UNCHANGED <<now, changes, treeVars, refresher, index, kmap, map>>

CarryStep == CarryUpdate \/ CarryFails \/ PublisherGone

-----------------------------------------------------------------------------
(* What the agent believes of the map.                                     *)

\* within: an instant of this window.
Within(at, window) == at # Never /\ now - at < window

container_map_stale == map.synced /\ ~Within(map.at, SyncBudget)

container_map_ready ==
  map.synced /\ map.entries > 0 /\ map.error = "" /\ ~container_map_stale

NodeStep ==
  \/ Tick
  \/ \E c \in Cgroups \ {AgentCgroup} :
                        \/ \E kind \in {"host", "pod"} : MakeDir(c, kind)
                        \/ RemoveDir(c) \/ PodSeen(c) \/ PodForgotten(c)
  \/ RefresherPanics \/ CarrierPanics
  \/ RefreshStep \/ CarryStep

-----------------------------------------------------------------------------
(* A pod the index has never had to wait for longer than the budget and    *)
(* one refresh is flagged in the kernel, or the agent calls its map not    *)
(* ready and the node Degraded: a stalled scan, a dropped update, a failed *)
(* write, a dead thread on either side may not hide a container for good   *)
(* (lib.rs container_map_stale_at, main.rs spawn_cgroup_refresh).          *)
MissingPodIsVisible ==
  container_map_ready =>
    \A c \in Resolvable(dir, known) \ kmap : now < since[c] + SyncBudget + ScanMax
=============================================================================
