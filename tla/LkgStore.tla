------------------------------ MODULE LkgStore ------------------------------
(***************************************************************************)
(* How the agent takes policy from the Secret mount and keeps it as        *)
(* last-known-good: the startup sequence of ferrum-agent/src/main.rs, one  *)
(* tick of poll_once, apply_path, install_verified and persist_fsig of     *)
(* ferrum-agent/src/lib.rs, the loader of ferrum-ebpf/src/loader.rs.       *)
(*                                                                         *)
(* The kubelet rotates the mount at any time: it swaps ..data to a new     *)
(* snapshot and deletes the old one, so a reader that has resolved ..data  *)
(* reads the old files or finds them gone.  The process may die between    *)
(* any two file operations; what it wrote stays, since only the process    *)
(* dies (a power loss that loses unsynced pages is not modelled).          *)
(*                                                                         *)
(* Abstractions: a bundle is its digest.  Whole bundles pass signature,    *)
(* digest, ABI and rule checks; a bundle with dead rules (ones no record   *)
(* can match) is refused from the mount but restored without them; any     *)
(* other is refused everywhere.  A stamp (mtime and length of both files)  *)
(* is the number of the rotation: two snapshots never share one.  The      *)
(* mount is a directory, and a trust root is configured.                   *)
(***************************************************************************)
EXTENDS Integers

CONSTANTS
    Whole,         \* bundles that install whole
    DeadRules,     \* bundles an older agent accepted, with rules now refused
    Refused,       \* bundles that fail verification or parsing
    None,          \* no bundle, no stamp
    MaxRotations,  \* bound: rotations of the mount
    MaxFaults,     \* bound: failing file operations
    MaxCrashes     \* bound: deaths of the process

Bundles == Whole \cup DeadRules \cup Refused

\* Names of snapshot directories: the one in use, one being written, and one
\* left behind by each crash or fault.  0 is none.
SnapIds == 1 .. 2 + MaxFaults + MaxCrashes

ASSUME BundleAssumption ==
    /\ Whole \cap DeadRules = {}
    /\ Whole \cap Refused = {}
    /\ DeadRules \cap Refused = {}
    /\ None \notin Bundles

ASSUME BoundAssumption == MaxRotations \in Nat /\ MaxFaults \in Nat /\ MaxCrashes \in Nat

VARIABLES
    mount,      \* what the kubelet serves: a bundle, "absent" or "unreadable"
    rotation,   \* how often it changed
    mem,        \* loader.last_good
    health,     \* loader.degraded
    coverage,   \* lkg_partial: the policy in force is a subset of the signed one
    statOk,     \* bundle_unreadable
    stamp,      \* PollStamps.bundle
    data,       \* the snapshot ..data of the LKG directory points at
    fsig,       \* bundle.fsig of each snapshot directory
    hash,       \* digest file of each snapshot directory
    pc,         \* where the agent is
    phase,      \* "startup" or "poll"
    resolved,   \* the mount snapshot that a read has resolved: rotation and bundle
    cand,       \* the bundle being applied
    snap,       \* the snapshot directory being written
    faults, crashes,
    faultAt,    \* history: the rotation that the last fault hit
    reported,   \* history: the last bundle in force at rest with nothing degraded
    since       \* history: the bundles installed from the mount after that

mountVars == <<mount, rotation>>
agentVars == <<mem, health, coverage, statOk, stamp>>
diskVars == <<data, fsig, hash>>
localVars == <<resolved, cand, snap>>
faultVars == <<faults, faultAt>>
histVars == <<reported, since>>
vars == <<mountVars, agentVars, diskVars, pc, phase, localVars, faultVars, crashes, histVars>>

----------------------------------------------------------------------------
\* A snapshot directory that exists holds at least an empty file; None: no file.
Exists(s) == fsig[s] # None \/ hash[s] # None

\* A directory name that is not taken; the code's names never repeat.
Fresh(s) ==
    /\ ~Exists(s)
    /\ s # data
    /\ \A t \in SnapIds : t < s => Exists(t) \/ t = data

\* lkg_digest_on_disk: the digest file behind ..data.
DigestOnDisk == IF data = 0 THEN None ELSE hash[data]

\* load_source on a snapshot: the signature and the digest file must agree.
Readable(s) == fsig[s] # None /\ fsig[s] = hash[s]

Init ==
    /\ mount \in Bundles \cup {"absent", "unreadable"}
    /\ rotation = 0
    /\ mem = None
    /\ health = "degraded"
    /\ coverage = "whole"
    /\ statOk = "ok"
    /\ stamp = None
    \* The directory is empty, or an earlier version of the agent left a snapshot.
    /\ data \in {0, 1}
    /\ \E b \in Bundles :
          fsig = [s \in SnapIds |-> IF s = data THEN b ELSE None]
    /\ hash = fsig
    /\ pc = "down"
    /\ phase = "startup"
    /\ resolved = <<None, None>>
    /\ cand = None
    /\ snap = 0
    /\ faults = 0
    /\ faultAt = None
    /\ crashes = 0
    /\ reported = None
    /\ since = {}

----------------------------------------------------------------------------
(* The kubelet swaps ..data of the mount to another snapshot, or the mount  *)
(* goes away or stops answering.                                            *)
Rotate(m) ==
    /\ rotation < MaxRotations
    /\ m \in Bundles \cup {"absent", "unreadable"}
    /\ mount' = m
    /\ rotation' = rotation + 1
    /\ UNCHANGED <<agentVars, diskVars, pc, phase, localVars, faultVars, crashes, histVars>>

(* The process dies; memory goes, the disk stays. *)
Crash ==
    /\ pc # "down"
    /\ crashes < MaxCrashes
    /\ crashes' = crashes + 1
    /\ pc' = "down"
    /\ phase' = "startup"
    /\ mem' = None
    /\ health' = "degraded"
    /\ coverage' = "whole"
    /\ statOk' = "ok"
    /\ stamp' = None
    /\ resolved' = <<None, None>>
    /\ cand' = None
    /\ snap' = 0
    /\ UNCHANGED <<mountVars, diskVars, faultVars, histVars>>

----------------------------------------------------------------------------
(* Startup: Agent::new restores last-known-good from the disk (and main     *)
(* does it again, to the same effect), then applies the mount.              *)

\* restore_last_known_good with DeadRules::Drop: installs, never persists.
Restore ==
    /\ pc = "down"
    /\ IF data # 0 /\ Readable(data) /\ fsig[data] \in Whole \cup DeadRules
       THEN /\ mem' = fsig[data]
            /\ health' = "ok"
            /\ coverage' = IF fsig[data] \in DeadRules THEN "partial" ELSE "whole"
       ELSE UNCHANGED <<mem, health, coverage>>
    /\ pc' = "resolve"
    /\ UNCHANGED <<mountVars, statOk, stamp, diskVars, phase, localVars,
                   faultVars, crashes, histVars>>

\* A file operation fails.
Fault ==
    /\ faults < MaxFaults
    /\ faults' = faults + 1
    /\ faultAt' = rotation

\* The end of apply_path, with the loader health it leaves.  At startup an error
\* without any policy in force is exit(2).
Finish(err) ==
    /\ IF err /\ phase = "startup" /\ mem' = None
       THEN pc' = "down" /\ phase' = "startup"
       ELSE pc' = "idle" /\ phase' = "poll"
    /\ resolved' = <<None, None>>
    /\ cand' = None
    /\ snap' = 0

----------------------------------------------------------------------------
(* One tick of poll_once: the stamp is taken, and stored, before the read.  *)

PollPresent ==
    /\ pc = "idle"
    /\ mount \in Bundles
    /\ stamp # rotation
    /\ stamp' = rotation
    /\ statOk' = "ok"
    /\ pc' = "resolve"
    /\ UNCHANGED <<mountVars, mem, health, coverage, diskVars, phase, localVars,
                   faultVars, crashes, histVars>>

\* note_bundle_stat: ENOENT is an answer, a stat that refused is not.
StatAnswer == IF mount = "unreadable" THEN "failed" ELSE "ok"

\* Nothing new to apply: the tick only records the answer of the stat.
PollStat ==
    /\ pc = "idle"
    /\ mount \in Bundles => stamp = rotation
    /\ statOk' = StatAnswer
    /\ UNCHANGED <<mountVars, mem, health, coverage, stamp, diskVars, pc, phase, localVars,
                   faultVars, crashes, histVars>>

----------------------------------------------------------------------------
(* apply_path: read_dir_snapshot resolves ..data once, then reads.          *)

Resolve ==
    /\ pc = "resolve"
    /\ resolved' = <<rotation, mount>>
    /\ pc' = "read"
    /\ UNCHANGED <<mountVars, agentVars, diskVars, phase, cand, snap, faultVars, crashes, histVars>>

\* Faulty variant: the stamp is taken again after the read.
ReadBundleRestamps ==
    /\ pc = "read"
    /\ resolved[2] \in Bundles
    /\ cand' = resolved[2]
    /\ stamp' = IF phase = "poll" THEN rotation ELSE stamp
    /\ pc' = "install"
    /\ UNCHANGED <<mountVars, mem, health, coverage, statOk, diskVars, phase, resolved, snap,
                   faultVars, crashes, histVars>>

\* The resolved snapshot is there, or not yet deleted.
ReadBundle ==
    /\ pc = "read"
    /\ resolved[2] \in Bundles
    /\ cand' = resolved[2]
    /\ pc' = "install"
    /\ UNCHANGED <<mountVars, agentVars, diskVars, phase, resolved, snap, faultVars, crashes,
                   histVars>>

\* An error of apply_path before anything was installed.
ApplyFails ==
    /\ health' = "degraded"
    /\ UNCHANGED <<mem, coverage, statOk, stamp>>
    /\ Finish(TRUE)
    /\ UNCHANGED <<mountVars, diskVars, crashes, histVars>>

ReadMissing ==
    /\ pc = "read"
    /\ resolved[2] \notin Bundles
    /\ ApplyFails
    /\ UNCHANGED faultVars

\* The resolved snapshot was deleted by a rotation.
ReadRotatedAway ==
    /\ pc = "read"
    /\ resolved[1] # rotation
    /\ ApplyFails
    /\ UNCHANGED faultVars

ReadFault ==
    /\ pc = "read"
    /\ Fault
    /\ ApplyFails

\* install_verified with DeadRules::Reject: a refusal keeps the bundle in force.
InstallRefused ==
    /\ pc = "install"
    /\ cand \notin Whole
    /\ ApplyFails
    /\ UNCHANGED faultVars

Install ==
    /\ pc = "install"
    /\ cand \in Whole
    /\ mem' = cand
    /\ health' = "ok"
    /\ coverage' = "whole"
    /\ since' = since \cup {cand}
    /\ pc' = "persist"
    /\ UNCHANGED <<mountVars, statOk, stamp, diskVars, phase, localVars, faultVars, crashes, reported>>

----------------------------------------------------------------------------
(* persist_fsig, one file operation per step. *)

\* At rest, with nothing degraded: what the status surface shows an operator.
Rest ==
    /\ IF health' = "ok" /\ coverage' = "whole"
       THEN reported' = mem' /\ since' = {}
       ELSE UNCHANGED histVars

PersistOk ==
    /\ UNCHANGED agentVars
    /\ Finish(FALSE)
    /\ Rest

\* The digest is on disk already.
PersistSkip ==
    /\ pc = "persist"
    /\ DigestOnDisk = cand
    /\ PersistOk
    /\ UNCHANGED <<mountVars, diskVars, faultVars, crashes>>

\* write_snap creates a new directory and writes bundle.fsig ...
WriteFsig ==
    /\ pc = "persist"
    /\ DigestOnDisk # cand
    /\ \E s \in SnapIds :
          /\ Fresh(s)
          /\ snap' = s
          /\ fsig' = [fsig EXCEPT ![s] = cand]
    /\ pc' = "digest"
    /\ UNCHANGED <<mountVars, agentVars, data, hash, phase, resolved, cand, faultVars, crashes, histVars>>

\* ... and digest.
WriteDigest ==
    /\ pc = "digest"
    /\ hash' = [hash EXCEPT ![snap] = cand]
    /\ pc' = "link"
    /\ UNCHANGED <<mountVars, agentVars, data, fsig, phase, localVars, faultVars, crashes, histVars>>

\* The state in which ..data may be swapped: write_snap has returned.
SnapWritten == pc = "link"

\* atomic_symlink of ..data: a rename.
LinkData ==
    /\ SnapWritten
    /\ data' = snap
    /\ pc' = "links"
    /\ UNCHANGED <<mountVars, agentVars, fsig, hash, phase, localVars, faultVars, crashes, histVars>>

\* remove_stale_snaps: every snapshot directory but the one kept.
StaleSnaps == {s \in SnapIds : Exists(s) /\ s # snap}

\* The two convenience links, then remove_stale_snaps and Ok.
LinksAndCleanup ==
    /\ pc = "links"
    /\ fsig' = [s \in SnapIds |-> IF s \in StaleSnaps THEN None ELSE fsig[s]]
    /\ hash' = [s \in SnapIds |-> IF s \in StaleSnaps THEN None ELSE hash[s]]
    /\ PersistOk
    /\ UNCHANGED <<mountVars, data, faultVars, crashes>>

\* Faulty variant: the error of persist_fsig does not degrade the node.
HealthAfterPersistErrorIgnored == health

\* apply_fsig marks the loader degraded when persist_fsig fails.
HealthAfterPersistError == "degraded"

\* A failing file operation: up to the swap of ..data the half-written snapshot
\* is removed, later it stays.
PersistFails ==
    /\ pc \in {"persist", "digest", "link", "links"}
    /\ Fault
    /\ IF pc \in {"digest", "link"}
       THEN /\ fsig' = [fsig EXCEPT ![snap] = None]
            /\ hash' = [hash EXCEPT ![snap] = None]
       ELSE UNCHANGED <<fsig, hash>>
    /\ health' = HealthAfterPersistError
    /\ UNCHANGED <<mem, coverage, statOk, stamp, data>>
    /\ Finish(TRUE)
    /\ Rest
    /\ UNCHANGED <<mountVars, crashes>>

----------------------------------------------------------------------------
AgentStep ==
    \/ Restore
    \/ PollPresent
    \/ PollStat
    \/ Resolve
    \/ ReadBundle
    \/ ReadMissing
    \/ InstallRefused
    \/ Install
    \/ PersistSkip
    \/ WriteFsig
    \/ WriteDigest
    \/ LinkData
    \/ LinksAndCleanup

Next ==
    \/ AgentStep
    \/ ReadRotatedAway
    \/ ReadFault
    \/ PersistFails
    \/ \E m \in Bundles \cup {"absent", "unreadable"} : Rotate(m)
    \/ Crash

Spec == Init /\ [][Next]_vars

(* The poller ticks forever and the kubelet restarts a process that died. *)
FairSpec == Spec /\ WF_vars(AgentStep)

----------------------------------------------------------------------------
\* The types of mount, memory and disk; every file write goes to a directory that
\* has a name.
TypeOK ==
    /\ mount \in Bundles \cup {"absent", "unreadable"}
    /\ rotation \in 0 .. MaxRotations
    /\ mem \in Bundles \cup {None}
    /\ health \in {"ok", "degraded"}
    /\ coverage \in {"whole", "partial"}
    /\ statOk \in {"ok", "failed"}
    /\ stamp \in 0 .. MaxRotations \cup {None}
    /\ data \in SnapIds \cup {0}
    /\ fsig \in [SnapIds -> Bundles \cup {None}]
    /\ hash \in [SnapIds -> Bundles \cup {None}]
    /\ pc \in {"down", "resolve", "read", "install", "persist", "digest", "link", "links", "idle"}
    /\ phase \in {"startup", "poll"}
    /\ cand \in Bundles \cup {None}
    /\ snap \in SnapIds \cup {0}
    /\ cand # None <=> pc \in {"install", "persist", "digest", "link", "links"}
    /\ snap # 0 <=> pc \in {"digest", "link", "links"}
    /\ faults \in 0 .. MaxFaults
    /\ crashes \in 0 .. MaxCrashes
    /\ reported \in Bundles \cup {None}
    /\ since \subseteq Bundles

\* Wherever the process dies or a write fails, ..data of the LKG directory names
\* a snapshot that exists, with both files and the digest of its bundle.
SnapshotIsWhole == data # 0 => Readable(data)

\* An agent at rest that reports a healthy loader enforces what a restart would
\* restore: the policy in memory is the policy on disk.
HealthyIsDurable == pc = "idle" /\ health = "ok" => data # 0 /\ fsig[data] = mem

\* A bundle restored without its dead rules is flagged until a whole one
\* installs, also across failed reloads; and no refused bundle is ever in force.
PartialIsFlagged ==
    /\ mem \notin Refused
    /\ mem \in DeadRules <=> coverage = "partial"

\* Once a node has shown a bundle as in force with nothing degraded, a running
\* agent enforces that bundle or one it took from the mount later: no crash,
\* failed write or lost mount brings back an older policy or none.
RestartKeepsPolicy ==
    pc # "down" /\ reported # None => mem \in {reported} \cup since

\* The policy in memory, the one on disk and what is said of them agree,
\* whatever file operation failed and wherever the process died.
StoreIsSafe ==
    /\ TypeOK
    /\ SnapshotIsWhole
    /\ HealthyIsDurable
    /\ PartialIsFlagged
    /\ RestartKeepsPolicy

\* A bundle that stays in the mount is taken, however the rotation that brought
\* it raced the stat and the read, unless a file operation failed under it.
StableBundleIsTaken ==
    <>[](mount \in Whole /\ faultAt # rotation) => <>[](mem = mount /\ health = "ok")

\* A mount that stops answering is said so (DEG_BUNDLE_UNREADABLE), unless the
\* agent has no policy at all and keeps exiting.
UnreadableIsReported ==
    <>[](mount = "unreadable") => <>[](statOk = "failed" \/ phase = "startup")

\* What the mount came to is what the agent enforces or complains about.
MountIsFollowed == StableBundleIsTaken /\ UnreadableIsReported
=============================================================================
