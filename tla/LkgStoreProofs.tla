--------------------------- MODULE LkgStoreProofs ---------------------------
(***************************************************************************)
(* Proofs about the policy in memory and the last-known-good on disk, for  *)
(* any bundles and any number of rotations, failing file operations and    *)
(* deaths of the process.                                                  *)
(***************************************************************************)
EXTENDS LkgStore, TLAPS

----------------------------------------------------------------------------
(* The inductive invariant. *)

Applying == {"resolve", "read", "install"}      \* apply_path, before it installs
Persisting == {"persist", "digest", "link", "links"}

\* A process that is not running holds nothing.
DownInv == pc = "down" => mem = None /\ health = "degraded" /\ coverage = "whole"

\* While persist_fsig runs, the bundle it writes is the one in force and was taken
\* from the mount; the directory it writes is not the one ..data names until the
\* swap, and holds both files by then.
PersistInv ==
    /\ pc \in Persisting =>
          mem = cand /\ cand \in Whole \cap since /\ health = "ok" /\ coverage = "whole"
    /\ pc \in {"digest", "link"} => snap # data /\ fsig[snap] = cand
    /\ pc = "link" => hash[snap] = cand
    /\ pc = "links" => data = snap /\ fsig[snap] = cand

\* HealthyIsDurable, also while the next bundle is being read.
DurableInv ==
    pc \in Applying \cup {"idle"} /\ health = "ok" => data # 0 /\ fsig[data] = mem

\* What was reported, or was taken later, is what the disk holds: a restart finds it.
ReportedInv ==
    reported # None =>
        /\ data # 0
        /\ fsig[data] \in (Whole \cup DeadRules) \cap ({reported} \cup since)
        /\ pc # "down" => mem \in {reported} \cup since

IInv ==
    /\ TypeOK
    /\ SnapshotIsWhole
    /\ PartialIsFlagged
    /\ DownInv
    /\ PersistInv
    /\ DurableInv
    /\ ReportedInv

----------------------------------------------------------------------------
(* Lemmas. *)

\* The invariant depends neither on the mount nor on the stamp.
LEMMA MountIsFree ==
    ASSUME IInv, TypeOK', UNCHANGED <<mem, health, coverage, diskVars, cand, snap, histVars>>,
           \/ pc' = pc
           \/ pc \in Applying \cup {"idle"} /\ pc' \in Applying \cup {"idle"}
    PROVE  IInv'
  BY DEF IInv, SnapshotIsWhole, Readable, PartialIsFlagged, DownInv, PersistInv, DurableInv,
     ReportedInv, diskVars, histVars, Applying, Persisting

\* An error before anything was installed leaves memory and disk as they were.
LEMMA ApplyFailsKeeps ==
    ASSUME IInv, pc \in Applying, faults' \in 0 .. MaxFaults, ApplyFails
    PROVE  IInv'
<1>1. TypeOK'
  BY DEF IInv, TypeOK, ApplyFails, Finish, mountVars, diskVars, histVars, Applying
<1>2. UNCHANGED <<mem, coverage, diskVars, histVars>> /\ health' = "degraded"
  BY DEF ApplyFails
<1>3. (pc' = "down" /\ mem = None) \/ pc' = "idle"
  BY <1>2 DEF ApplyFails, Finish
<1>4. coverage = "partial" => mem \in DeadRules
  BY DEF IInv, PartialIsFlagged
<1> QED
  BY <1>1, <1>2, <1>3, <1>4, BundleAssumption
  DEF IInv, TypeOK, SnapshotIsWhole, Readable, PartialIsFlagged, DownInv, PersistInv, DurableInv,
      ReportedInv, diskVars, histVars, Applying, Persisting, Bundles

----------------------------------------------------------------------------
(* One lemma per action that installs or writes. *)

\* Startup: the snapshot is in force, or nothing is and the node is degraded.
LEMMA RestoreKeeps ==
    ASSUME IInv, Restore
    PROVE  IInv'
<1>1. TypeOK'
  BY DEF IInv, TypeOK, Restore, mountVars, diskVars, localVars, faultVars, histVars, Bundles
<1>2. UNCHANGED <<diskVars, cand, snap, histVars>> /\ pc = "down" /\ pc' = "resolve"
  BY DEF Restore, localVars
<1>3. PartialIsFlagged'
  BY BundleAssumption DEF IInv, PartialIsFlagged, DownInv, Restore, Bundles
<1>4. DurableInv'
  BY <1>2 DEF IInv, DownInv, DurableInv, Restore, diskVars
<1>5. ReportedInv'
  BY <1>2 DEF IInv, SnapshotIsWhole, ReportedInv, Restore, diskVars, histVars
<1> QED
  BY <1>1, <1>2, <1>3, <1>4, <1>5
  DEF IInv, SnapshotIsWhole, Readable, DownInv, PersistInv, diskVars, Persisting

\* The bundle is in force; healthy only with the persist still to come.
LEMMA InstallKeeps ==
    ASSUME IInv, Install
    PROVE  IInv'
<1>1. TypeOK'
  BY DEF IInv, TypeOK, Install, mountVars, diskVars, localVars, faultVars, Bundles
<1>2. UNCHANGED <<diskVars, cand, snap, reported>> /\ pc' = "persist"
  BY DEF Install, localVars
<1> QED
  BY <1>1, <1>2, BundleAssumption
  DEF IInv, Install, SnapshotIsWhole, Readable, PartialIsFlagged, DownInv, PersistInv, DurableInv,
      ReportedInv, diskVars, Applying, Persisting, Bundles

\* A successful end: the bundle on disk is the one in force, and is reported.
LEMMA PersistOkKeeps ==
    ASSUME IInv, pc \in Persisting, PersistOk, UNCHANGED <<mountVars, data, faultVars, crashes>>,
           fsig' \in [SnapIds -> Bundles \cup {None}], hash' \in [SnapIds -> Bundles \cup {None}],
           data # 0, fsig'[data] = cand, hash'[data] = cand
    PROVE  IInv'
<1>1. /\ UNCHANGED <<mem, health, coverage>>
      /\ pc' = "idle" /\ phase' = "poll" /\ cand' = None /\ snap' = 0
      /\ mem = cand /\ cand \in Whole /\ health = "ok" /\ coverage = "whole"
      /\ reported' = mem /\ since' = {}
  BY DEF IInv, PersistInv, PersistOk, Finish, Rest, agentVars, Persisting
<1>2. TypeOK'
  BY <1>1 DEF IInv, TypeOK, PersistOk, agentVars, mountVars, faultVars, Bundles
<1> QED
  BY <1>1, <1>2, BundleAssumption
  DEF IInv, TypeOK, SnapshotIsWhole, Readable, PartialIsFlagged, DownInv, PersistInv, DurableInv,
      ReportedInv, Applying, Persisting, Bundles

\* The disk holds the bundle already.
LEMMA PersistSkipKeeps ==
    ASSUME IInv, PersistSkip
    PROVE  IInv'
<1>1. cand # None
  BY DEF IInv, TypeOK, PersistSkip
<1>2. data # 0 /\ fsig[data] = cand /\ hash[data] = cand
  BY <1>1 DEF IInv, SnapshotIsWhole, Readable, PersistSkip, DigestOnDisk
<1> QED
  BY <1>2, PersistOkKeeps DEF IInv, TypeOK, PersistSkip, diskVars, Persisting

\* The first file, in a directory ..data does not name.
LEMMA WriteFsigKeeps ==
    ASSUME IInv, WriteFsig
    PROVE  IInv'
<1>1. PICK s \in SnapIds : /\ Fresh(s)
                           /\ snap' = s
                           /\ fsig' = [fsig EXCEPT ![s] = cand]
  BY DEF WriteFsig
<1>2. s # data /\ s # 0
  BY <1>1, BoundAssumption DEF Fresh, SnapIds
<1>3. TypeOK'
  BY <1>1, <1>2 DEF IInv, TypeOK, WriteFsig, mountVars, agentVars, faultVars, histVars
<1> QED
  BY <1>1, <1>2, <1>3
  DEF IInv, TypeOK, WriteFsig, SnapshotIsWhole, Readable, PartialIsFlagged, DownInv, PersistInv,
      DurableInv, ReportedInv, agentVars, histVars, Applying, Persisting

\* The second file; the directory is whole.
LEMMA WriteDigestKeeps ==
    ASSUME IInv, WriteDigest
    PROVE  IInv'
<1>1. TypeOK'
  BY DEF IInv, TypeOK, WriteDigest, mountVars, agentVars, localVars, faultVars, histVars
<1> QED
  BY <1>1
  DEF IInv, TypeOK, WriteDigest, SnapshotIsWhole, Readable, PartialIsFlagged, DownInv, PersistInv,
      DurableInv, ReportedInv, agentVars, localVars, histVars, Applying, Persisting

\* The swap of ..data: both files are there.
LEMMA LinkDataKeeps ==
    ASSUME IInv, LinkData
    PROVE  IInv'
<1>1. TypeOK'
  BY DEF IInv, TypeOK, LinkData, SnapWritten, mountVars, agentVars, localVars, faultVars, histVars
<1> QED
  BY <1>1
  DEF IInv, TypeOK, LinkData, SnapWritten, SnapshotIsWhole, Readable, PartialIsFlagged, DownInv,
      PersistInv, DurableInv, ReportedInv, agentVars, localVars, histVars, Applying, Persisting

\* What is removed is not what ..data names.
LEMMA LinksAndCleanupKeeps ==
    ASSUME IInv, LinksAndCleanup
    PROVE  IInv'
<1>1. data = snap /\ snap \in SnapIds /\ snap # 0 /\ fsig[data] = cand /\ hash[data] = cand
  BY DEF IInv, TypeOK, SnapshotIsWhole, Readable, PersistInv, LinksAndCleanup
<1>2. fsig'[data] = cand /\ hash'[data] = cand
  BY <1>1 DEF LinksAndCleanup, StaleSnaps
<1>3. fsig' \in [SnapIds -> Bundles \cup {None}] /\ hash' \in [SnapIds -> Bundles \cup {None}]
  BY DEF IInv, TypeOK, LinksAndCleanup
<1> QED
  BY <1>1, <1>2, <1>3, PersistOkKeeps DEF LinksAndCleanup, Persisting

\* A failing file operation: the loader is degraded, and ..data names what it named.
LEMMA PersistFailsKeeps ==
    ASSUME IInv, PersistFails
    PROVE  IInv'
<1>1. /\ mem = cand /\ cand # None
      /\ health' = "degraded" /\ UNCHANGED <<mem, coverage, data, histVars>>
  BY DEF IInv, TypeOK, PersistInv, PersistFails, HealthAfterPersistError, Rest, Persisting
<1>2. pc' = "idle" /\ phase' = "poll" /\ cand' = None /\ snap' = 0
  BY <1>1 DEF PersistFails, Finish
<1>3. fsig' \in [SnapIds -> Bundles \cup {None}] /\ hash' \in [SnapIds -> Bundles \cup {None}]
  BY DEF IInv, TypeOK, PersistFails
<1>4. data # 0 => fsig'[data] = fsig[data] /\ hash'[data] = hash[data]
  BY DEF IInv, TypeOK, PersistInv, PersistFails
<1>5. TypeOK'
  BY <1>1, <1>2, <1>3, BoundAssumption
  DEF IInv, TypeOK, PersistFails, Fault, mountVars, histVars
<1> QED
  BY <1>1, <1>2, <1>4, <1>5
  DEF IInv, TypeOK, PersistFails, SnapshotIsWhole, Readable, PartialIsFlagged, DownInv, PersistInv,
      DurableInv, ReportedInv, histVars, Applying, Persisting

\* The process dies: what was reported is on the disk.
LEMMA CrashKeeps ==
    ASSUME IInv, Crash
    PROVE  IInv'
<1>1. TypeOK'
  BY BoundAssumption DEF IInv, TypeOK, Crash, mountVars, diskVars, faultVars, histVars
<1> QED
  BY <1>1, BundleAssumption
  DEF IInv, Crash, SnapshotIsWhole, Readable, PartialIsFlagged, DownInv, PersistInv,
      DurableInv, ReportedInv, diskVars, histVars, Applying, Persisting, Bundles

----------------------------------------------------------------------------
(* The theorems. *)

\* An empty directory, or one snapshot, and a process that is down.
LEMMA InitIInv == Init => IInv
<1> SUFFICES ASSUME Init
             PROVE  IInv
  OBVIOUS
<1>1. PICK b \in Bundles : fsig = [s \in SnapIds |-> IF s = data THEN b ELSE None]
  BY DEF Init
<1>2. 1 \in SnapIds
  BY BoundAssumption DEF SnapIds
<1>3. TypeOK
  BY <1>1, <1>2, BundleAssumption, BoundAssumption DEF Init, TypeOK
<1> QED
  BY <1>1, <1>2, <1>3, BundleAssumption
  DEF Init, IInv, SnapshotIsWhole, Readable, PartialIsFlagged, DownInv, PersistInv,
      DurableInv, ReportedInv, Applying, Persisting, Bundles

\* One lemma per step of the loader; a crash may come before any.
LEMMA NextIInv == IInv /\ [Next]_vars => IInv'
<1> SUFFICES ASSUME IInv, [Next]_vars
             PROVE  IInv'
  OBVIOUS
<1> USE BoundAssumption
<1>1. CASE UNCHANGED vars
  <2>1. TypeOK'
    BY <1>1 DEF IInv, TypeOK, vars, mountVars, agentVars, diskVars, localVars, faultVars, histVars
  <2> QED
    BY <1>1, <2>1, MountIsFree DEF vars, agentVars, localVars
<1>2. CASE PollPresent \/ PollStat
  <2>1. TypeOK'
    BY <1>2 DEF IInv, TypeOK, PollPresent, PollStat, StatAnswer, mountVars, diskVars, localVars,
       faultVars, histVars
  <2> QED
    BY <1>2, <2>1, MountIsFree DEF PollPresent, PollStat, localVars, Applying
<1>3. CASE Resolve \/ ReadBundle
  <2>1. TypeOK'
    BY <1>3, BundleAssumption DEF IInv, TypeOK, Resolve, ReadBundle, mountVars, agentVars, diskVars,
       faultVars, histVars
  <2> QED
    BY <1>3, <2>1
    DEF IInv, Resolve, ReadBundle, SnapshotIsWhole, Readable, PartialIsFlagged, DownInv, PersistInv,
        DurableInv, ReportedInv, agentVars, diskVars, histVars, Applying, Persisting
<1>4. CASE \E m \in Bundles \cup {"absent", "unreadable"} : Rotate(m)
  <2>1. TypeOK'
    BY <1>4 DEF IInv, TypeOK, Rotate, agentVars, diskVars, localVars, faultVars, histVars
  <2> QED
    BY <1>4, <2>1, MountIsFree DEF Rotate, agentVars, localVars
<1>5. CASE ReadMissing \/ ReadRotatedAway \/ InstallRefused
  BY <1>5, ApplyFailsKeeps
  DEF ReadMissing, ReadRotatedAway, InstallRefused, Applying, IInv, TypeOK, faultVars
<1>6. CASE ReadFault
  <2>1. faults' \in 0 .. MaxFaults
    BY <1>6 DEF ReadFault, Fault, IInv, TypeOK
  <2> QED
    BY <1>6, <2>1, ApplyFailsKeeps DEF ReadFault, Applying
<1> QED
  BY <1>1, <1>2, <1>3, <1>4, <1>5, <1>6, RestoreKeeps, InstallKeeps, PersistSkipKeeps, WriteFsigKeeps,
     WriteDigestKeeps, LinkDataKeeps, LinksAndCleanupKeeps, PersistFailsKeeps, CrashKeeps
  DEF Next, AgentStep

\* The policy in memory, the last-known-good on disk and what the status says of
\* them agree, wherever a file operation fails or the process dies: ..data always
\* names a whole snapshot, a healthy agent at rest would restart into the policy it
\* enforces, and no older policy comes back (persist_fsig, apply_path, lib.rs).
THEOREM StoreSafety == Spec => []StoreIsSafe
<1>1. IInv => StoreIsSafe
  BY DEF IInv, StoreIsSafe, DurableInv, ReportedInv, HealthyIsDurable, RestartKeepsPolicy, Applying
<1>2. Spec => []IInv
  BY InitIInv, NextIInv, PTL DEF Spec
<1> QED
  BY <1>1, <1>2, PTL
=============================================================================
