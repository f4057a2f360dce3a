---------------------------- MODULE WaiversProofs ----------------------------
(***************************************************************************)
(* Proofs about the clock floor and the waiver table, for any waivers, any *)
(* times and any bounds; and about the path of a policy (PolicyPath): what *)
(* is signed is all that runs, and what a record loses on its way does not *)
(* weaken what is decided about it, for any policy and any syscall.        *)
(***************************************************************************)
EXTENDS Waivers, PolicyPath, WellFoundedInduction, TLAPS

----------------------------------------------------------------------------
(* The inductive invariant. *)

\* What the floor knows of the clock's past, of the file and of the last flush.
FloorInv ==
    /\ wall <= maxWall
    /\ floor <= maxWall + MAX_ANCHOR_SKEW_SECS
    /\ highest <= floor
    /\ persisted <= floor
    /\ flushed # MIN_UTC => observed = flushed
    /\ pc # "down" => flushed <= floor
    /\ pc # "down" /\ failing = "no" /\ persisted # MIN_UTC => observed = persisted

\* Between two ticks the floor is less than a step past the last flush.
StepInv ==
    pc = "idle" /\ polled # -1 /\ failing = "no" =>
        /\ floor # MIN_UTC => persisted # MIN_UTC
        /\ floor - persisted < PERSIST_STEP_SECS

\* The table is the list of the Secret, or empty and said to be dropped.
Follows ==
    \/ dropped = "yes" /\ table = {}
    \/ dropped = "no" /\ secret.kind \in {"list", "absent"} /\ table = secret.list

\* What the answer of a stat says of the table.  A stamp is that of one rotation:
\* remembered while it is the Secret's own, the file it stands for was loaded.
\* "absent" and "unreadable" stand for any such file: they say something of the
\* table only where the file last loaded gave that answer itself.
TableInv ==
    /\ seen <= rotation /\ statAt <= rotation /\ polled <= rotation /\ loadedAs <= rotation
    /\ pc \in {"down", "load"} => seen = Absent /\ polled = -1
    /\ loadedAs = Absent => table = {}
    /\ loadedAs = Unreadable => dropped = "yes" /\ table = {}
    /\ secret.kind \in {"list", "corrupt"} =>
          /\ loadedAs = rotation => Follows
          /\ pc \in {"idle", "flush"} /\ seen = rotation => loadedAs = rotation
    /\ pc \in {"reload", "flush"} /\ statAt = rotation => seen = StampOf(secret)
    /\ pc = "idle" /\ polled = rotation => seen = StampOf(secret)

IInv == TypeOK /\ FloorInv /\ StepInv /\ TableInv

----------------------------------------------------------------------------
(* Lemmas about the operators. *)

LessThan == {p \in Nat \X Nat : p[1] < p[2]}

\* A non-empty set of naturals has a least element.
LEMMA LeastNat ==
    ASSUME NEW T, T \subseteq Nat, T # {}
    PROVE  \E x \in T : \A y \in T : x <= y
<1>1. OpToRel(<, Nat) = LessThan
  BY Zenon DEF OpToRel, LessThan
<1>2. IsWellFoundedOn(LessThan, Nat)
  BY <1>1, NatLessThanWellFounded, Zenon
<1>3. PICK x \in T : \A y \in T : <<y, x>> \notin LessThan
  BY <1>2, WFMin
<1>4. \A y \in T : ~(y < x)
  BY <1>3 DEF LessThan
<1> QED
  BY <1>4

\* The maximum of a set of integers with an upper bound is a member of it.
LEMMA MaxOfBounded ==
    ASSUME NEW S, S \subseteq Int, S # {}, NEW b \in Int, \A s \in S : s <= b
    PROVE  Max(S) \in S /\ \A s \in S : s <= Max(S)
<1> DEFINE T == {b - s : s \in S}
<1>1. T \subseteq Nat
  OBVIOUS
<1>2. T # {}
  OBVIOUS
<1> HIDE DEF T
<1>3. PICK x \in T : \A y \in T : x <= y
  BY <1>1, <1>2, LeastNat
<1>4. PICK m \in S : x = b - m
  BY <1>3 DEF T
<1>5. \A s \in S : m >= s
  BY <1>3, <1>4 DEF T
<1> QED
  BY <1>4, <1>5 DEF Max

\* Anchoring only ever raises the floor: to a time of the model, and no further than
\* the skew above the wall clock.
LEMMA AnchorRaises ==
    ASSUME NEW E, E \subseteq Time, ClockTypeOK, AnchorFrom(E)
    PROVE  /\ floor' \in MIN_UTC .. MaxTime
           /\ floor' >= floor
           /\ floor' = floor \/ floor' <= Ceiling
<1> DEFINE live   == {e \in E : wall < e /\ e <= wall + MAX_EXCEPTION_DAYS}
           back   == {e - MAX_EXCEPTION_DAYS : e \in live}
           anchor == Max(back)
           capped == IF anchor < Ceiling THEN anchor ELSE Ceiling
<1>1. floor' = IF live # {} /\ capped > floor THEN capped ELSE floor
  BY DEF AnchorFrom
<1>2. CASE live = {}
  BY <1>1, <1>2, TimeAssumption DEF ClockTypeOK, Time, MIN_UTC
<1>3. CASE live # {}
  <2>1. back \subseteq Int /\ \A s \in back : s <= MaxTime
    BY TimeAssumption DEF Time
  <2>2. back # {}
    <3>1. PICK e \in live : TRUE
      BY <1>3
    <3>2. e - MAX_EXCEPTION_DAYS \in back
      BY <3>1
    <3> QED
      BY <3>2
  <2> HIDE DEF back
  <2>3. MaxTime \in Int
    BY TimeAssumption
  <2>4. anchor \in back
    BY <2>1, <2>2, <2>3, MaxOfBounded, Zenon
  <2>5. anchor \in Int /\ anchor <= MaxTime
    BY <2>1, <2>4
  <2> HIDE DEF anchor
  <2>6. Ceiling \in Int
    BY TimeAssumption DEF Ceiling, ClockTypeOK, Time
  <2> QED
    BY <1>1, <1>3, <2>5, <2>6, TimeAssumption DEF ClockTypeOK, Time, MIN_UTC
<1> QED
  BY <1>2, <1>3

\* The floor of the disk that a new process starts from.
LEMMA StoredType ==
    ASSUME ClockTypeOK
    PROVE  /\ Stored \in MIN_UTC .. MaxTime
           /\ Stored # MIN_UTC => Stored = observed
           /\ Stored = observed => Stored # MIN_UTC
           /\ Stored = MIN_UTC \/ Stored <= Ceiling
  BY TimeAssumption DEF ClockTypeOK, Stored, Time, MIN_UTC, Ceiling

\* The answer of a stat, per kind of file.
LEMMA StampType ==
    ASSUME TypeOK
    PROVE  /\ StampOf(secret) \in -2 .. MaxRotations /\ StampOf(secret) <= rotation
           /\ secret.kind \in {"list", "corrupt", "absent", "unreadable"}
           /\ secret.kind \in {"list", "corrupt"} <=> StampOf(secret) = rotation
           /\ secret.kind = "absent" <=> StampOf(secret) = Absent
           /\ secret.kind = "unreadable" <=> StampOf(secret) = Unreadable
  BY WaiverAssumption DEF StampOf, TypeOK, Secrets, Absent, Unreadable

\* A step that leaves the Secret alone leaves the answer of a stat alone.
LEMMA StampStays ==
    ASSUME UNCHANGED <<secret, rotation>>
    PROVE  StampOf(secret)' = StampOf(secret)
  BY DEF StampOf

----------------------------------------------------------------------------
(* One lemma per action. *)

\* A new process: the floor it starts from is the one of the disk.
LEMMA StartKeeps ==
    ASSUME IInv, Start
    PROVE  IInv'
<1> USE TimeAssumption, WaiverAssumption
<1>1. ClockTypeOK /\ Boot
  BY DEF IInv, TypeOK, Start
<1>2. TypeOK'
  BY <1>1, StoredType DEF IInv, TypeOK, ClockTypeOK, Start, Boot, Time, MIN_UTC
<1>3. FloorInv'
  BY <1>1, StoredType DEF IInv, TypeOK, ClockTypeOK, FloorInv, Start, Boot, Time, MIN_UTC, Ceiling
<1>4. StepInv' /\ TableInv'
  BY StampStays DEF IInv, StepInv, TableInv, Start, Follows
<1> QED
  BY <1>2, <1>3, <1>4 DEF IInv

\* A load of the table: it follows the Secret, and the floor can only rise.
LEMMA ReloadKeeps ==
    ASSUME TypeOK, FloorInv, pc # "down", pc' # "down", NEW readFails \in BOOLEAN,
           Reload(readFails)
    PROVE  /\ ClockTypeOK'
           /\ FloorInv'
           /\ table' \in Lists /\ dropped' \in {"no", "yes"}
           /\ Follows'
           /\ secret.kind \in {"absent", "corrupt", "unreadable"} => table' = {}
           /\ secret.kind \in {"corrupt", "unreadable"} => dropped' = "yes"
           /\ loadedAs' = StampOf(secret) /\ UNCHANGED <<secret, rotation>>
<1> USE TimeAssumption, WaiverAssumption
<1> DEFINE Fails == readFails \/ secret.kind \in {"corrupt", "unreadable"}
<1>1. /\ secret.list \in Lists
      /\ secret.kind \in {"list", "corrupt", "unreadable", "absent"}
      /\ secret.kind # "list" => secret.list = {}
  BY DEF TypeOK, Secrets, Lists
<1>2. CASE Fails
  BY <1>1, <1>2 DEF Reload, TableAfterError, TypeOK, ClockTypeOK, clockVars, FloorInv, Follows,
     Lists, Ceiling
<1>3. CASE ~Fails
  <2> DEFINE E == {Expires[w] : w \in secret.list}
  <2>1. E \subseteq Time
    BY <1>1 DEF Lists
  <2>2. AnchorFrom(E) /\ ClockTypeOK
    BY <1>3 DEF Reload, TypeOK
  <2>3. UNCHANGED <<wall, persisted, observed, failing, rolledBack, highest, flushed, maxWall>>
    BY <2>2 DEF AnchorFrom
  <2> HIDE DEF E
  <2>4. /\ floor' \in MIN_UTC .. MaxTime
        /\ floor' >= floor
        /\ floor' = floor \/ floor' <= Ceiling
    BY <2>1, <2>2, AnchorRaises
  <2>5. ClockTypeOK' /\ FloorInv'
    BY <2>2, <2>3, <2>4 DEF ClockTypeOK, FloorInv, Ceiling, Time, MIN_UTC
  <2> QED
    BY <1>1, <1>3, <2>5 DEF Reload, Follows
<1> QED
  BY <1>2, <1>3

\* The load at startup.
LEMMA StartLoadKeeps ==
    ASSUME IInv, StartLoad
    PROVE  IInv'
<1> USE TimeAssumption, WaiverAssumption
<1>1. PICK readFails \in BOOLEAN : Reload(readFails)
  BY DEF StartLoad
<1>2. TypeOK /\ FloorInv /\ pc # "down" /\ pc' # "down"
  BY DEF IInv, StartLoad
<1>3. /\ ClockTypeOK' /\ FloorInv'
      /\ table' \in Lists /\ dropped' \in {"no", "yes"}
      /\ Follows'
      /\ secret.kind \in {"absent", "corrupt", "unreadable"} => table' = {}
      /\ secret.kind \in {"corrupt", "unreadable"} => dropped' = "yes"
      /\ loadedAs' = StampOf(secret)
  BY <1>1, <1>2, ReloadKeeps
<1>4. UNCHANGED <<secret, rotation, seen, crashes, statAt, polled>> /\ pc = "load" /\ pc' = "idle"
  BY <1>1 DEF StartLoad, Reload
<1>5. TypeOK'
  BY <1>2, <1>3, <1>4, StampType DEF TypeOK
<1>6. StepInv' /\ TableInv'
  BY <1>2, <1>3, <1>4, StampType DEF IInv, TypeOK, StepInv, TableInv, Absent, Unreadable
<1> QED
  BY <1>3, <1>5, <1>6 DEF IInv

\* The stat of a tick: the table is not looked at yet.
LEMMA PollStatKeeps ==
    ASSUME IInv, PollStat
    PROVE  IInv'
<1> USE TimeAssumption, WaiverAssumption
<1>1. UNCHANGED <<clockVars, secret, rotation, table, dropped, crashes, polled>>
  BY DEF PollStat
<1>2. UNCHANGED loadedAs /\ StampOf(secret)' = StampOf(secret)
  BY StampStays DEF PollStat
<1>3. TypeOK' /\ FloorInv'
  BY <1>1, <1>2, StampType DEF IInv, TypeOK, ClockTypeOK, FloorInv, PollStat, clockVars
<1>4. StepInv'
  BY DEF PollStat, StepInv
<1>5. TableInv'
  BY <1>1, <1>2, StampType DEF IInv, TypeOK, TableInv, PollStat, Follows
<1> QED
  BY <1>3, <1>4, <1>5 DEF IInv

\* The reload of a tick, from the Secret as it is by now.
LEMMA PollReloadKeeps ==
    ASSUME IInv, PollReload
    PROVE  IInv'
<1> USE TimeAssumption, WaiverAssumption
<1>1. PICK readFails \in BOOLEAN : Reload(readFails)
  BY DEF PollReload
<1>2. TypeOK /\ FloorInv /\ pc # "down" /\ pc' # "down"
  BY DEF IInv, PollReload
<1>3. /\ ClockTypeOK' /\ FloorInv'
      /\ table' \in Lists /\ dropped' \in {"no", "yes"}
      /\ Follows'
      /\ secret.kind \in {"absent", "corrupt", "unreadable"} => table' = {}
      /\ secret.kind \in {"corrupt", "unreadable"} => dropped' = "yes"
      /\ loadedAs' = StampOf(secret)
  BY <1>1, <1>2, ReloadKeeps
<1>4. UNCHANGED <<secret, rotation, seen, crashes, statAt, polled>> /\ pc = "reload" /\ pc' = "flush"
  BY <1>1 DEF PollReload, Reload
<1>5. TypeOK'
  BY <1>2, <1>3, <1>4, StampType DEF TypeOK
<1>6. StepInv'
  BY <1>4 DEF StepInv
<1>7. TableInv'
  <2>1. StampOf(secret)' = StampOf(secret)
    BY <1>4, StampStays
  <2> QED
    BY <1>2, <1>3, <1>4, <2>1, StampType DEF IInv, TypeOK, TableInv, Absent, Unreadable
<1> QED
  BY <1>3, <1>5, <1>6, <1>7 DEF IInv

\* The end of a tick: what was not flushed is flushed, or said to be failing.
LEMMA PollFlushKeeps ==
    ASSUME IInv, PollFlush
    PROVE  IInv'
<1> USE TimeAssumption, WaiverAssumption
<1>1. PICK lands \in BOOLEAN : Persist(lands)
  BY DEF PollFlush
<1>2. TypeOK'
  BY <1>1 DEF IInv, TypeOK, ClockTypeOK, PollFlush, Persist, WriteFloor, Time, MIN_UTC
<1>3. FloorInv'
  BY <1>1 DEF IInv, TypeOK, ClockTypeOK, FloorInv, PollFlush, Persist, WriteFloor, Time, MIN_UTC
<1>4. StepInv'
  BY <1>1 DEF IInv, TypeOK, ClockTypeOK, FloorInv, StepInv, PollFlush, Persist, WriteFloor, Time, MIN_UTC
<1>5. TableInv'
  BY <1>1, StampStays DEF IInv, TypeOK, TableInv, PollFlush, Follows
<1> QED
  BY <1>2, <1>3, <1>4, <1>5 DEF IInv

\* A reading: it is the floor from then on, and a step past the last flush flushes.
LEMMA DecideKeeps ==
    ASSUME IInv, Decide
    PROVE  IInv'
<1> USE TimeAssumption, WaiverAssumption
<1>1. PICK lands \in BOOLEAN : NowFrom(lands)
  BY DEF Decide
<1>2. TypeOK'
  BY <1>1 DEF IInv, TypeOK, ClockTypeOK, Decide, NowFrom, Reading, WriteFloor, Time, MIN_UTC, tableVars
<1>3. FloorInv'
  BY <1>1 DEF IInv, TypeOK, ClockTypeOK, FloorInv, Decide, NowFrom, Reading, WriteFloor, Time, MIN_UTC,
     tableVars
<1>4. StepInv'
  BY <1>1 DEF IInv, TypeOK, ClockTypeOK, FloorInv, StepInv, Decide, NowFrom, WriteFloor, Time, MIN_UTC,
     tableVars
<1>5. TableInv'
  BY StampStays DEF IInv, TableInv, Decide, tableVars, Follows
<1> QED
  BY <1>2, <1>3, <1>4, <1>5 DEF IInv

\* Clock, file and Secret move: what was flushed is still in the file.
LEMMA EnvironmentKeeps ==
    ASSUME IInv, Environment
    PROVE  IInv'
<1> USE TimeAssumption, WaiverAssumption
<1>1. ASSUME NEW t \in Time, SetClock(t), UNCHANGED tableVars
      PROVE  IInv'
  BY <1>1, StampStays
  DEF IInv, TypeOK, ClockTypeOK, FloorInv, StepInv, TableInv, SetClock, Follows, Time, tableVars
<1>2. ASSUME NEW t \in Time \cup {NoFile}, pc = "down", EditFile(t), UNCHANGED tableVars
      PROVE  IInv'
  BY <1>2, StampStays
  DEF IInv, TypeOK, ClockTypeOK, FloorInv, StepInv, TableInv, EditFile, Follows, Time, MIN_UTC,
      tableVars
<1>3. ASSUME NEW s \in Secrets, RotateSecret(s)
      PROVE  IInv'
  <2>1. TypeOK' /\ FloorInv' /\ StepInv'
    BY <1>3 DEF IInv, TypeOK, ClockTypeOK, FloorInv, StepInv, RotateSecret, clockVars
  <2>2. TableInv'
    BY <1>3 DEF IInv, TypeOK, TableInv, RotateSecret, Follows, Absent, Unreadable
  <2> QED
    BY <2>1, <2>2 DEF IInv
<1>4. CASE Crash
  BY <1>4 DEF IInv, TypeOK, ClockTypeOK, FloorInv, StepInv, TableInv, Crash, clockVars, Lists, Absent, Unreadable
<1> QED
  BY <1>1, <1>2, <1>3, <1>4 DEF Environment

----------------------------------------------------------------------------
(* The theorems. *)

\* No process has read the clock or the Secret yet.
LEMMA InitIInv == Init => IInv
  BY TimeAssumption, WaiverAssumption
  DEF Init, ClockInit, IInv, TypeOK, ClockTypeOK, FloorInv, StepInv, TableInv, Follows, Time, MIN_UTC, Lists, Absent,
      Unreadable

\* One lemma per action.
LEMMA NextIInv == IInv /\ [Next]_vars => IInv'
<1> SUFFICES ASSUME IInv, [Next]_vars
             PROVE  IInv'
  OBVIOUS
<1>1. CASE UNCHANGED vars
  BY <1>1, StampStays
  DEF IInv, TypeOK, ClockTypeOK, FloorInv, StepInv, TableInv, Follows, vars, clockVars, tableVars
<1>2. CASE Next
  BY <1>2, StartKeeps, StartLoadKeeps, PollStatKeeps, PollReloadKeeps, PollFlushKeeps, DecideKeeps,
     EnvironmentKeeps
  DEF Next, AgentStep
<1> QED
  BY <1>1, <1>2

\* The invariant holds in every reachable state.
LEMMA Invariance == Spec => []IInv
  BY InitIInv, NextIInv, PTL DEF Spec

\* A waiver that a reading found expired stays expired in that process, and after a
\* restart if the floor had been flushed by then; the floor is never in the future
\* and never a step ahead of the disk (clock.rs), whatever the waivers and the times.
THEOREM ExpiryIsMonotonic == Spec => []ExpiryHolds
<1>1. IInv => ExpiryHolds
  <2> SUFFICES ASSUME IInv
               PROVE  ExpiryHolds
    OBVIOUS
  <2> USE TimeAssumption, WaiverAssumption
  <2>1. Reading \in Int /\ floor <= Reading
    BY DEF IInv, TypeOK, ClockTypeOK, Reading, Time, MIN_UTC
  <2>2. \A w \in Ids : Expires[w] \in Int
    BY DEF Time
  <2>3. ExpiredStaysExpired
    BY <2>1, <2>2 DEF ExpiredStaysExpired, Applies, IInv, TypeOK, ClockTypeOK, FloorInv, MIN_UTC
  <2>4. FlushedExpiryIsDurable
    BY <2>1, <2>2 DEF FlushedExpiryIsDurable, Applies, IInv, TypeOK, ClockTypeOK, FloorInv, MIN_UTC
  <2>5. FloorNotInFuture
    BY DEF FloorNotInFuture, IInv, FloorInv
  <2>6. UnflushedIsBounded
    BY DEF UnflushedIsBounded, IInv, TypeOK, ClockTypeOK, FloorInv, StepInv, MIN_UTC
  <2> QED
    BY <2>3, <2>4, <2>5, <2>6 DEF ExpiryHolds, IInv
<1> QED
  BY Invariance, <1>1, PTL

\* After a complete tick the live table is the Secret's list, or empty and said to
\* be dropped, whatever the Secret carries and however it rotates between the stat
\* and the read (reload_exceptions_path and poll_once); a file that is gone or will
\* not stat leaves an older table in place only where that answer was remembered for
\* a file that had given another when it was loaded.
THEOREM TableIsTheSecrets == Spec => []TableFollowsSecret
<1>1. IInv => TableFollowsSecret
  <2> SUFFICES ASSUME IInv, pc = "idle", polled = rotation,
                      ~(secret.kind \in {"absent", "unreadable"} /\ loadedAs # seen)
               PROVE  Follows
    BY DEF TableFollowsSecret, Follows
  <2>1. seen = StampOf(secret)
    BY DEF IInv, TableInv
  <2>2. TypeOK /\ TableInv
    BY DEF IInv
  <2>3. CASE secret.kind \in {"list", "corrupt"}
    BY <2>1, <2>2, <2>3, StampType DEF TableInv
  <2>4. CASE secret.kind = "absent"
    <3>1. table = {} /\ secret.list = {}
      BY <2>1, <2>2, <2>4, StampType DEF TableInv, TypeOK, Secrets
    <3> QED
      BY <2>2, <2>4, <3>1 DEF Follows, TypeOK
  <2>5. CASE secret.kind = "unreadable"
    BY <2>1, <2>2, <2>5, StampType DEF TableInv, Follows
  <2>6. secret.kind \in {"list", "corrupt", "absent", "unreadable"}
    BY <2>2 DEF TypeOK, Secrets
  <2> QED
    BY <2>3, <2>4, <2>5, <2>6
<1> QED
  BY Invariance, <1>1, PTL

----------------------------------------------------------------------------
(* The way of a policy (PolicyPath): what a plane runs was signed. *)

\* An envelope as a writer makes it: one key, one signature by it over the payload.
Made(raw, who) ==
    FsigFile(SIGNED_FORMAT, Key(ED25519_PUBLIC_KEY_LEN, who),
             Signature(ED25519_SIGNATURE_LEN, who, BUNDLE_SIGNATURE_CONTEXT, raw), raw, TRUE)
Genuine(f) == \E raw, who : f = Made(raw, who)

\* The payload of an envelope of that Secret, or of the older one, as signed by that root.
SignedBy(f, pinned) ==
    f.signature = Signature(ED25519_SIGNATURE_LEN, pinned.of, BUNDLE_SIGNATURE_CONTEXT, f.raw)
Owned(raw, files, pinned) ==
    \E f \in {EarlierFile} \cup files : raw = f.raw /\ SignedBy(f, pinned)

\* What a reader of the envelope asks.
Passes(h, pinned) ==
    /\ h.form = "FSIG" /\ h.format = SIGNED_FORMAT /\ LensRight(h) /\ h.public_key = pinned
    /\ verify_bundle_signature(h.raw, h.signature, pinned)

SignedInv ==
    /\ \A s \in bundleSecret : \A f \in s.bundle : Genuine(f)
    /\ stage = "mounted" => \A m \in mount : \E s \in bundleSecret : m \in Mounts(s)
    /\ OnlySignedPolicyLoads

\* A damaged envelope that passes still carries a payload its key signed: another
\* payload is not what the signature is over, another key is not the pinned one,
\* another signer or context does not verify.
LEMMA DamageIsSeen ==
  ASSUME NEW g, Genuine(g), NEW h \in Damaged(g), NEW pinned, Passes(h, pinned)
  PROVE  \E f \in {EarlierFile, g} : h.raw = f.raw /\ SignedBy(f, pinned)
<1>1. PICK raw, who : g = Made(raw, who)
  BY DEF Genuine
<1>2. /\ h.form = "FSIG" /\ h.format = 1 /\ h.public_key = pinned
      /\ h.public_key.len = 32 /\ h.signature.len = 64
      /\ h.signature.by = pinned.of /\ h.signature.context = BUNDLE_SIGNATURE_CONTEXT
      /\ h.signature.over = h.raw
  BY DEF Passes, LensRight, verify_bundle_signature, SIGNED_FORMAT, ED25519_PUBLIC_KEY_LEN,
         ED25519_SIGNATURE_LEN
<1>3. /\ g = [form |-> "FSIG", format |-> 1, public_key |-> [len |-> 32, of |-> who],
              signature |-> [len |-> 64, by |-> who, context |-> BUNDLE_SIGNATURE_CONTEXT,
                             over |-> raw],
              raw |-> raw, whole |-> TRUE]
  BY <1>1 DEF Made, FsigFile, Key, Signature, SIGNED_FORMAT, ED25519_PUBLIC_KEY_LEN,
         ED25519_SIGNATURE_LEN
<1> USE DEF SignedBy, Signature, ED25519_SIGNATURE_LEN
<1>4. CASE h = g
  BY <1>2, <1>3, <1>4
<1>5. CASE h = EarlierFile
  <2>1. /\ h.raw = EarlierRaw /\ h.signature =
             [len |-> 64, by |-> "owner", context |-> BUNDLE_SIGNATURE_CONTEXT, over |-> EarlierRaw]
    BY <1>5 DEF EarlierFile, FsigFile
  <2> QED
    BY <1>2, <1>5, <2>1
<1>13. CASE h = StrayFile
  <2>1. h.signature.context = BREAK_GLASS_CONTEXT
    BY <1>13 DEF StrayFile, FsigFile
  <2> QED
    BY <1>2, <2>1 DEF BREAK_GLASS_CONTEXT, BUNDLE_SIGNATURE_CONTEXT
<1>6. CASE h = [g EXCEPT !.raw = EarlierRaw]
  BY <1>2, <1>3, <1>6
<1>7. CASE h = [g EXCEPT !.whole = FALSE]
  BY <1>2, <1>3, <1>7
<1>8. CASE h = [g EXCEPT !.format = 2]
  BY <1>2, <1>3, <1>8
<1>9. CASE \/ h = [g EXCEPT !.public_key.of = "other"] \/ h = [g EXCEPT !.public_key.len = 0]
           \/ h = [g EXCEPT !.signature.len = 0]
  BY <1>2, <1>3, <1>9
<1>10. CASE h = [g EXCEPT !.signature.by = "other"]
  BY <1>2, <1>3, <1>10
<1>11. CASE h = [g EXCEPT !.signature.context = BREAK_GLASS_CONTEXT]
  BY <1>2, <1>3, <1>11 DEF BREAK_GLASS_CONTEXT, BUNDLE_SIGNATURE_CONTEXT
<1>12. CASE \/ h = PlainFile("FRMB", g.raw) \/ h = PlainFile("empty", <<>>)
            \/ h = PlainFile("garbage", <<>>)
  BY <1>2, <1>12 DEF PlainFile
<1> QED
  BY <1>4, <1>5, <1>6, <1>7, <1>8, <1>9, <1>10, <1>11, <1>12, <1>13 DEF Damaged

\* What lies at a mount: an envelope, damaged or not, or a Secret saved as JSON.
LEMMA MountHolds ==
  ASSUME NEW s, NEW m \in Mounts(s), NEW h \in m.bundle
  PROVE  \E g \in s.bundle : h \in Damaged(g) \/ \E j \in Digests(g) : h = Json(g, j)
<1>1. CASE m = AsWritten(s)
  <2>1. h \in s.bundle
    BY <1>1 DEF AsWritten
  <2>2. h \in Damaged(h)
    BY DEF Damaged
  <2> QED
    BY <2>1, <2>2
<1>2. CASE m # AsWritten(s)
  <2>1. PICK g \in s.bundle : m \in
          {[path |-> p, data |-> d, bundle |-> b, digest |-> digest] :
            p \in {"dir", BUNDLE_FSIG_KEY, "policy.fsig"}, d \in BOOLEAN, digest \in Digests(g),
            b \in {{}} \cup {{x} : x \in Damaged(g) \cup {Json(g, j) : j \in Digests(g)}}}
    BY <1>2 DEF Mounts
  <2>2. m.bundle \in {{}} \cup {{x} : x \in Damaged(g) \cup {Json(g, j) : j \in Digests(g)}}
    BY <2>1
  <2>3. h \in Damaged(g) \cup {Json(g, j) : j \in Digests(g)}
    BY <2>2
  <2> QED
    BY <2>3
<1> QED
  BY <1>1, <1>2

LEMMA JsonForm == \A g, j : Json(g, j).form = "json"
BY DEF Json

\* source.rs: the agent.
LEMMA AgentTakesSigned ==
  ASSUME NEW s, \A f \in s.bundle : Genuine(f), NEW m \in Mounts(s), NEW pinned,
         NEW raw \in load_path(m, pinned)
  PROVE  Owned(raw, s.bundle, pinned)
<1>1. PICK src \in read_source_path(m) : raw \in load_source(src.bytes, pinned, src.expected)
  BY DEF load_path
<1>2. src.bytes \in m.bundle
  BY <1>1 DEF read_source_path, read_dir_snapshot, read_required, snapshot_dir
<1>3. PICK h : /\ h \in UNION {decode_fsig(f) : f \in extract_fsig(src.bytes)}
               /\ h.public_key = pinned /\ verify_bundle_signature(h.raw, h.signature, pinned)
               /\ raw = h.raw
  BY <1>1 DEF load_source
<1>4. h = src.bytes /\ Passes(h, pinned)
  BY <1>3 DEF decode_fsig, extract_fsig, Passes
<1>5. PICK g \in s.bundle : h \in Damaged(g) \/ \E j \in Digests(g) : h = Json(g, j)
  BY <1>2, <1>4, MountHolds
<1>6. h \in Damaged(g)
  BY <1>4, <1>5, JsonForm DEF Passes
<1> QED
  BY <1>3, <1>4, <1>6, DamageIsSeen DEF Owned

\* bundle.rs: the webhook, which also reads a Secret saved as JSON.
LEMMA WebhookTakesSigned ==
  ASSUME NEW s, \A f \in s.bundle : Genuine(f), NEW m \in Mounts(s), NEW pinned,
         NEW p \in admission_load_path(m, pinned)
  PROVE  \E raw : p \in parse_verified(raw) /\ Owned(raw, s.bundle, pinned)
<1>1. PICK src \in admission_read_source_path(m) :
        p \in load_source_with_digest(src.bytes, pinned, src.expected)
  BY DEF admission_load_path
<1>2. src.bytes \in m.bundle
  BY <1>1 DEF admission_read_source_path, admission_read_dir_snapshot, admission_read_required,
              admission_snapshot_dir
<1>3. PICK x \in admission_extract_fsig(src.bytes) : p \in load_bundle(x.fsig, pinned)
  BY <1>1 DEF load_source_with_digest
<1>4. p \in load_fsig(x.fsig, pinned)
  BY <1>3 DEF load_bundle
<1>5. PICK h \in admission_decode_fsig(x.fsig) :
        /\ h.public_key = pinned /\ verify_bundle_signature(h.raw, h.signature, pinned)
        /\ p \in parse_verified(h.raw)
  BY <1>4 DEF load_fsig
<1>6. h = x.fsig /\ Passes(h, pinned)
  BY <1>5 DEF admission_decode_fsig, Passes
<1>7. PICK g \in s.bundle : \/ src.bytes \in Damaged(g)
                             \/ \E j \in Digests(g) : src.bytes = Json(g, j)
  BY <1>2, MountHolds
<1>8. h \in Damaged(g)
  <2>1. CASE src.bytes.form = "json"
    <3>1. src.bytes \notin Damaged(g)
      <4>1. PICK raw, who : g = Made(raw, who)
        BY DEF Genuine
      <4> QED
        BY <2>1, <4>1 DEF Damaged, Made, FsigFile, PlainFile, EarlierFile, StrayFile
    <3>2. PICK j \in Digests(g) : src.bytes = Json(g, j)
      BY <1>7, <3>1
    <3>3. x.fsig \in src.bytes.bundle /\ src.bytes.bundle = {g}
      BY <1>3, <2>1, <3>2 DEF admission_extract_fsig, extract_secret_json, Json
    <3> QED
      BY <1>6, <3>3 DEF Damaged
  <2>2. CASE src.bytes.form # "json"
    <3>1. x.fsig = src.bytes
      BY <1>3, <2>2 DEF admission_extract_fsig
    <3> QED
      BY <1>6, <1>7, <2>2, <3>1, JsonForm
  <2> QED
    BY <2>1, <2>2
<1> QED
  BY <1>5, <1>6, <1>8, DamageIsSeen DEF Owned

\* sign_compiled, bundle_secret_named: what the controller writes.
LEMMA ControllerSigns ==
  ASSUME NEW seed, NEW raws,
         NEW s \in UNION {bundle_secret_named(b, Pin) :
                           b \in UNION {sign_compiled(raw, seed) : raw \in raws}},
         NEW f \in s.bundle
  PROVE  Genuine(f)
<1>1. PICK raw \in raws : \E b \in sign_compiled(raw, seed) : s \in bundle_secret_named(b, Pin)
  OBVIOUS
<1>2. PICK b \in sign_compiled(raw, seed) : s \in bundle_secret_named(b, Pin)
  BY <1>1
<1>3. /\ b.signature = Signature(ED25519_SIGNATURE_LEN, seed.of, BUNDLE_SIGNATURE_CONTEXT, raw)
      /\ b.public_key = Key(ED25519_PUBLIC_KEY_LEN, seed.of) /\ b.raw = raw
  BY <1>2 DEF sign_compiled, sign_bundle, public_key_from_secret
<1>4. f \in encode(b)
  BY <1>2 DEF bundle_secret_named
<1>5. f = Made(raw, seed.of)
  BY <1>3, <1>4 DEF encode, encode_fsig_envelope, Made
<1> QED
  BY <1>5 DEF Genuine

\* sign_file: what ferrumctl writes.
LEMMA FerrumctlSigns ==
  ASSUME NEW seed, NEW files, NEW s \in UNION {sign_file(x, seed) : x \in files}, NEW f \in s.bundle
  PROVE  Genuine(f)
<1>1. PICK x \in files : s \in sign_file(x, seed)
  OBVIOUS
<1>2. f \in UNION {UNION {encode_fsig(x.raw, sig, key) :
                            sig \in sign_bundle(x.raw, k), key \in public_key_from_secret(k)} :
                     k \in read_secret_key(seed)}
  BY <1>1 DEF sign_file
<1>3. PICK k \in read_secret_key(seed) :
        \E sig \in sign_bundle(x.raw, k), key \in public_key_from_secret(k) :
           f \in encode_fsig(x.raw, sig, key)
  BY <1>2
<1>4. PICK sig \in sign_bundle(x.raw, k), key \in public_key_from_secret(k) :
           f \in encode_fsig(x.raw, sig, key)
  BY <1>3
<1>5. /\ sig = Signature(ED25519_SIGNATURE_LEN, k.of, BUNDLE_SIGNATURE_CONTEXT, x.raw)
      /\ key = Key(ED25519_PUBLIC_KEY_LEN, k.of)
  BY <1>4 DEF sign_bundle, public_key_from_secret
<1>6. f = Made(x.raw, k.of)
  BY <1>4, <1>5 DEF encode_fsig, Made
<1> QED
  BY <1>6 DEF Genuine

LEMMA LoadTakesSigned == ASSUME SignedInv, Load PROVE SignedInv'
<1>1. /\ stage = "mounted" /\ stage' = "loaded" /\ bundleSecret' = bundleSecret
      /\ mount' = mount /\ root' = root
  BY DEF Load, signing
<1>2. PICK m \in mount, dead \in {"Reject", "Drop"} :
        /\ loaded' = UNION {LoadFebp(raw, dead) :
                        raw \in UNION {load_path(m, r) : r \in parse_trust_root(root)}}
        /\ program' = UNION {admission_load_path(m, r) : r \in admission_parse_trust_root(root)}
  BY DEF Load
<1>3. PICK s \in bundleSecret : m \in Mounts(s)
  BY <1>1 DEF SignedInv
<1>4. \A f \in s.bundle : Genuine(f)
  BY DEF SignedInv
<1> DEFINE files == {EarlierFile} \cup UNION {t.bundle : t \in bundleSecret}
           owned == {f.raw : f \in {g \in files : SignedBy(g, root)}}
<1>5. ASSUME NEW raw, Owned(raw, s.bundle, root)
      PROVE  raw \in owned
  BY <1>3, <1>5 DEF Owned
<1> HIDE DEF owned
<1>6. loaded' \subseteq UNION {LoadFebp(raw, d) : raw \in owned, d \in {"Reject", "Drop"}}
  <2> SUFFICES ASSUME NEW spec \in loaded'
               PROVE  spec \in UNION {LoadFebp(raw, d) : raw \in owned, d \in {"Reject", "Drop"}}
    OBVIOUS
  <2>1. PICK raw \in UNION {load_path(m, r) : r \in parse_trust_root(root)} :
          spec \in LoadFebp(raw, dead)
    BY <1>2
  <2>2. raw \in load_path(m, root)
    BY <2>1 DEF parse_trust_root
  <2>3. raw \in owned
    BY <1>3, <1>4, <1>5, <2>2, AgentTakesSigned
  <2> QED
    BY <2>1, <2>3
<1>7. program' \subseteq UNION {parse_verified(raw) : raw \in owned}
  <2> SUFFICES ASSUME NEW p \in program'
               PROVE  p \in UNION {parse_verified(raw) : raw \in owned}
    OBVIOUS
  <2>1. p \in admission_load_path(m, root)
    BY <1>2 DEF admission_parse_trust_root
  <2>2. PICK raw : p \in parse_verified(raw) /\ Owned(raw, s.bundle, root)
    BY <1>3, <1>4, <2>1, WebhookTakesSigned
  <2> QED
    BY <1>5, <2>2
<1>8. OnlySignedPolicyLoads'
  BY <1>1, <1>6, <1>7 DEF OnlySignedPolicyLoads, owned, SignedBy
<1> QED
  BY <1>1, <1>8 DEF SignedInv

LEMMA SignedNext == ASSUME SignedInv, [PolicyNext]_policyVars PROVE SignedInv'
<1> USE DEF SignedInv, OnlySignedPolicyLoads
<1>1. CASE Reconcile
  <2>1. stage' # "mounted" /\ stage' # "loaded"
    BY <1>1 DEF Reconcile, Signed
  <2>2. PICK seed \in SeedsOf(policy) : bundleSecret' =
          UNION {bundle_secret_named(b, Pin) :
                   b \in IF scope = "cluster" THEN compile_and_sign(policy, seed)
                         ELSE compile_and_sign_namespaced(policy, seed)}
    BY <1>1 DEF Reconcile, Signed
  <2>3. PICK raws : bundleSecret' =
          UNION {bundle_secret_named(b, Pin) : b \in UNION {sign_compiled(raw, seed) : raw \in raws}}
    BY <2>2 DEF compile_and_sign, compile_and_sign_namespaced
  <2>4. \A s \in bundleSecret' : \A f \in s.bundle : Genuine(f)
    BY <2>3, ControllerSigns
  <2> QED
    BY <2>1, <2>4
<1>2. CASE Ferrumctl
  <2>1. stage' # "mounted" /\ stage' # "loaded"
    BY <1>2 DEF Ferrumctl, Signed
  <2>2. PICK seed \in SeedsOf(policy) :
          bundleSecret' = UNION {sign_file(f, seed) : f \in compile_yaml(policy, scope)}
    BY <1>2 DEF Ferrumctl, Signed
  <2>3. \A s \in bundleSecret' : \A f \in s.bundle : Genuine(f)
    BY <2>2, FerrumctlSigns
  <2> QED
    BY <2>1, <2>3
<1>3. CASE Mount
  <2>1. stage' = "mounted" /\ bundleSecret' = bundleSecret
    BY <1>3 DEF Mount
  <2>2. PICK s \in bundleSecret :
          \E m \in IF policy \in Probed THEN Mounts(s) ELSE {AsWritten(s)} : mount' = {m}
    BY <1>3 DEF Mount
  <2>3. \A m \in mount' : m \in Mounts(s)
    BY <2>2 DEF Mounts
  <2> QED
    BY <2>1, <2>2, <2>3
<1>4. CASE Load
  BY <1>4, LoadTakesSigned
<1>5. CASE Publish
  BY <1>5 DEF Publish
<1>6. CASE Enter \/ Leave
  BY <1>6 DEF Enter, Leave, signing
<1>7. CASE UNCHANGED policyVars
  BY <1>7 DEF policyVars, signing
<1> QED
  BY <1>1, <1>2, <1>3, <1>4, <1>5, <1>6, <1>7 DEF PolicyNext

(* For every set of policies, whatever lies at the mount and whichever key *)
(* is pinned: what agent and webhook run is a bundle that the holder of    *)
(* the pinned key signed as a bundle, byte for byte (source.rs load_path,  *)
(* bundle.rs load_source_with_digest).  Every envelope a writer makes      *)
(* carries one key and that key's signature over its payload (Genuine);    *)
(* what is done to it at the mount breaks one of the two (DamageIsSeen).   *)
THEOREM OnlySignedBundlesRun == PolicySpec => []OnlySignedPolicyLoads
<1>1. PolicyInit => SignedInv
  BY DEF PolicyInit, SignedInv, OnlySignedPolicyLoads
<1>2. SignedInv => OnlySignedPolicyLoads
  BY DEF SignedInv
<1> QED
  BY <1>1, <1>2, SignedNext, PTL DEF PolicySpec

----------------------------------------------------------------------------
(* The policy meets a syscall: the record, the rules and the prefilter.    *)

\* What is in progress is one of the given syscalls, under a loaded policy.
EnteredInv == stage = "entered" => loaded # {} /\ \E c \in Calls : call = {c}

LEMMA EnteredNext == ASSUME EnteredInv, [PolicyNext]_policyVars PROVE EnteredInv'
<1> USE DEF EnteredInv
<1>1. CASE Reconcile \/ Ferrumctl
  BY <1>1 DEF Reconcile, Ferrumctl, Signed
<1>2. CASE Mount \/ Load \/ Publish \/ Leave
  BY <1>2 DEF Mount, Load, Publish, Leave
<1>3. CASE Enter
  BY <1>3 DEF Enter
<1>4. CASE UNCHANGED policyVars
  BY <1>4 DEF policyVars
<1> QED
  BY <1>1, <1>2, <1>3, <1>4 DEF PolicyNext

\* The minimum of a non-empty set of naturals is its least member.
LEMMA MinOfNats ==
  ASSUME NEW S, S \subseteq Nat, S # {}
  PROVE  Min(S) \in S /\ \A x \in S : Min(S) <= x
<1>1. PICK m \in S : \A x \in S : m <= x
  BY LeastNat
<1> QED
  BY <1>1 DEF Min

\* A text that fits its buffer is read back from it whole.
LEMMA PaddedReadsBack ==
  ASSUME NEW n \in Nat, NEW t \in Seq(Nat \ {NUL}), Len(t) < n
  PROVE  path_bytes(Padded(t, n)) = t
<1> DEFINE buf == Padded(t, n)
           ends == {i \in DOMAIN buf : buf[i] = NUL}
<1>1. buf \in Seq(Nat) /\ Len(buf) = n /\ DOMAIN buf = 1..n
  BY DEF Padded, NUL
<1>2. \A i \in 1..n : i \in ends <=> i > Len(t)
  BY DEF Padded, NUL
<1>3. ends \subseteq 1..n
  BY <1>1
<1>4. Len(t) + 1 \in ends
  BY <1>2
<1> HIDE DEF ends
<1>5. ends \subseteq Nat /\ ends # {}
  BY <1>3, <1>4
<1>6. PICK m : m = Min(ends) /\ m \in ends /\ \A x \in ends : m <= x
  BY <1>5, MinOfNats, Zenon
<1>7. m - 1 = Len(t)
  BY <1>2, <1>3, <1>4, <1>6
<1>8. path_bytes(buf) = SubSeq(buf, 1, m - 1)
  BY <1>4, <1>6 DEF path_bytes, ends
<1>9. SubSeq(buf, 1, Len(t)) = t
  <2>1. \A i \in 1..Len(t) : buf[i] = t[i]
    BY DEF Padded
  <2> HIDE DEF buf
  <2> QED
    BY <1>1, <2>1
<1> QED
  BY <1>7, <1>8, <1>9

LEMMA TextReadsBack ==
  ASSUME NEW n \in Nat, NEW t \in Seq(Nat \ {NUL}), Len(t) < n, Range(t) \cap NotUtf8 = {}
  PROVE  nul_trimmed_str(Padded(t, n)) = t
<1>1. path_bytes(Padded(t, n)) = t
  BY PaddedReadsBack
<1>2. {i \in DOMAIN t : t[i] \in NotUtf8} = {}
  BY DEF Range
<1> QED
  BY <1>1, <1>2 DEF nul_trimmed_str

\* The record of a syscall without a path says so.
LEMMA PathlessEvent ==
  ASSUME NEW c \in Calls, c.syscall \notin PATH_BEARING_SYSCALLS
  PROVE  LET e == syscall_event(new_event(c), c.arch) IN e.path = <<>> /\ e.path_truncated = FALSE
<1>1. new_event(c).path = Padded(<<>>, PATH_LEN) /\ new_event(c).path_truncated = FALSE
  BY DEF new_event
<1>2. /\ path_bytes(Padded(<<>>, PATH_LEN)) = <<>>
      /\ nul_trimmed_str(Padded(<<>>, PATH_LEN)) = <<>>
  <2>1. <<>> \in Seq(Nat \ {NUL}) /\ Len(<<>>) = 0 /\ Range(<<>>) \cap NotUtf8 = {}
    BY DEF Range
  <2>2. PATH_LEN \in Nat /\ 0 < PATH_LEN
    BY RuntimeRulesAssumption
  <2> QED
    BY <2>1, <2>2, PaddedReadsBack, TextReadsBack
<1>3. ~(Len(<<>>) >= PATH_LEN - 1)
  BY RuntimeRulesAssumption
<1> QED
  BY <1>1, <1>2, <1>3 DEF syscall_event, path_truncated

\* What every record keeps of its syscall.
LEMMA EventKeeps ==
  ASSUME NEW c \in Calls
  PROVE  LET e == syscall_event(new_event(c), c.arch)
         IN  /\ e.syscall = c.syscall /\ e.syscall \in DATAPATH_SYSCALLS
             /\ e.in_container = c.in_container /\ e.agent_self = c.agent_self
BY CallsAssumption DEF syscall_event, new_event, syscall_name, datapath_syscalls_for_arch

\* ferrum-ids: no syscall the datapath observes has a space to trim.
LEMMA SyscallsAreTrim == \A s \in DATAPATH_SYSCALLS : trim(s) = s
<1>1. ASSUME NEW n \in Nat, n # SPACE PROVE trim(<<n>>) = <<n>>
  <2>1. DOMAIN <<n>> = {1} /\ <<n>>[1] = n /\ <<n>> \in Seq(Nat) /\ Len(<<n>>) = 1
    OBVIOUS
  <2>2. Min({1}) = 1 /\ Max({1}) = 1
    BY DEF Min, Max
  <2>3. {i \in DOMAIN <<n>> : <<n>>[i] # SPACE} = {1}
    BY <1>1, <2>1, Zenon
  <2>4. trim(<<n>>) = SubSeq(<<n>>, 1, 1)
    BY <2>2, <2>3 DEF trim
  <2> QED
    BY <2>1, <2>4
<1>2. \A s \in DATAPATH_SYSCALLS : \E f \in DOMAIN Syscall : s = Syscall[f]
  BY DEF DATAPATH_SYSCALLS, Range
<1>3. \A f \in DOMAIN Syscall : \E n \in 101..107 : Syscall[f] = <<n>>
  BY DEF Syscall
<1>4. \A n \in 101..107 : n \in Nat /\ n # SPACE
  BY DEF SPACE
<1> QED
  BY <1>1, <1>2, <1>3, <1>4

\* A decision no rule takes part in is the default's.
LEMMA NoHit ==
  ASSUME NEW spec, NEW event, NEW pod, spec.runtime.default_action = "Allow",
         \A i \in DOMAIN spec.runtime.rules :
           rule_matches(spec.runtime.rules[i], event) \in {"no", "skipped"}
  PROVE  decide_with(spec, event, pod, FALSE).action = "Allow"
<1> DEFINE d == matched_action_with(spec, event, FALSE)
<1>1. {i \in DOMAIN spec.runtime.rules :
          rule_matches(spec.runtime.rules[i], event) \in {"yes", "unknown"}} = {}
  OBVIOUS
<1>2. d.action = "Allow"
  BY <1>1 DEF matched_action_with
<1>3. DOMAIN d = {"action", "rule_id", "path_unknown", "container_unknown", "labels_unknown"}
  BY DEF matched_action_with
<1> HIDE DEF d
<1>4. cap_for_mode(spec.mode, spec.disabled, d.action) = "Allow"
  BY <1>2 DEF cap_for_mode
<1> QED
  BY <1>3, <1>4 DEF decide_with, d

\* prefilter.rs, widen_for_rule: a syscall a rule did not ask for is one it does not match.
LEMMA WidenedOrMissed ==
  ASSUME NEW rule \in Rules, NEW c \in Calls,
         NEW e, e = syscall_event(new_event(c), c.arch), e.syscall \notin widen_for_rule(rule)
  PROVE  rule_matches(rule, e) = "no"
<1>1. e.syscall = c.syscall /\ e.syscall \in DATAPATH_SYSCALLS
  BY EventKeeps
<1>2. CASE rule.syscalls # <<>>
  <2>1. e.syscall \notin Trimmed(rule.syscalls)
    BY <1>1, <1>2 DEF widen_for_rule
  <2>2. e.syscall \notin Range(rule.syscalls)
    BY <1>1, <2>1, SyscallsAreTrim DEF Trimmed
  <2> QED
    BY <1>2, <2>2 DEF rule_matches
<1>3. CASE rule.syscalls = <<>>
  <2>1. /\ NamesPath(rule) /\ c.syscall \notin PATH_BEARING_SYSCALLS
    BY <1>1, <1>3 DEF widen_for_rule, NamesPath
  <2>2. e.path = <<>> /\ e.path_truncated = FALSE
    BY <2>1, PathlessEvent
  <2>3. /\ rule.match_on.path_prefix \in Seq(Text) /\ rule.match_on.path_suffix \in Seq(Text)
    BY DEF Rules
  <2>4. \A p \in Text : p # <<>> => ~starts_with(<<>>, p) /\ ~ends_with(<<>>, p)
    BY DEF Text, starts_with, ends_with
  <2>5. ASSUME NEW list \in Seq(Text), NEW p \in Range(list) PROVE p \in Text
    BY <2>5 DEF Range
  <2>6. \/ NoPatternHits(rule.match_on.path_prefix, LAMBDA p : starts_with(e.path, p))
        \/ NoPatternHits(rule.match_on.path_suffix, LAMBDA p : ends_with(e.path, p))
    BY <2>1, <2>2, <2>3, <2>4, <2>5 DEF NoPatternHits, NamesPath
  <2> QED
    BY <2>2, <2>6 DEF rule_matches
<1> QED
  BY <1>2, <1>3

(* For every policy and every syscall: a record the prefilter keeps from   *)
(* userspace is one that no rule and no default would have acted on        *)
(* (prefilter.rs prefilter_image, eval.rs matched_action_with), given that *)
(* the rules are whole; that they are is what AcceptedPolicyLoads says.    *)
THEOREM PrefilterIsInvisible ==
  PolicySpec => [](LoadedIsWellFormed => PrefilterHidesNothing)
<1>1. PolicyInit => EnteredInv
  BY DEF PolicyInit, EnteredInv
<1>2. ASSUME EnteredInv, LoadedIsWellFormed PROVE PrefilterHidesNothing
  <2> SUFFICES ASSUME stage = "entered", NEW e \in Events, Hidden(prefilter_image(The(loaded)), e)
               PROVE  Decided(e).action = "Allow"
    BY DEF PrefilterHidesNothing, InProgress
  <2>1. PICK c \in Calls : The(call) = c
    BY <1>2 DEF EnteredInv, The
  <2>2. PICK spec \in loaded : The(loaded) = spec
    BY <1>2 DEF EnteredInv, The
  <2>3. e = syscall_event(new_event(c), c.arch)
    BY <2>1 DEF Events, emit
  <2> DEFINE rules == spec.runtime.rules
  <2>4. rules \in Seq(Rules) /\ \A i \in DOMAIN rules : rules[i] \in Rules /\ rules[i] \in Range(rules)
    BY <1>2 DEF LoadedIsWellFormed, Range
  <2>5. e.syscall \in DATAPATH_SYSCALLS
    BY <2>3, EventKeeps
  <2>6. PICK image : image = prefilter_image(spec) /\ Hidden(image, e)
    BY <2>2, <2>3
  <2>7. CASE e.syscall \notin image.syscalls
    <3>1. spec.runtime.default_action = "Allow"
      BY <2>5, <2>6, <2>7 DEF prefilter_image
    <3>2. \A i \in DOMAIN rules : e.syscall \notin widen_for_rule(rules[i])
      BY <2>4, <2>6, <2>7, <3>1 DEF prefilter_image
    <3>3. \A i \in DOMAIN rules : rule_matches(rules[i], e) = "no"
      BY <2>3, <2>4, <3>2, WidenedOrMissed
    <3> QED
      BY <2>2, <2>3, <3>1, <3>3, NoHit DEF Decided
  <2>8. CASE \/ image.container_only /\ ~e.in_container
             \/ image.drop_agent_self /\ e.agent_self
    <3>1. spec.runtime.default_action = "Allow"
      BY <2>6, <2>8 DEF prefilter_image
    <3>2. \A i \in DOMAIN rules : \/ rules[i].match_on.container_only /\ ~e.in_container
                                  \/ rules[i].match_on.not_agent_self /\ e.agent_self
      BY <2>4, <2>6, <2>8 DEF prefilter_image
    <3>3. \A i \in DOMAIN rules : rule_matches(rules[i], e) \in {"no", "skipped"}
      BY <3>2 DEF rule_matches
    <3> QED
      BY <2>2, <2>3, <3>1, <3>3, NoHit DEF Decided
  <2> QED
    BY <2>6, <2>7, <2>8 DEF Hidden
<1> QED
  BY <1>1, <1>2, EnteredNext, PTL DEF PolicySpec

\* What can be read of a path, in a text both sides can print.
Readable(c) == NotUtf8 \cap (Range(c.path) \cup Range(c.comm)) = {}

\* A copy of a path into a record.
LEMMA CopyFits ==
  ASSUME NEW t \in Seq(Nat \ {NUL}), NotUtf8 \cap Range(t) = {}
  PROVE  /\ StrBytes(t) = IF Len(t) < PATH_LEN - 1 THEN t ELSE SubSeq(t, 1, PATH_LEN - 1)
         /\ StrBytes(t) \in Seq(Nat \ {NUL})
         /\ Len(StrBytes(t)) = IF Len(t) < PATH_LEN - 1 THEN Len(t) ELSE PATH_LEN - 1
         /\ Range(StrBytes(t)) \cap NotUtf8 = {}
<1>1. PATH_LEN \in Nat /\ PATH_LEN > 1 /\ Len(t) \in Nat
  BY RuntimeRulesAssumption
<1>2. Min({Len(t), PATH_LEN - 1}) = IF Len(t) < PATH_LEN - 1 THEN Len(t) ELSE PATH_LEN - 1
  BY <1>1 DEF Min
<1>3. CASE Len(t) < PATH_LEN - 1
  <2>1. StrBytes(t) = SubSeq(t, 1, Len(t))
    BY <1>2, <1>3 DEF StrBytes
  <2>2. SubSeq(t, 1, Len(t)) = t
    BY <1>1
  <2> QED
    BY <1>1, <1>3, <2>1, <2>2
<1>4. CASE ~(Len(t) < PATH_LEN - 1)
  <2>1. PICK n : n = PATH_LEN - 1 /\ n \in Nat /\ n <= Len(t)
    BY <1>1, <1>4
  <2>2. StrBytes(t) = SubSeq(t, 1, n)
    BY <1>2, <1>4, <2>1 DEF StrBytes
  <2>3. /\ SubSeq(t, 1, n) \in Seq(Nat \ {NUL}) /\ Len(SubSeq(t, 1, n)) = n
        /\ \A i \in 1..n : SubSeq(t, 1, n)[i] = t[i]
    BY <1>1, <2>1
  <2>4. \A x \in Range(SubSeq(t, 1, n)) : x \in Range(t)
    BY <1>1, <2>1, <2>3 DEF Range
  <2> QED
    BY <1>4, <2>1, <2>2, <2>3, <2>4
<1> QED
  BY <1>3, <1>4

\* event.rs: the path of an event is whole, cut and flagged, or missing and flagged.
LEMMA EventPath ==
  ASSUME NEW c \in Calls, Readable(c), NEW e, e = syscall_event(new_event(c), c.arch)
  PROVE  /\ "comm" \in c.reads => e.comm = c.comm
         /\ c.syscall \in PATH_BEARING_SYSCALLS =>
              \/ e.path = c.path /\ e.path_truncated = FALSE
              \/ /\ e.path = SubSeq(c.path, 1, PATH_LEN - 1) /\ PATH_LEN - 1 <= Len(c.path)
                 /\ e.path_truncated = TRUE
              \/ e.path = <<>> /\ e.path_truncated = TRUE
<1>1. /\ c.path \in Seq(Nat \ {NUL}) /\ c.comm \in Seq(Nat \ {NUL}) /\ Len(c.comm) < COMM_LEN
      /\ PATH_LEN \in Nat /\ COMM_LEN \in Nat /\ PATH_LEN > 1
  BY CallsAssumption, RuntimeRulesAssumption
<1>2. NotUtf8 \cap Range(c.path) = {} /\ Range(c.comm) \cap NotUtf8 = {}
  BY DEF Readable
<1>3. ASSUME "comm" \in c.reads PROVE e.comm = c.comm
  <2>1. new_event(c).comm = Padded(c.comm, COMM_LEN)
    BY <1>3 DEF new_event, Name
  <2> QED
    BY <1>1, <1>2, <2>1, TextReadsBack DEF syscall_event
<1>4. ASSUME c.syscall \in PATH_BEARING_SYSCALLS, "user" \in c.reads
      PROVE  \/ e.path = c.path /\ e.path_truncated = FALSE
             \/ /\ e.path = SubSeq(c.path, 1, PATH_LEN - 1) /\ PATH_LEN - 1 <= Len(c.path)
                /\ e.path_truncated = TRUE
  <2>1. PICK read : read = StrBytes(c.path)
    OBVIOUS
  <2>2. /\ read = IF Len(c.path) < PATH_LEN - 1 THEN c.path ELSE SubSeq(c.path, 1, PATH_LEN - 1)
        /\ read \in Seq(Nat \ {NUL})
        /\ Len(read) = IF Len(c.path) < PATH_LEN - 1 THEN Len(c.path) ELSE PATH_LEN - 1
        /\ Range(read) \cap NotUtf8 = {}
    BY <1>1, <1>2, <2>1, CopyFits
  <2>3. Len(read) < PATH_LEN
    BY <1>1, <2>2
  <2>4. new_event(c).path = Padded(read, PATH_LEN) /\ new_event(c).path_truncated = (Len(read) >= PATH_LEN - 1)
    BY <1>4, <2>1 DEF new_event
  <2>5. path_bytes(Padded(read, PATH_LEN)) = read /\ nul_trimmed_str(Padded(read, PATH_LEN)) = read
    BY <1>1, <2>2, <2>3, PaddedReadsBack, TextReadsBack
  <2>6. e.path = read /\ (e.path_truncated <=> Len(read) >= PATH_LEN - 1)
    BY <2>4, <2>5 DEF syscall_event, path_truncated
  <2>7. e.path_truncated \in BOOLEAN
    BY <2>4 DEF syscall_event, path_truncated
  <2>8. CASE Len(c.path) < PATH_LEN - 1
    BY <1>1, <2>2, <2>6, <2>7, <2>8
  <2>9. CASE ~(Len(c.path) < PATH_LEN - 1)
    BY <1>1, <2>2, <2>6, <2>7, <2>9
  <2> QED
    BY <2>8, <2>9
<1>5. ASSUME c.syscall \in PATH_BEARING_SYSCALLS, "user" \notin c.reads
      PROVE  e.path = <<>> /\ e.path_truncated = TRUE
  <2>1. new_event(c).path = Padded(<<>>, PATH_LEN) /\ new_event(c).path_truncated = TRUE
    BY <1>5 DEF new_event
  <2>2. <<>> \in Seq(Nat \ {NUL}) /\ Len(<<>>) < PATH_LEN /\ Range(<<>>) \cap NotUtf8 = {}
    BY <1>1 DEF Range
  <2>3. nul_trimmed_str(Padded(<<>>, PATH_LEN)) = <<>>
    BY <1>1, <2>2, TextReadsBack
  <2> QED
    BY <2>1, <2>3 DEF syscall_event, path_truncated
<1> QED
  BY <1>3, <1>4, <1>5

\* eval.rs: the rule chosen is one that matched, and none that matched outranks it.
LEMMA StrongestHit ==
  ASSUME NEW rules \in Seq(Rules), NEW hits, hits \subseteq DOMAIN rules, hits # {}
  PROVE  LET top == {i \in hits : \A j \in hits : rank[rules[j].action] <= rank[rules[i].action]}
         IN  /\ Min(top) \in hits
             /\ \A j \in hits : rank[rules[j].action] <= rank[rules[Min(top)].action]
<1> DEFINE top == {i \in hits : \A j \in hits : rank[rules[j].action] <= rank[rules[i].action]}
           ranks == {rank[rules[i].action] : i \in hits}
<1>1. \A i \in hits : rank[rules[i].action] \in 0..4
  <2>1. \A i \in hits : rules[i] \in Rules
    OBVIOUS
  <2>2. \A i \in hits : rules[i].action \in DOMAIN rank
    BY <2>1 DEF Rules
  <2>3. \A a \in DOMAIN rank : rank[a] \in 0..4
    BY DEF rank
  <2> QED
    BY <2>2, <2>3
<1>2. ranks \subseteq Int /\ ranks # {} /\ \A r \in ranks : r <= 4
  BY <1>1
<1>3. PICK m \in ranks : \A r \in ranks : r <= m
  <2> HIDE DEF ranks
  <2>1. 4 \in Int
    OBVIOUS
  <2> QED
    BY <1>2, <2>1, MaxOfBounded
<1>4. PICK i \in hits : m = rank[rules[i].action]
  BY <1>3
<1>5. top # {}
  BY <1>3, <1>4
<1>6. top \subseteq Nat
  OBVIOUS
<1>7. Min(top) \in top
  <2> HIDE DEF top
  <2> QED
    BY <1>5, <1>6, MinOfNats, Zenon
<1> QED
  BY <1>7

\* The event of a record that lost nothing.
Whole(c, e) ==
  [e EXCEPT !.path = IF c.syscall \in PATH_BEARING_SYSCALLS THEN c.path ELSE <<>>,
            !.comm = c.comm, !.path_truncated = FALSE]

\* A rule that names a comm, and a record without one.
MeetsNoName(rule, c) == "comm" \notin c.reads /\ NamesComm(rule)

\* eval.rs: a rule that matches the whole path matches what is left of it, and only a
\* rule that names a path matches for what is missing; one that names a comm is kept
\* out of this when the name was lost.
LEMMA LossOnlyAdds ==
  ASSUME NEW rule \in Rules, ~dead_rule_reason(rule), NEW c \in Calls, Readable(c),
         NEW e, e = syscall_event(new_event(c), c.arch), NEW w, w = Whole(c, e)
  PROVE  /\ (rule_matches(rule, w) \in {"yes", "unknown"} /\ rule_matches(rule, e) \notin {"yes", "unknown"})
              => MeetsNoName(rule, c)
         /\ (rule_matches(rule, e) \in {"yes", "unknown"} /\ rule_matches(rule, w) \notin {"yes", "unknown"})
              => NamesPath(rule) \/ MeetsNoName(rule, c)
<1>1. /\ w.syscall = e.syscall /\ w.comm = c.comm /\ w.path_truncated = FALSE
      /\ w.in_container = e.in_container /\ w.agent_self = e.agent_self
      /\ w.path = IF c.syscall \in PATH_BEARING_SYSCALLS THEN c.path ELSE <<>>
  BY DEF Whole, syscall_event
<1>2. /\ "comm" \in c.reads => e.comm = c.comm
      /\ c.syscall \in PATH_BEARING_SYSCALLS =>
           \/ e.path = c.path /\ e.path_truncated = FALSE
           \/ /\ e.path = SubSeq(c.path, 1, PATH_LEN - 1) /\ PATH_LEN - 1 <= Len(c.path)
              /\ e.path_truncated = TRUE
           \/ e.path = <<>> /\ e.path_truncated = TRUE
  BY EventPath
<1>3. c.syscall \notin PATH_BEARING_SYSCALLS => e.path = <<>> /\ e.path_truncated = FALSE
  BY PathlessEvent
<1> DEFINE Missed(x) == NoPatternHits(rule.match_on.path_prefix, LAMBDA p : starts_with(x.path, p))
           Lost(x) == NoPatternHits(rule.match_on.path_suffix, LAMBDA p : ends_with(x.path, p))
           Else(x) == \/ rule.syscalls # <<>> /\ x.syscall \notin Range(rule.syscalls)
                      \/ rule.match_on.comm_in # <<>> /\ x.comm \notin Range(rule.match_on.comm_in)
                      \/ rule.match_on.not_agent_self /\ x.agent_self
                      \/ rule.match_on.container_only /\ ~x.in_container
           Hit(x) == /\ ~Else(x) /\ ~(Lost(x) /\ ~x.path_truncated)
                     /\ ~(Missed(x) /\ ~(x.path_truncated /\ x.path = <<>>))
<1>4. ASSUME NEW x PROVE rule_matches(rule, x) \in {"yes", "unknown"} <=> Hit(x)
  BY DEF rule_matches
<1> SUFFICES ASSUME ~MeetsNoName(rule, c)
             PROVE  /\ Hit(w) => Hit(e)
                    /\ Hit(e) /\ ~Hit(w) => NamesPath(rule)
  <2> HIDE DEF Hit
  <2> QED
    BY <1>4
<1>5. Else(w) <=> Else(e)
  <2>1. rule.match_on.comm_in # <<>> => w.comm = e.comm
    BY <1>1, <1>2 DEF MeetsNoName, NamesComm
  <2> QED
    BY <1>1, <2>1
<1>6. ~NamesPath(rule) => \A x : ~Missed(x) /\ ~Lost(x)
  BY DEF NamesPath, NoPatternHits
<1>7. ASSUME ~Missed(w), e.path = SubSeq(c.path, 1, PATH_LEN - 1), PATH_LEN - 1 <= Len(c.path),
             c.syscall \in PATH_BEARING_SYSCALLS
      PROVE  ~Missed(e)
  <2>1. /\ PATH_LEN - 1 \in Nat /\ PATH_MATCH_MAX = PATH_LEN - 1 /\ c.path \in Seq(Nat)
    BY RuntimeRulesAssumption, CallsAssumption
  <2>2. CASE rule.match_on.path_prefix = <<>>
    BY <2>2 DEF NoPatternHits
  <2>3. CASE rule.match_on.path_prefix # <<>>
    <3>1. PICK p \in Range(rule.match_on.path_prefix) : p # <<>> /\ starts_with(c.path, p)
      BY <1>1, <1>7, <2>3 DEF NoPatternHits
    <3>2. p \in Seq(Nat)
      <4>1. rule.match_on.path_prefix \in Seq(Text)
        BY DEF Rules
      <4> QED
        BY <3>1, <4>1 DEF Range, Text
    <3>3. Len(p) <= PATH_LEN - 1
      BY <2>1, <3>1, <3>2 DEF dead_rule_reason, unobservable_path_pattern, first_over_limit
    <3>4. starts_with(e.path, p)
      BY <1>7, <2>1, <3>1, <3>2, <3>3 DEF starts_with
    <3> QED
      BY <3>1, <3>4 DEF NoPatternHits
  <2> QED
    BY <2>2, <2>3
<1> HIDE DEF Missed, Lost, Else
<1>8. Hit(w) => Hit(e)
  <2>1. CASE c.syscall \notin PATH_BEARING_SYSCALLS
    <3>1. w.path = e.path
      BY <1>1, <1>3, <2>1
    <3>2. (Missed(w) <=> Missed(e)) /\ (Lost(w) <=> Lost(e))
      BY <3>1 DEF Missed, Lost
    <3> QED
      BY <1>1, <1>3, <1>5, <2>1, <3>2
  <2>2. CASE c.syscall \in PATH_BEARING_SYSCALLS /\ e.path = c.path /\ e.path_truncated = FALSE
    <3>1. w.path = e.path
      BY <1>1, <2>2
    <3>2. (Missed(w) <=> Missed(e)) /\ (Lost(w) <=> Lost(e))
      BY <3>1 DEF Missed, Lost
    <3> QED
      BY <1>1, <1>5, <2>2, <3>2
  <2>3. CASE /\ c.syscall \in PATH_BEARING_SYSCALLS /\ e.path = SubSeq(c.path, 1, PATH_LEN - 1)
             /\ PATH_LEN - 1 <= Len(c.path) /\ e.path_truncated = TRUE
    BY <1>1, <1>5, <1>7, <2>3
  <2>4. CASE e.path = <<>> /\ e.path_truncated = TRUE
    BY <1>5, <2>4
  <2> QED
    BY <1>2, <2>1, <2>2, <2>3, <2>4
<1>9. Hit(e) /\ ~Hit(w) => NamesPath(rule)
  BY <1>5, <1>6
<1> QED
  BY <1>8, <1>9

\* eval.rs, cap_for_mode: a mode that only looks keeps the order of the actions.
LEMMA CapKeepsOrder ==
  ASSUME NEW mode, NEW disabled, NEW a \in DOMAIN rank, NEW b \in DOMAIN rank, rank[a] <= rank[b]
  PROVE  rank[cap_for_mode(mode, disabled, a)] <= rank[cap_for_mode(mode, disabled, b)]
BY DEF rank, cap_for_mode

Hits(spec, event) ==
  {i \in DOMAIN spec.runtime.rules :
     rule_matches(spec.runtime.rules[i], event) \in {"yes", "unknown"}}

\* eval.rs, decide_with: what of a decision the comparison needs.
LEMMA DecisionIs ==
  ASSUME NEW spec, NEW event, NEW pod, selector_match(spec.selector, pod) # "NoMatch",
         spec.runtime.default_action \in DOMAIN rank, spec.runtime.rules \in Seq(Rules)
  PROVE  LET d == decide_with(spec, event, pod, FALSE)
             Cap(action) == cap_for_mode(spec.mode, spec.disabled, action)
         IN  \/ /\ Hits(spec, event) = {} /\ d.rule_id = <<>>
                /\ d.action = Cap(spec.runtime.default_action)
             \/ \E i \in Hits(spec, event) :
                  /\ d.action = Cap(spec.runtime.rules[i].action)
                  /\ d.rule_id = spec.runtime.rules[i].id
                  /\ \A j \in Hits(spec, event) :
                       rank[spec.runtime.rules[j].action] <= rank[spec.runtime.rules[i].action]
<1> DEFINE rules == spec.runtime.rules
           hits == Hits(spec, event)
           top == {i \in hits : \A j \in hits : rank[rules[j].action] <= rank[rules[i].action]}
           m == matched_action_with(spec, event, FALSE)
           d == decide_with(spec, event, pod, FALSE)
<1>1. /\ m.action = IF hits = {} THEN spec.runtime.default_action ELSE rules[Min(top)].action
      /\ m.rule_id = IF hits = {} THEN <<>> ELSE rules[Min(top)].id
      /\ DOMAIN m = {"action", "rule_id", "path_unknown", "container_unknown", "labels_unknown"}
  BY DEF matched_action_with, Hits
<1>2. d.action = cap_for_mode(spec.mode, spec.disabled, m.action) /\ d.rule_id = m.rule_id
  <2> HIDE DEF m
  <2> QED
    BY <1>1 DEF decide_with, m
<1>3. CASE hits = {}
  BY <1>1, <1>2, <1>3
<1>4. CASE hits # {}
  <2>1. hits \subseteq DOMAIN rules
    BY DEF Hits
  <2>2. PICK i : i = Min(top) /\ i \in hits /\ \A j \in hits : rank[rules[j].action] <= rank[rules[i].action]
    <3> HIDE DEF hits, rules
    <3>1. rules \in Seq(Rules)
      BY DEF rules
    <3> QED
      BY <1>4, <2>1, <3>1, StrongestHit
  <2> QED
    BY <1>1, <1>2, <1>4, <2>2
<1> QED
  BY <1>3, <1>4

(* For every policy, every syscall and every pod: what a record lost of its *)
(* path makes the decision of no rule weaker, and a decision weaker than    *)
(* the default's is that of a rule that names a path; only without a name,  *)
(* which the record does not flag, does a rule that names a comm miss, or   *)
(* an Allow meet (event.rs path_truncated, main.rs emit, eval.rs            *)
(* rule_matches), given that the rules are whole; that they are is what     *)
(* AcceptedPolicyLoads says.                                                *)
THEOREM LossOverEnforces ==
  PolicySpec => [](LoadedIsWellFormed => NothingUnderEnforced)
<1>1. PolicyInit => EnteredInv
  BY DEF PolicyInit, EnteredInv
<1>2. ASSUME EnteredInv, LoadedIsWellFormed, stage = "entered", InUtf8, NEW e \in Events
      PROVE  LET whole == Decided(WholeEvent(e))
                 nameless == "comm" \notin The(call).reads
             IN  \/ rank[whole.action] <= rank[Decided(e).action]
                 \/ nameless /\ \E rule \in RulesNamed(whole.rule_id) : NamesComm(rule)
                 \/ /\ whole.rule_id = <<>>
                    /\ \E rule \in RulesNamed(Decided(e).rule_id) :
                         NamesPath(rule) \/ (nameless /\ NamesComm(rule))
  <2>1. PICK c \in Calls : The(call) = c
    BY <1>2 DEF EnteredInv, The
  <2>2. PICK spec \in loaded : The(loaded) = spec
    BY <1>2 DEF EnteredInv, The
  <2>3. e = syscall_event(new_event(c), c.arch)
    BY <1>2, <2>1 DEF Events, emit
  <2>4. PICK w : w = WholeEvent(e) /\ w = Whole(c, e)
    BY <2>1 DEF WholeEvent, Whole
  <2>5. PICK pod : pod = The(identity)
    OBVIOUS
  <2>6. Readable(c)
    BY <1>2, <2>1 DEF InUtf8, Readable
  <2> DEFINE rules == spec.runtime.rules
  <2>7. /\ spec.runtime.default_action \in DOMAIN rank /\ rules \in Seq(Rules)
        /\ \A i \in DOMAIN rules :
             rules[i] \in Range(rules) /\ rules[i] \in Rules /\ ~dead_rule_reason(rules[i])
    BY <1>2 DEF LoadedIsWellFormed, Range
  <2>8. \A i \in Hits(spec, w) \ Hits(spec, e) : MeetsNoName(rules[i], c)
    BY <2>3, <2>4, <2>6, <2>7, LossOnlyAdds DEF Hits
  <2>9. \A i \in Hits(spec, e) \ Hits(spec, w) : NamesPath(rules[i]) \/ MeetsNoName(rules[i], c)
    BY <2>3, <2>4, <2>6, <2>7, LossOnlyAdds DEF Hits
  <2>10. \A i \in DOMAIN rules : rules[i].action \in DOMAIN rank
    BY <2>7 DEF Rules
  <2> DEFINE whole == decide_with(spec, w, pod, FALSE)
             lossy == decide_with(spec, e, pod, FALSE)
             Named(id) == {rule \in Range(rules) : rule.id = id}
  <2> SUFFICES \/ rank[whole.action] <= rank[lossy.action]
               \/ \E rule \in Named(whole.rule_id) : MeetsNoName(rule, c)
               \/ /\ whole.rule_id = <<>>
                  /\ \E rule \in Named(lossy.rule_id) : NamesPath(rule) \/ MeetsNoName(rule, c)
    <3>1. /\ Decided(WholeEvent(e)) = whole /\ Decided(e) = lossy
          /\ \A id : RulesNamed(id) = Named(id)
      BY <2>2, <2>4, <2>5 DEF Decided, RulesNamed
    <3> HIDE DEF whole, lossy, Named
    <3> QED
      BY <2>1, <3>1 DEF MeetsNoName
  <2>11. CASE selector_match(spec.selector, pod) = "NoMatch"
    <3>1. whole.action = "Allow" /\ lossy.action = "Allow"
      BY <2>11 DEF decide_with
    <3>2. rank["Allow"] = 0
      BY DEF rank
    <3>3. rank[whole.action] = 0 /\ rank[lossy.action] = 0
      BY <3>1, <3>2, Zenon
    <3> QED
      BY <3>3
  <2>12. CASE selector_match(spec.selector, pod) # "NoMatch"
    <3> DEFINE Cap(action) == cap_for_mode(spec.mode, spec.disabled, action)
    <3>1. \/ /\ Hits(spec, w) = {} /\ whole.rule_id = <<>>
             /\ whole.action = Cap(spec.runtime.default_action)
          \/ \E i \in Hits(spec, w) : whole.action = Cap(rules[i].action) /\ whole.rule_id = rules[i].id
      BY <2>7, <2>12, DecisionIs
    <3>2. \/ /\ Hits(spec, e) = {} /\ lossy.action = Cap(spec.runtime.default_action)
          \/ \E i \in Hits(spec, e) :
               /\ lossy.action = Cap(rules[i].action) /\ lossy.rule_id = rules[i].id
               /\ \A j \in Hits(spec, e) : rank[rules[j].action] <= rank[rules[i].action]
      BY <2>7, <2>12, DecisionIs
    <3>3. ASSUME NEW a \in DOMAIN rank, NEW b \in DOMAIN rank, rank[a] <= rank[b]
          PROVE  rank[Cap(a)] <= rank[Cap(b)]
      BY <3>3, CapKeepsOrder
    <3>4. ASSUME NEW i \in DOMAIN rules PROVE rules[i] \in Named(rules[i].id)
      BY <2>7
    <3>5. ASSUME NEW event PROVE Hits(spec, event) \subseteq DOMAIN rules
      BY DEF Hits
    <3> HIDE DEF whole, lossy, Cap, Named
    <3>6. CASE Hits(spec, w) = {}
      <4>1. whole.rule_id = <<>> /\ whole.action = Cap(spec.runtime.default_action)
        BY <3>1, <3>6
      <4>2. CASE Hits(spec, e) = {}
        <5>1. rank[spec.runtime.default_action] <= rank[spec.runtime.default_action]
          BY <2>7 DEF rank
        <5> QED
          BY <2>7, <3>2, <3>3, <4>1, <4>2, <5>1
      <4>3. CASE Hits(spec, e) # {}
        <5>1. PICK i \in Hits(spec, e) : lossy.rule_id = rules[i].id
          BY <3>2, <4>3
        <5> QED
          BY <2>9, <3>4, <3>5, <3>6, <4>1, <5>1
      <4> QED
        BY <4>2, <4>3
    <3>7. CASE Hits(spec, w) # {}
      <4>1. PICK j \in Hits(spec, w) : whole.action = Cap(rules[j].action) /\ whole.rule_id = rules[j].id
        BY <3>1, <3>7
      <4>2. CASE j \in Hits(spec, e)
        <5>1. PICK i \in Hits(spec, e) :
               lossy.action = Cap(rules[i].action) /\ rank[rules[j].action] <= rank[rules[i].action]
          BY <3>2, <4>2
        <5> QED
          BY <2>10, <3>3, <3>5, <4>1, <4>2, <5>1
      <4>3. CASE j \notin Hits(spec, e)
        BY <2>8, <3>4, <3>5, <4>1, <4>3
      <4> QED
        BY <4>2, <4>3
    <3> QED
      BY <3>6, <3>7
  <2> QED
    BY <2>11, <2>12
<1>3. EnteredInv => (LoadedIsWellFormed => NothingUnderEnforced)
  BY <1>2 DEF NothingUnderEnforced, InProgress
<1> QED
  BY <1>1, <1>3, EnteredNext, PTL DEF PolicySpec
=============================================================================
