------------------------------- MODULE Waivers -------------------------------
(***************************************************************************)
(* The live waiver table of the agent and the clock that decides which of  *)
(* its waivers are in force.                                               *)
(*                                                                         *)
(* The clock (ferrum-agent/src/clock.rs) is the node's wall clock above a  *)
(* monotonic floor: readings never fall below it within a process, and it  *)
(* is flushed to the file observed-time so that it survives a restart.     *)
(* The wall clock is the environment's: it moves to any time whatever,     *)
(* backwards too.                                                          *)
(*                                                                         *)
(* The table follows exceptions.fsig of the Secret mount                   *)
(* (reload_exceptions_path, the exceptions half of poll_once and the       *)
(* startup load of main.rs); exception_applies of ferrum-policy/src/eval.rs *)
(* reads it at the clock.                                                  *)
(*                                                                         *)
(* Abstractions: time is a small number; a file that is missing, cannot be *)
(* read or does not parse is NoFile.  Each method of the clock holds the   *)
(* state mutex throughout, the file write included, so each is one step; a *)
(* write lands or fails (it is a rename, so never half).  A waiver is      *)
(* well-formed and in scope, and differs from another by its expiry.  A    *)
(* stamp is the number of the rotation while the file is present; "absent" *)
(* and "unreadable" are answers of their own.                              *)
(***************************************************************************)
EXTENDS Integers, FiniteSetsExt

CONSTANTS
    MaxTime,               \* bound: the last time of the model
    MAX_EXCEPTION_DAYS,    \* the longest a waiver may run
    MAX_ANCHOR_SKEW_SECS,  \* how far a floor may be ahead of the wall clock
    PERSIST_STEP_SECS,     \* a reading this far past the last flush flushes
    NoFile

ASSUME TimeAssumption ==
    /\ MaxTime \in Nat
    /\ MAX_EXCEPTION_DAYS \in Nat \ {0}
    /\ MAX_ANCHOR_SKEW_SECS \in Nat
    /\ PERSIST_STEP_SECS \in Nat \ {0}
    /\ NoFile \notin Int

Time == 0 .. MaxTime

MIN_UTC == 0 - PERSIST_STEP_SECS  \* before any time, by more than a step

VARIABLES
    wall,        \* Utc::now()
    floor,       \* FloorState.floor
    persisted,   \* FloorState.persisted
    observed,    \* the file observed-time
    failing,     \* persist_failing
    rolledBack,  \* Agent.clock_rollback
    highest,     \* history: the latest time any reading of this process returned
    flushed,     \* history: the latest time in observed-time, while it is trusted
    maxWall      \* history: the latest the wall clock ever was

clockVars == <<wall, floor, persisted, observed, failing, rolledBack, highest, flushed, maxWall>>

ClockInit ==
    /\ wall \in Time
    /\ floor = MIN_UTC
    /\ persisted = MIN_UTC
    /\ observed = NoFile
    /\ failing = "no"
    /\ rolledBack = "no"
    /\ highest = MIN_UTC
    /\ flushed = MIN_UTC
    /\ maxWall = wall

----------------------------------------------------------------------------
Ceiling == wall + MAX_ANCHOR_SKEW_SECS

\* What now_from returns.
Reading == IF wall < floor THEN floor ELSE wall

\* write_floor: the one place the floor reaches the disk.
WriteFloor(t, lands) ==
    IF lands THEN observed' = t /\ flushed' = t /\ failing' = "no"
             ELSE failing' = "yes" /\ UNCHANGED <<observed, flushed>>

\* now_from: persisted advances whether or not the write lands.
NowFrom(lands) ==
    /\ highest' = IF Reading > highest THEN Reading ELSE highest
    /\ IF wall < floor
       THEN /\ rolledBack' = "yes"
            /\ UNCHANGED <<floor, persisted, observed, flushed, failing>>
       ELSE /\ floor' = wall
            /\ UNCHANGED rolledBack
            /\ IF wall - persisted >= PERSIST_STEP_SECS
               THEN persisted' = wall /\ WriteFloor(wall, lands)
               ELSE UNCHANGED <<persisted, observed, flushed, failing>>
    /\ UNCHANGED <<wall, maxWall>>

\* persist: flush the floor, unless nothing was ever observed.
Persist(lands) ==
    /\ IF floor = MIN_UTC
       THEN UNCHANGED <<persisted, observed, flushed, failing>>
       ELSE persisted' = floor /\ WriteFloor(floor, lands)
    /\ UNCHANGED <<wall, floor, rolledBack, highest, maxWall>>

\* anchor_from_exceptions, given the expiry times of a list: only the ones that
\* validate_exception accepts at the wall clock count, and the result is capped.
AnchorFrom(expiries) ==
    LET live   == {e \in expiries : wall < e /\ e <= wall + MAX_EXCEPTION_DAYS}
        anchor == Max({e - MAX_EXCEPTION_DAYS : e \in live})
        capped == IF anchor < Ceiling THEN anchor ELSE Ceiling
    IN  /\ floor' = IF live # {} /\ capped > floor THEN capped ELSE floor
        /\ UNCHANGED <<wall, persisted, observed, failing, rolledBack, highest, flushed, maxWall>>

\* with_dir_at: a stored floor too far ahead of the wall clock is discarded.
Stored == IF observed # NoFile /\ observed <= Ceiling THEN observed ELSE MIN_UTC

\* Faulty variant: a new process starts without a floor.
BootForgets ==
    /\ floor' = MIN_UTC
    /\ persisted' = MIN_UTC
    /\ failing' = "no"
    /\ rolledBack' = "no"
    /\ highest' = MIN_UTC
    /\ UNCHANGED <<wall, observed, flushed, maxWall>>

\* A new process starts.
Boot ==
    /\ floor' = Stored
    /\ persisted' = Stored
    /\ failing' = "no"
    /\ rolledBack' = "no"
    /\ highest' = MIN_UTC
    /\ flushed' = IF Stored = observed THEN flushed ELSE MIN_UTC
    /\ UNCHANGED <<wall, observed, maxWall>>

\* The environment: the clock is set, the file is lost or edited.
SetClock(t) ==
    /\ t # wall
    /\ wall' = t
    /\ maxWall' = IF t > maxWall THEN t ELSE maxWall
    /\ UNCHANGED <<floor, persisted, observed, failing, rolledBack, highest, flushed>>

EditFile(t) ==
    /\ t # observed
    /\ observed' = t
    /\ flushed' = MIN_UTC
    /\ UNCHANGED <<wall, floor, persisted, failing, rolledBack, highest, maxWall>>

----------------------------------------------------------------------------
\* The types; DateTime::MIN_UTC, "nothing observed", never reaches the file.
ClockTypeOK ==
    /\ wall \in Time
    /\ floor \in MIN_UTC .. MaxTime
    /\ persisted \in MIN_UTC .. MaxTime
    /\ observed \in (MIN_UTC + 1 .. MaxTime) \cup {NoFile}
    /\ failing \in {"no", "yes"}
    /\ rolledBack \in {"no", "yes"}
    /\ highest \in MIN_UTC .. MaxTime
    /\ flushed \in MIN_UTC .. MaxTime
    /\ maxWall \in Time

----------------------------------------------------------------------------
(* The waiver table.                                                       *)

CONSTANTS
    Ids,           \* the waivers that exist
    Expires,       \* when each expires
    MaxRotations,  \* bound: rotations of the Secret
    MaxCrashes     \* bound: deaths of the process

ASSUME WaiverAssumption ==
    /\ Expires \in [Ids -> Time]
    /\ MaxRotations \in Nat
    /\ MaxCrashes \in Nat

Lists == SUBSET Ids

\* What the Secret may carry: a signed list, a file that does not verify or
\* parse, a file that cannot be read, or none.
Secrets == [kind : {"list"}, list : Lists]
               \cup [kind : {"corrupt", "unreadable", "absent"}, list : {{}}]

VARIABLES
    secret,    \* exceptions.fsig of the current snapshot
    rotation,  \* how often the Secret changed
    seen,      \* PollStamps.exceptions
    table,     \* Agent.exceptions
    dropped,   \* exceptions_dropped
    pc,        \* where the poller is; "down": no process
    crashes,
    statAt,    \* history: the rotation that the stat of this tick saw ...
    polled,    \* history: ... and that of the last complete tick
    loadedAs   \* history: the answer a stat gives of the file last loaded

tableVars == <<secret, rotation, seen, table, dropped, pc, crashes, statAt, polled, loadedAs>>
vars == <<clockVars, tableVars>>

Absent == -1      \* the two answers of a stat that are not a stamp
Unreadable == -2

\* exceptions_stamp.
StampOf(s) ==
    CASE s.kind \in {"list", "corrupt"} -> rotation
      [] s.kind = "absent" -> Absent
      [] s.kind = "unreadable" -> Unreadable

\* exception_applies at time t.
Applies(w, t) == t < Expires[w] /\ Expires[w] <= t + MAX_EXCEPTION_DAYS

Init ==
    /\ ClockInit
    /\ secret \in Secrets
    /\ rotation = 0
    /\ seen = Absent
    /\ table = {}
    /\ dropped = "no"
    /\ pc = "down"
    /\ crashes = 0
    /\ statAt = -1
    /\ polled = -1
    /\ loadedAs = Absent

----------------------------------------------------------------------------
\* Agent::new.
Start ==
    /\ pc = "down"
    /\ Boot
    /\ pc' = "load"
    /\ UNCHANGED <<secret, rotation, seen, table, dropped, crashes, statAt, polled, loadedAs>>

\* Faulty variant: a list that cannot be loaded leaves the last one in place.
TableAfterErrorKept == table

\* Every failure drops all waivers: a stale list is never kept.
TableAfterError == {}

\* reload_exceptions_path.
Reload(readFails) ==
    /\ IF readFails \/ secret.kind \in {"corrupt", "unreadable"}
       THEN /\ table' = TableAfterError
            /\ dropped' = "yes"
            /\ UNCHANGED clockVars
       ELSE /\ table' = secret.list
            /\ dropped' = "no"
            /\ AnchorFrom({Expires[w] : w \in secret.list})
    /\ loadedAs' = StampOf(secret)
    /\ UNCHANGED <<secret, rotation, seen, crashes, statAt>>

\* main.rs loads the table once before the poller starts.
StartLoad ==
    /\ pc = "load"
    /\ \E readFails \in BOOLEAN : Reload(readFails)
    /\ pc' = "idle"
    /\ UNCHANGED polled

\* One tick of poll_once: stat, reload if the answer changed, flush the floor.
PollStat ==
    /\ pc = "idle"
    /\ statAt' = rotation
    /\ seen' = StampOf(secret)
    /\ pc' = IF StampOf(secret) # seen THEN "reload" ELSE "flush"
    /\ UNCHANGED <<clockVars, secret, rotation, table, dropped, crashes, polled, loadedAs>>

PollReload ==
    /\ pc = "reload"
    /\ \E readFails \in BOOLEAN : Reload(readFails)
    /\ pc' = "flush"
    /\ UNCHANGED polled

PollFlush ==
    /\ pc = "flush"
    /\ \E lands \in BOOLEAN : Persist(lands)
    /\ polled' = statAt
    /\ pc' = "idle"
    /\ UNCHANGED <<secret, rotation, seen, table, dropped, crashes, statAt, loadedAs>>

\* An event is decided, between two ticks (the tick holds the write guard).
Decide ==
    /\ pc = "idle"
    /\ \E lands \in BOOLEAN : NowFrom(lands)
    /\ UNCHANGED tableVars

----------------------------------------------------------------------------
RotateSecret(s) ==
    /\ rotation < MaxRotations
    /\ s # secret
    /\ secret' = s
    /\ rotation' = rotation + 1
    /\ UNCHANGED <<clockVars, seen, table, dropped, pc, crashes, statAt, polled, loadedAs>>

Crash ==
    /\ pc # "down"
    /\ crashes < MaxCrashes
    /\ crashes' = crashes + 1
    /\ pc' = "down"
    /\ seen' = Absent
    /\ table' = {}
    /\ dropped' = "no"
    /\ statAt' = -1
    /\ polled' = -1
    /\ loadedAs' = Absent
    /\ UNCHANGED <<clockVars, secret, rotation>>

Environment ==
    \/ \E t \in Time : SetClock(t) /\ UNCHANGED tableVars
    \/ \E t \in Time \cup {NoFile} : pc = "down" /\ EditFile(t) /\ UNCHANGED tableVars
    \/ \E s \in Secrets : RotateSecret(s)
    \/ Crash

AgentStep == Start \/ StartLoad \/ PollStat \/ PollReload \/ PollFlush \/ Decide

Next == AgentStep \/ Environment

Spec == Init /\ [][Next]_vars

----------------------------------------------------------------------------
\* The types of the waiver table and of the clock below it; persist never writes
\* a floor that nothing was observed for.
TypeOK ==
    /\ ClockTypeOK
    /\ secret \in Secrets
    /\ rotation \in 0 .. MaxRotations
    /\ seen \in -2 .. MaxRotations
    /\ table \in Lists
    /\ dropped \in {"no", "yes"}
    /\ pc \in {"down", "load", "idle", "reload", "flush"}
    /\ crashes \in 0 .. MaxCrashes
    /\ statAt \in -1 .. MaxRotations
    /\ polled \in -1 .. MaxRotations
    /\ loadedAs \in -2 .. MaxRotations

\* Within a process no waiver comes back: once a reading has found it expired,
\* no later reading finds it in force, wherever the wall clock is moved.
ExpiredStaysExpired ==
    \A w \in Ids : Expires[w] <= highest => ~Applies(w, Reading)

\* Across a restart: a waiver that had expired when the floor last reached the
\* disk stays expired, unless the file was lost or edited, or the wall clock was
\* then so far behind it that it was discarded.
FlushedExpiryIsDurable ==
    pc # "down" => \A w \in Ids : Expires[w] <= flushed => ~Applies(w, Reading)

\* No file and no list pushes the floor past where the clock has been by more
\* than the skew: a floor in the future would expire every live waiver for good.
FloorNotInFuture == floor <= maxWall + MAX_ANCHOR_SKEW_SECS

\* From its first tick on, a process that reports no failed flush would lose less
\* than one persist step of its floor if it died between two ticks.
UnflushedIsBounded ==
    pc = "idle" /\ polled # -1 /\ failing = "no" /\ floor # MIN_UTC =>
        observed # NoFile /\ floor - observed < PERSIST_STEP_SECS

\* Expiry holds in a process and across its restarts, and only the clock's own
\* course brings it about.
ExpiryHolds ==
    /\ TypeOK
    /\ ExpiredStaysExpired
    /\ FlushedExpiryIsDurable
    /\ FloorNotInFuture
    /\ UnflushedIsBounded

\* After a complete tick over the current Secret, whatever it carries, the table is
\* the list in it (none, if there is no file), or empty and said to be dropped.  One
\* case is excepted, and it is the code's: a file that is absent, or that will not
\* stat, leaves the table alone when that answer is the one the poller remembers and
\* the last load read a file that answered otherwise.  So it is when the file goes
\* between the load at startup and the first tick, and when it comes between the
\* stat of a tick and its read and goes again before the next.
TableFollowsSecret ==
    pc = "idle" /\ polled = rotation =>
        \/ dropped = "yes" /\ table = {}
        \/ dropped = "no" /\ secret.kind \in {"list", "absent"} /\ table = secret.list
        \/ secret.kind \in {"absent", "unreadable"} /\ loadedAs # seen

----------------------------------------------------------------------------
(* What the comments say, and the code does not do. *)

\* "a vanished exceptions file clears waivers" (lib.rs, poll_bundle): after a
\* complete tick over a Secret without exceptions.fsig no waiver is in force.
VanishedClearsWaivers ==
    pc = "idle" /\ polled = rotation /\ secret.kind = "absent" => table = {}

\* "any live exception with expiresAt implies the real time is no earlier than
\* expiresAt - 90d" (clock.rs): a list that was loaded holds the floor at the
\* bound it implies, up to the skew above the wall clock.
SignedAnchorHolds ==
    pc = "flush" /\ dropped = "no" => \A w \in table :
        LET implied == Expires[w] - MAX_EXCEPTION_DAYS
        IN  floor >= (IF implied < Ceiling THEN implied ELSE Ceiling)
=============================================================================
