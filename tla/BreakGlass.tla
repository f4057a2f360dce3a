----------------------------- MODULE BreakGlass -----------------------------
(***************************************************************************)
(* Break-glass in the webhook: ferrum-admission/src/break_glass.rs with    *)
(* the grant and the journal of ferrum-breakglass (lib.rs, journal.rs).    *)
(*                                                                         *)
(* A poll reads the mount and reconciles the grant in force with it; every *)
(* transition is an entry of a hash chain in a file.  The poller is one    *)
(* thread; the reviews of Admission.tla read `active` between any two of   *)
(* its steps.  File operations fail, the process dies, the mount rotates   *)
(* and the wall clock moves at any step.                                   *)
(*                                                                         *)
(* Abstracted: a hash is a number no other entry has; a line of the file   *)
(* is an entry or "garbled", and in either case the events whose text it   *)
(* holds in full; the text fields of a grant are one flag.  Counters that  *)
(* only feed metrics are left out.                                         *)
(***************************************************************************)
EXTENDS Integers, Sequences, FiniteSets

CONSTANTS
  MaxTime,              \* bound on the wall clock
  Grant,                \* grants someone signed
  IssuedAt, ExpiresAt,  \* their windows, functions of Grant
  Attributed,           \* grants whose text fields pass check_invariants
  MAX_GRANT_SECONDS     \* ceiling on a window

ASSUME BreakGlassAssumption ==
  /\ MaxTime \in Nat
  /\ IssuedAt \in [Grant -> Int] /\ ExpiresAt \in [Grant -> Int]
  /\ Attributed \subseteq Grant
  /\ MAX_GRANT_SECONDS \in Nat

VARIABLES
  clock,       \* the wall clock the threads of the webhook read with Utc::now()
  mount,       \* grant.json and grant.sig: [raw, sig], "none" when unreadable
  active,      \* BreakGlass.active: {} or {g}
  rejection,   \* BreakGlass.last_rejection: {} or {<<raw, error>>}
  broken,      \* BreakGlass.journal_broken is Some
  file,        \* the journal on disk, a sequence of lines
  synced,      \* how many of its lines an fsync covered
  chain,       \* Journal.next_seq and Journal.head in memory
  hashes,      \* how many entries were hashed, to draw a fresh hash
  poller,      \* the poll in progress
  proc         \* "starting" up to the end of the first poll, "up", "down"

bgVars == <<mount, active, rejection, broken, file, synced, chain, hashes, poller, proc>>
journalVars == <<file, synced, chain, hashes, broken>>

\* The clock moves to any reading, back as well as forward.
SetClock == \E t \in 0..MaxTime : t # clock /\ clock' = t

GENESIS_HASH == 0
Idle == [pc |-> "idle", now |-> 0, raw |-> "none", grant |-> "none",
         event |-> "none", then |-> "idle"]
NoMaterial == [raw |-> "none", sig |-> "none"]

-----------------------------------------------------------------------------
(* ferrum-breakglass: the grant and the chain.                             *)

covers(g, now) == IssuedAt[g] <= now /\ now < ExpiresAt[g]

check_invariants(g) ==
  /\ g \in Attributed
  /\ ExpiresAt[g] > IssuedAt[g]
  /\ ExpiresAt[g] - IssuedAt[g] <= MAX_GRANT_SECONDS

\* The signature covers the raw bytes; raw and sig are read one after the other.
verify_grant(raw, sig, now) ==
  CASE raw # sig              -> "signature"
    [] OTHER ->
       CASE ~check_invariants(raw) -> "invariants"
         [] OTHER -> IF now < IssuedAt[raw] THEN "early"
                     ELSE IF now >= ExpiresAt[raw] THEN "expired" ELSE "ok"

\* Decode and check a whole chain: every line an entry, numbering and links.
verify_lines(lines) ==
  \A i \in DOMAIN lines :
    /\ lines[i].kind = "entry"
    /\ lines[i].seq = i - 1
    /\ lines[i].prev = (IF i = 1 THEN GENESIS_HASH ELSE lines[i - 1].hash)

\* An entry carries the number and the link the chain has in memory, and a hash of
\* its own; whatever runs into it or cuts it short makes a line no reader decodes.
Entry(garbled, texts, newline) ==
  [kind |-> IF garbled THEN "garbled" ELSE "entry",
   seq |-> chain.next_seq, prev |-> chain.head, hash |-> hashes + 1,
   texts |-> texts, newline |-> newline]

\* What one writeln! can leave behind: nothing, a short write, the text without
\* its newline (a second write), or the whole line.  Text appended after a line
\* without a newline runs into that line.
AfterWrite(event, g, amount) ==
  LET runsOn == file # <<>> /\ ~file[Len(file)].newline
      last == file[Len(file)]
      line == Entry(runsOn \/ amount = "part",
                    (IF runsOn THEN last.texts ELSE {})
                      \cup (IF amount = "part" THEN {} ELSE {<<event, g>>}),
                    amount = "whole")
  IN  IF amount = "nothing" THEN file
      ELSE Append(IF runsOn THEN SubSeq(file, 1, Len(file) - 1) ELSE file, line)

-----------------------------------------------------------------------------
BreakGlassInit ==
  /\ mount = NoMaterial /\ active = {} /\ rejection = {} /\ broken = FALSE
  /\ file = <<>> /\ synced = 0 /\ hashes = 0
  /\ chain = [next_seq |-> 0, head |-> GENESIS_HASH]
  /\ poller = Idle /\ proc = "starting"

\* The poll is over; the first one ends the start of the process.
PollDone == poller' = Idle /\ proc' = "up"

\* The next entry to write, and where the poll goes on after it.
ToRecord(event, g, then) ==
  poller' = [poller EXCEPT !.pc = "record", !.event = event, !.grant = g, !.then = then]

\* poll: a held grant whose window closed is cleared first, then journalled.
PollStart ==
  /\ proc \in {"starting", "up"} /\ poller.pc = "idle"
  /\ \/ /\ \E g \in active : ~covers(g, clock)
        /\ active' = {}
        /\ \E g \in active :
             poller' = [Idle EXCEPT !.pc = "record", !.now = clock, !.event = "expired",
                                    !.grant = g, !.then = "read"]
     \/ /\ \A g \in active : covers(g, clock)
        /\ poller' = [Idle EXCEPT !.pc = "read", !.now = clock]
        /\ UNCHANGED active
  /\ UNCHANGED <<clock, mount, rejection, proc, journalVars>>

\* Faulty variant: unreadable material is taken for a mount mid-rotation.
MaterialGoneIgnored ==
  /\ PollDone
  /\ UNCHANGED <<clock, mount, active, rejection, journalVars>>

\* read_material answers None: what was in force is cleared, then journalled.
MaterialGone ==
  /\ active' = {} /\ rejection' = {}
  /\ \/ active = {} /\ PollDone
     \/ \E g \in active : ToRecord("revoked", g, "idle") /\ UNCHANGED proc
  /\ UNCHANGED <<clock, mount, journalVars>>

\* read_material: grant.json.
ReadGrant ==
  /\ poller.pc = "read"
  /\ \/ mount.raw = "none" /\ MaterialGone
     \/ /\ mount.raw # "none"
        /\ poller' = [poller EXCEPT !.pc = "readSignature", !.raw = mount.raw]
        /\ UNCHANGED <<clock, mount, active, rejection, proc, journalVars>>

\* Faulty variant: the grant takes effect when it is read, before its entry.
AcceptedEarly(g) ==
  /\ rejection' = {}
  /\ active' = {g}
  /\ IF active = {g} THEN PollDone ELSE ToRecord("activated", g, "idle") /\ UNCHANGED proc

\* The grant verified: it is in force already, replaces another one, or is new.
Accepted(g) ==
  /\ rejection' = {}
  /\ \/ active = {g} /\ PollDone /\ UNCHANGED active
     \/ /\ active # {g} /\ active # {}
        /\ active' = {}
        /\ \E old \in active : ToRecord("revoked", old, "activate")
        /\ UNCHANGED proc
     \/ active = {} /\ ToRecord("activated", g, "idle") /\ UNCHANGED <<active, proc>>

\* The grant was refused: journalled once for these bytes and this reason.  What
\* is in force stays in force.
Refused(raw, error) ==
  /\ rejection' = {<<raw, error>>}
  /\ IF rejection = {<<raw, error>>} THEN PollDone
     ELSE ToRecord("rejected", "none", "idle") /\ UNCHANGED proc
  /\ UNCHANGED active

\* read_material: grant.sig, then verify_grant on what the two reads gave.
ReadSignature ==
  /\ poller.pc = "readSignature"
  /\ \/ mount.sig = "none" /\ MaterialGone
     \/ /\ mount.sig # "none"
        /\ LET verdict == verify_grant(poller.raw, mount.sig, poller.now)
           IN  IF verdict = "ok" THEN Accepted(poller.raw) ELSE Refused(poller.raw, verdict)
        /\ UNCHANGED <<clock, mount, journalVars>>

\* After an entry: on to what the poll does next.  Only an activation looks at
\* whether the entry was written.
AfterRecord(written) ==
  CASE poller.event = "activated" ->
         IF written THEN poller' = [poller EXCEPT !.pc = "enforce off"] /\ UNCHANGED proc
         ELSE PollDone
    [] OTHER ->
       CASE poller.then = "activate" ->
              ToRecord("activated", poller.raw, "idle") /\ UNCHANGED proc
         [] poller.then = "read" -> poller' = [poller EXCEPT !.pc = "read"] /\ UNCHANGED proc
         [] OTHER -> PollDone

\* Journal::append succeeds: written and synced, the chain in memory advances.
RecordOk ==
  /\ poller.pc = "record"
  /\ file' = AfterWrite(poller.event, poller.grant, "whole")
  /\ synced' = Len(file')
  /\ chain' = [next_seq |-> chain.next_seq + 1, head |-> hashes + 1]
  /\ hashes' = hashes + 1 /\ broken' = FALSE
  /\ AfterRecord(TRUE)
  /\ UNCHANGED <<clock, mount, active, rejection>>

\* Journal::append fails in open, in write or in fsync: the chain in memory stays
\* where it was, whatever reached the file.
RecordFails ==
  /\ poller.pc = "record"
  /\ \E amount \in {"nothing", "part", "text", "whole"} :
       file' = AfterWrite(poller.event, poller.grant, amount)
  /\ hashes' = hashes + 1 /\ broken' = TRUE
  /\ AfterRecord(FALSE)
  /\ UNCHANGED <<clock, mount, active, rejection, synced, chain>>

\* The grant comes into force.
Activate ==
  /\ poller.pc = "enforce off"
  /\ active' = {poller.grant}
  /\ PollDone
  /\ UNCHANGED <<clock, mount, rejection, journalVars>>

PollerStep == PollStart \/ ReadGrant \/ ReadSignature \/ RecordOk \/ Activate

-----------------------------------------------------------------------------
(* The environment.                                                        *)

\* The kubelet swaps the mounted Secret for any other material.
RotateGrant ==
  /\ \E m \in {NoMaterial} \cup [raw : Grant, sig : Grant] : m # mount /\ mount' = m
  /\ UNCHANGED <<clock, active, rejection, poller, proc, journalVars>>

\* The process dies, in the middle of a write too; what no fsync covered may go.
Crash ==
  /\ proc # "down" /\ proc' = "down"
  /\ \E after \in {file} \cup
                  (IF poller.pc = "record"
                   THEN {AfterWrite(poller.event, poller.grant, a) : a \in {"part", "text", "whole"}}
                   ELSE {}) :
       \E n \in synced..Len(after) : file' = SubSeq(after, 1, n)
  /\ active' = {} /\ rejection' = {} /\ broken' = FALSE /\ poller' = Idle
  /\ UNCHANGED <<clock, mount, synced, chain, hashes>>

\* The file is opened for append and fsynced: what it holds is on disk from then on.
probe_writable == synced' = Len(file)

\* Journal::open: the whole chain must verify, and the next entry goes on from its last.
OpenJournal ==
  /\ verify_lines(file)
  /\ chain' = [next_seq |-> Len(file),
               head |-> IF file = <<>> THEN GENESIS_HASH ELSE file[Len(file)].hash]
  /\ probe_writable

\* arm at the next start: without a journal it can open the process exits and the
\* kubelet tries again.
Arm ==
  /\ proc = "down" /\ OpenJournal
  /\ proc' = "starting"
  /\ UNCHANGED <<clock, mount, active, rejection, broken, file, hashes, poller>>

-----------------------------------------------------------------------------
(* Properties.                                                             *)

\* Grants whose activation is in the journal for good, as far as its bytes go.
Recorded == {g \in Grant : \E i \in 1..synced : <<"activated", g>> \in file[i].texts}

Susp == INSTANCE Suspension WITH suspended <- active, recorded <- Recorded

\* break_glass.rs, poll: "there is no ordering in which enforcement is suspended
\* and the record of it is not yet written".  Break-glass implements Suspension:
\* one grant at a time, recorded before it takes effect, records never lost, under
\* every failing write, crash, rotation and move of the clock.
RefinesSuspension == Susp!Spec

\* break_glass.rs, poll: a grant removed from the mount, or replaced there by another
\* good one, stops suspending enforcement, whether or not its record can be written.
\* (Material that is refused leaves it in force: Refused.)
WithdrawnGrantEnds ==
  \A g \in Grant :
    LET replaced ==
          \/ mount = NoMaterial
          \/ \E h \in Grant \ {g} : mount = [raw |-> h, sig |-> h] /\ verify_grant(h, h, clock) = "ok"
    IN  (active = {g} /\ replaced) ~> (active # {g} \/ ~replaced)

-----------------------------------------------------------------------------
(* What the comments say, and the code does not do.                        *)

\* "There is no ordering in which enforcement is suspended and the record of it is
\* not yet written" (break_glass.rs, poll), with a record read as journal.rs reads
\* one: an entry of a chain that verifies.
SuspensionIsReadable ==
  \A g \in active : verify_lines(file) /\ \E i \in DOMAIN file : <<"activated", g>> \in file[i].texts

=============================================================================
