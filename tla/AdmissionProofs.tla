--------------------------- MODULE AdmissionProofs ---------------------------
(***************************************************************************)
(* Proof that break-glass in the webhook implements Suspension, for any    *)
(* grants, windows and number of failures, crashes and rotations, beside   *)
(* the other threads of the process; and that nothing gets past an         *)
(* enforcing policy but under a waiver or such a grant, for any programs,  *)
(* objects, waivers and labels.                                            *)
(***************************************************************************)
EXTENDS Admission, TLAPS

----------------------------------------------------------------------------
(* The inductive invariant. *)

Events == {"none", "activated", "expired", "revoked", "rejected"}
Grants == Grant \cup {"none"}

Line == [kind : {"entry", "garbled"}, seq : Nat, prev : Nat, hash : Nat,
         texts : SUBSET (Events \X Grants), newline : BOOLEAN]

\* What an fsync covered is in the file.
JournalInv ==
    /\ file \in Seq(Line)
    /\ synced \in Nat /\ synced <= Len(file)
    /\ chain \in [next_seq : Nat, head : Nat]
    /\ hashes \in Nat

PollerType ==
    /\ mount \in [raw : Grants, sig : Grants]
    /\ poller \in [pc : {"idle", "read", "readSignature", "record", "enforce off"},
                   now : {poller.now}, raw : Grants, grant : Grants, event : Events,
                   then : {"idle", "read", "activate"}]
    /\ poller.pc = "readSignature" => poller.raw \in Grant

\* One grant at a time; none is in force while an activation is being recorded, and
\* the one about to come into force is on record.
ActiveInv ==
    /\ active = {} \/ \E g \in Grant : active = {g}
    /\ poller.pc = "record" /\ poller.event = "activated" => active = {} /\ poller.grant \in Grant
    /\ poller.pc = "record" /\ poller.event # "activated" /\ poller.then = "activate" =>
          active = {} /\ poller.raw \in Grant
    /\ poller.pc = "enforce off" => active = {} /\ poller.grant \in Recorded

BgInv == JournalInv /\ PollerType /\ ActiveInv

\* A step of break-glass, or one that leaves it alone.
BgNext == PollerStep \/ RecordFails \/ RotateGrant \/ Crash \/ Arm

----------------------------------------------------------------------------
(* Lemmas about the journal. *)

\* A write, however much of it reaches the file, takes no text out of it, and adds
\* no text but its own to the lines that were there.
LEMMA WriteKeepsTexts ==
    ASSUME JournalInv, NEW e \in Events, NEW g \in Grants,
           NEW a \in {"nothing", "part", "text", "whole"}
    PROVE  LET f == AfterWrite(e, g, a) IN
           /\ f \in Seq(Line)
           /\ Len(f) >= Len(file)
           /\ \A i \in 1..Len(file) : /\ file[i].texts \subseteq f[i].texts
                                      /\ f[i].texts \subseteq file[i].texts \cup {<<e, g>>}
           /\ a = "whole" => Len(f) > 0 /\ <<e, g>> \in f[Len(f)].texts
<1> DEFINE f == AfterWrite(e, g, a)
           runsOn == file # <<>> /\ ~file[Len(file)].newline
           old == IF runsOn THEN file[Len(file)].texts ELSE {}
           new == IF a = "part" THEN {} ELSE {<<e, g>>}
           line == [kind |-> IF runsOn \/ a = "part" THEN "garbled" ELSE "entry",
                    seq |-> chain.next_seq, prev |-> chain.head, hash |-> hashes + 1,
                    texts |-> old \cup new, newline |-> a = "whole"]
           kept == IF runsOn THEN SubSeq(file, 1, Len(file) - 1) ELSE file
<1>1. f = IF a = "nothing" THEN file ELSE Append(kept, line)
  BY DEF AfterWrite, Entry
<1>2. file \in Seq(Line) /\ Len(file) \in Nat
  BY DEF JournalInv
<1>3. runsOn => Len(file) > 0 /\ file[Len(file)] \in Line
  BY <1>2
<1>4. line \in Line
  <2>1. old \subseteq Events \X Grants
    BY <1>3 DEF Line
  <2>2. new \subseteq Events \X Grants
    OBVIOUS
  <2> HIDE DEF old, new
  <2> QED
    BY <2>1, <2>2 DEF JournalInv, Line
<1>5. line.texts = old \cup new
  OBVIOUS
<1> HIDE DEF line
<1>6. kept \in Seq(Line) /\ Len(kept) = IF runsOn THEN Len(file) - 1 ELSE Len(file)
  BY <1>2, <1>3
<1>7. \A i \in 1..Len(kept) : kept[i] = file[i]
  BY <1>2, <1>3
<1>8. CASE a = "nothing"
  BY <1>1, <1>2, <1>8
<1>9. CASE a # "nothing"
  <2> HIDE DEF kept
  <2>1. f = Append(kept, line)
    BY <1>1, <1>9
  <2> HIDE DEF f
  <2>2. f \in Seq(Line) /\ Len(f) = Len(kept) + 1
    BY <1>4, <1>6, <2>1
  <2>3. f[Len(f)] = line /\ \A i \in 1..Len(kept) : f[i] = file[i]
    BY <1>4, <1>6, <1>7, <2>1
  <2>4. ASSUME NEW i \in 1..Len(file)
        PROVE  /\ file[i].texts \subseteq f[i].texts
               /\ f[i].texts \subseteq file[i].texts \cup {<<e, g>>}
    <3>1. CASE i \in 1..Len(kept)
      BY <2>3, <3>1
    <3>2. CASE i \notin 1..Len(kept)
      <4>1. runsOn /\ i = Len(file) /\ i = Len(f)
        BY <1>2, <1>6, <2>2, <3>2
      <4>2. f[i].texts = file[i].texts \cup new
        BY <1>5, <2>3, <4>1
      <4> QED
        BY <4>2
    <3> QED
      BY <3>1, <3>2
  <2>5. a = "whole" => <<e, g>> \in line.texts
    BY <1>5
  <2> QED
    BY <1>2, <1>6, <2>2, <2>3, <2>4, <2>5 DEF f
<1> QED
  BY <1>8, <1>9

\* A file that keeps the texts of the synced lines keeps what is on record.
LEMMA RecordedGrows ==
    ASSUME JournalInv, JournalInv', synced' >= synced,
           \A i \in 1..synced : file[i].texts \subseteq file'[i].texts
    PROVE  Recorded \subseteq Recorded'
<1>1. synced \in Nat /\ synced' \in Nat
  BY DEF JournalInv
<1>2. 1..synced \subseteq 1..synced'
  BY <1>1
<1> QED
  BY <1>2 DEF Recorded

\* A file whose synced lines gained no activation records no more than before.
LEMMA RecordedStays ==
    ASSUME JournalInv, JournalInv', synced' = synced,
           \A i \in 1..synced : file[i].texts \subseteq file'[i].texts,
           NEW e, NEW g, e # "activated",
           \A i \in 1..synced : file'[i].texts \subseteq file[i].texts \cup {<<e, g>>}
    PROVE  Recorded' = Recorded
  BY DEF Recorded, JournalInv

----------------------------------------------------------------------------
(* One lemma per kind of step: the invariant is kept, and Suspension takes a *)
(* step or none.                                                             *)

SuspStep == Susp!Next \/ UNCHANGED <<active, Recorded>>

\* Steps that leave the journal alone and clear what is in force, or leave it.
LEMMA JournalUntouched ==
    ASSUME JournalInv, UNCHANGED journalVars
    PROVE  JournalInv' /\ Recorded' = Recorded
  BY DEF JournalInv, Recorded, journalVars

\* Lifting a suspension, or leaving it, with the records as they are.
LEMMA LiftOrNot ==
    ASSUME Recorded' = Recorded, active' = {} \/ active' = active
    PROVE  SuspStep
  BY DEF SuspStep, Susp!Next, Susp!Lift

\* The poller with an entry to write next.
LEMMA ToRecordType ==
    ASSUME PollerType, NEW e \in Events, NEW g \in Grants, NEW then \in {"idle", "read", "activate"},
           ToRecord(e, g, then), mount' = mount
    PROVE  /\ PollerType'
           /\ poller'.pc = "record" /\ poller'.event = e /\ poller'.grant = g
           /\ poller'.then = then /\ poller'.raw = poller.raw
  BY DEF PollerType, ToRecord

\* A poll begins: a grant past its time is lifted before its end is recorded.
LEMMA PollStartKeeps ==
    ASSUME BgInv, PollStart
    PROVE  BgInv' /\ SuspStep
<1>1. JournalInv' /\ Recorded' = Recorded
  BY JournalUntouched DEF BgInv, PollStart
<1>2. CASE \E g \in active : ~covers(g, clock)
  <2>1. PICK g \in active : 
           poller' = [Idle EXCEPT !.pc = "record", !.now = clock, !.event = "expired",
                                  !.grant = g, !.then = "read"]
    BY <1>2 DEF PollStart
  <2>2. active' = {} /\ g \in Grant /\ UNCHANGED mount
    BY <1>2, <2>1 DEF BgInv, ActiveInv, PollStart
  <2>3. PollerType' /\ ActiveInv'
    BY <2>1, <2>2 DEF BgInv, PollerType, ActiveInv, Idle, Grants, Events
  <2> QED
    BY <1>1, <2>2, <2>3, LiftOrNot DEF BgInv
<1>3. CASE \A g \in active : covers(g, clock)
  <2>1. poller' = [Idle EXCEPT !.pc = "read", !.now = clock] /\ UNCHANGED <<active, mount>>
    BY <1>3 DEF PollStart
  <2>2. PollerType' /\ ActiveInv'
    BY <2>1 DEF BgInv, PollerType, ActiveInv, Idle, Grants, Events
  <2> QED
    BY <1>1, <2>1, <2>2, LiftOrNot DEF BgInv
<1> QED
  BY <1>2, <1>3

\* read_material finds nothing.
LEMMA MaterialGoneKeeps ==
    ASSUME BgInv, MaterialGone
    PROVE  BgInv' /\ SuspStep
<1>1. JournalInv' /\ Recorded' = Recorded
  BY JournalUntouched DEF BgInv, MaterialGone
<1>2. active' = {} /\ UNCHANGED mount
  BY DEF MaterialGone
<1>3. CASE PollDone
  <2>1. PollerType' /\ ActiveInv'
    BY <1>2, <1>3 DEF BgInv, PollerType, ActiveInv, PollDone, Idle, Grants, Events
  <2> QED
    BY <1>1, <1>2, <2>1, LiftOrNot DEF BgInv
<1>4. CASE \E g \in active : ToRecord("revoked", g, "idle")
  <2>1. PICK g \in active : ToRecord("revoked", g, "idle")
    BY <1>4
  <2>2. g \in Grant
    BY <2>1 DEF BgInv, ActiveInv
  <2>3. PollerType' /\ ActiveInv'
    BY <1>2, <2>1, <2>2, ToRecordType DEF BgInv, PollerType, ActiveInv, Grants, Events
  <2> QED
    BY <1>1, <1>2, <2>3, LiftOrNot DEF BgInv
<1> QED
  BY <1>3, <1>4 DEF MaterialGone

\* The grant is read; one that is gone is lifted.
LEMMA ReadGrantKeeps ==
    ASSUME BgInv, ReadGrant
    PROVE  BgInv' /\ SuspStep
<1>1. CASE MaterialGone
  BY <1>1, MaterialGoneKeeps
<1>2. CASE ~MaterialGone
  <2>1. JournalInv' /\ Recorded' = Recorded
    BY <1>2, JournalUntouched DEF BgInv, ReadGrant
  <2>2. PollerType' /\ ActiveInv'
    BY <1>2 DEF BgInv, PollerType, ActiveInv, ReadGrant, Grants
  <2>3. active' = active
    BY <1>2 DEF ReadGrant
  <2> QED
    BY <2>1, <2>2, <2>3, LiftOrNot DEF BgInv
<1> QED
  BY <1>1, <1>2

\* The signature is read: only a grant that verifies is to be recorded.
LEMMA ReadSignatureKeeps ==
    ASSUME BgInv, ReadSignature
    PROVE  BgInv' /\ SuspStep
<1>1. CASE MaterialGone
  BY <1>1, MaterialGoneKeeps
<1>2. CASE ~MaterialGone
  <2>1. JournalInv' /\ Recorded' = Recorded
    BY <1>2, JournalUntouched DEF BgInv, ReadSignature
  <2>2. poller.raw \in Grant /\ UNCHANGED mount
    BY <1>2 DEF BgInv, PollerType, ReadSignature
  <2>3. Accepted(poller.raw) \/ \E error : Refused(poller.raw, error)
    BY <1>2 DEF ReadSignature
  <2>4. CASE Accepted(poller.raw)
    <3>1. CASE PollDone /\ UNCHANGED active
      <4>1. PollerType' /\ ActiveInv'
        BY <2>2, <3>1 DEF BgInv, PollerType, ActiveInv, PollDone, Idle, Grants, Events
      <4> QED
        BY <2>1, <3>1, <4>1, LiftOrNot DEF BgInv
    <3>2. CASE active' = {} /\ \E old \in active : ToRecord("revoked", old, "activate")
      <4>1. PICK old \in active : ToRecord("revoked", old, "activate")
        BY <3>2
      <4>2. old \in Grant
        BY <4>1 DEF BgInv, ActiveInv
      <4>3. PollerType' /\ ActiveInv'
        BY <2>2, <3>2, <4>1, <4>2, ToRecordType DEF BgInv, ActiveInv, Grants, Events
      <4> QED
        BY <2>1, <3>2, <4>3, LiftOrNot DEF BgInv
    <3>3. CASE active = {} /\ ToRecord("activated", poller.raw, "idle") /\ UNCHANGED active
      <4>1. PollerType' /\ ActiveInv'
        BY <2>2, <3>3, ToRecordType DEF BgInv, ActiveInv, Grants, Events
      <4> QED
        BY <2>1, <3>3, <4>1, LiftOrNot DEF BgInv
    <3> QED
      BY <2>4, <3>1, <3>2, <3>3 DEF Accepted
  <2>5. ASSUME NEW error, Refused(poller.raw, error)
        PROVE  BgInv' /\ SuspStep
    <3>1. ASSUME PollDone
          PROVE  PollerType' /\ ActiveInv'
      BY <2>2, <2>5, <3>1 DEF BgInv, PollerType, ActiveInv, Refused, PollDone, Idle, Grants, Events
    <3>2. ASSUME ToRecord("rejected", "none", "idle")
          PROVE  PollerType' /\ ActiveInv'
      BY <2>2, <2>5, <3>2, ToRecordType DEF BgInv, ActiveInv, Refused, Grants, Events
    <3>3. PollerType' /\ ActiveInv'
      BY <2>5, <3>1, <3>2 DEF Refused
    <3> QED
      BY <2>1, <2>5, <3>3, LiftOrNot DEF BgInv, Refused
  <2> QED
    BY <2>3, <2>4, <2>5
<1> QED
  BY <1>1, <1>2

\* Where the poll goes on after an entry; an activation goes on only if it was written.
LEMMA AfterRecordKeeps ==
    ASSUME BgInv, poller.pc = "record", NEW written \in BOOLEAN, AfterRecord(written),
           UNCHANGED <<mount, active>>, Recorded \subseteq Recorded',
           written /\ poller.event = "activated" => poller.grant \in Recorded'
    PROVE  PollerType' /\ ActiveInv'
<1>1. CASE poller.event = "activated" /\ written
  <2>1. poller' = [poller EXCEPT !.pc = "enforce off"]
    BY <1>1 DEF AfterRecord
  <2> QED
    BY <1>1, <2>1 DEF BgInv, PollerType, ActiveInv
<1>2. CASE PollDone
  BY <1>2 DEF BgInv, PollerType, ActiveInv, PollDone, Idle, Grants, Events
<1>3. CASE poller.event # "activated" /\ poller.then = "activate"
  <2>1. ToRecord("activated", poller.raw, "idle")
    BY <1>3 DEF AfterRecord
  <2> QED
    BY <1>3, <2>1 DEF BgInv, PollerType, ActiveInv, ToRecord, Grants, Events
<1>4. CASE poller.event # "activated" /\ poller.then = "read"
  <2>1. poller' = [poller EXCEPT !.pc = "read"]
    BY <1>4 DEF AfterRecord
  <2> QED
    BY <1>4, <2>1 DEF BgInv, PollerType, ActiveInv
<1> QED
  BY <1>1, <1>2, <1>3, <1>4 DEF AfterRecord, BgInv, PollerType

\* An append that succeeds: the flush covers every line up to this one.
LEMMA RecordOkKeeps ==
    ASSUME BgInv, RecordOk
    PROVE  BgInv' /\ SuspStep
<1> DEFINE f == AfterWrite(poller.event, poller.grant, "whole")
<1>1. poller.event \in Events /\ poller.grant \in Grants /\ JournalInv
  BY DEF BgInv, PollerType
<1>2. /\ f \in Seq(Line)
      /\ Len(f) >= Len(file)
      /\ \A i \in 1..Len(file) : file[i].texts \subseteq f[i].texts
      /\ Len(f) > 0 /\ <<poller.event, poller.grant>> \in f[Len(f)].texts
  BY <1>1, WriteKeepsTexts
<1>3. file' = f /\ synced' = Len(f) /\ UNCHANGED <<mount, active>>
  BY DEF RecordOk
<1> HIDE DEF f
<1>4. JournalInv'
  BY <1>2, <1>3 DEF BgInv, JournalInv, RecordOk
<1>5. Recorded \subseteq Recorded'
  <2>1. synced' >= synced /\ \A i \in 1..synced : file[i].texts \subseteq file'[i].texts
    BY <1>1, <1>2, <1>3 DEF JournalInv
  <2> QED
    BY <1>1, <1>4, <2>1, RecordedGrows
<1>6. poller.grant \in Grant /\ poller.event = "activated" => poller.grant \in Recorded'
  BY <1>2, <1>3, <1>4 DEF Recorded, JournalInv
<1>7. PollerType' /\ ActiveInv'
  BY <1>3, <1>5, <1>6, AfterRecordKeeps DEF RecordOk, BgInv, ActiveInv
<1>8. SuspStep
  <2>1. Recorded' = Recorded \cup (Recorded' \ Recorded) /\ Recorded' \ Recorded \in SUBSET Grant
    BY <1>5 DEF Recorded
  <2> QED
    BY <1>3, <2>1 DEF SuspStep, Susp!Next, Susp!Record
<1> QED
  BY <1>4, <1>7, <1>8 DEF BgInv

\* An append that fails: what it left may have run into a line that is flushed.
LEMMA RecordFailsKeeps ==
    ASSUME BgInv, RecordFails
    PROVE  BgInv' /\ SuspStep
<1>1. poller.event \in Events /\ poller.grant \in Grants /\ JournalInv
  BY DEF BgInv, PollerType
<1>2. PICK a \in {"nothing", "part", "text", "whole"} :
         file' = AfterWrite(poller.event, poller.grant, a)
  BY DEF RecordFails
<1>3. /\ file' \in Seq(Line)
      /\ Len(file') >= Len(file)
      /\ \A i \in 1..Len(file) : file[i].texts \subseteq file'[i].texts
  BY <1>1, <1>2, WriteKeepsTexts
<1>4. JournalInv'
  BY <1>3 DEF BgInv, JournalInv, RecordFails
<1>5. Recorded \subseteq Recorded'
  <2>1. synced' >= synced /\ \A i \in 1..synced : file[i].texts \subseteq file'[i].texts
    BY <1>1, <1>3 DEF JournalInv, RecordFails
  <2> QED
    BY <1>1, <1>4, <2>1, RecordedGrows
<1>6. PollerType' /\ ActiveInv'
  BY <1>5, AfterRecordKeeps DEF RecordFails
<1>7. SuspStep
  <2>1. Recorded' = Recorded \cup (Recorded' \ Recorded) /\ Recorded' \ Recorded \in SUBSET Grant
    BY <1>5 DEF Recorded
  <2> QED
    BY <2>1 DEF RecordFails, SuspStep, Susp!Next, Susp!Record
<1> QED
  BY <1>4, <1>6, <1>7 DEF BgInv

\* The grant comes into force: it is on record, and none holds.
LEMMA ActivateKeeps ==
    ASSUME BgInv, Activate
    PROVE  BgInv' /\ SuspStep
<1>1. JournalInv' /\ Recorded' = Recorded
  BY JournalUntouched DEF BgInv, Activate
<1>2. poller.grant \in Recorded /\ active = {} /\ active' = {poller.grant}
  BY DEF BgInv, ActiveInv, Activate
<1>3. poller.grant \in Grant
  BY <1>2 DEF Recorded
<1>4. PollerType' /\ ActiveInv'
  BY <1>2, <1>3 DEF BgInv, PollerType, ActiveInv, Activate, PollDone, Idle, Grants, Events
<1>5. SuspStep
  BY <1>1, <1>2, <1>3 DEF SuspStep, Susp!Next, Susp!Suspend
<1> QED
  BY <1>1, <1>4, <1>5 DEF BgInv

\* The mount moves; neither journal nor grant in force does.
LEMMA RotateGrantKeeps ==
    ASSUME BgInv, RotateGrant
    PROVE  BgInv' /\ SuspStep
<1>1. JournalInv' /\ Recorded' = Recorded
  BY JournalUntouched DEF BgInv, RotateGrant
<1>2. mount' \in [raw : Grants, sig : Grants] /\ UNCHANGED <<active, poller>>
  BY DEF RotateGrant, NoMaterial, Grants
<1>3. PollerType' /\ ActiveInv'
  BY <1>1, <1>2 DEF BgInv, PollerType, ActiveInv
<1> QED
  BY <1>1, <1>2, <1>3, LiftOrNot DEF BgInv

\* The process dies: enforcement is back, and no flushed record is lost.  An entry
\* being written may still be added, and only while no grant is in force if it is
\* that of an activation.
LEMMA CrashKeeps ==
    ASSUME BgInv, Crash
    PROVE  BgInv' /\ SuspStep
<1>1. poller.event \in Events /\ poller.grant \in Grants /\ JournalInv
  BY DEF BgInv, PollerType
<1> DEFINE Afters == {file} \cup
                     (IF poller.pc = "record"
                      THEN {AfterWrite(poller.event, poller.grant, a) : a \in {"part", "text", "whole"}}
                      ELSE {})
<1>2. PICK after \in Afters : \E n \in synced..Len(after) : file' = SubSeq(after, 1, n)
  BY DEF Crash
<1>3. PICK n \in synced..Len(after) : file' = SubSeq(after, 1, n)
  BY <1>2
<1>4. /\ after \in Seq(Line)
      /\ Len(after) >= Len(file)
      /\ \A i \in 1..Len(file) :
            /\ file[i].texts \subseteq after[i].texts
            /\ after[i].texts \subseteq file[i].texts \cup
                  (IF poller.pc = "record" THEN {<<poller.event, poller.grant>>} ELSE {})
  <2>1. CASE after = file
    BY <1>1, <2>1 DEF JournalInv
  <2>2. CASE after # file
    <3>1. poller.pc = "record"
      BY <1>2, <2>2
    <3>2. PICK a \in {"part", "text", "whole"} : after = AfterWrite(poller.event, poller.grant, a)
      BY <1>2, <2>2, <3>1
    <3> QED
      BY <1>1, <3>1, <3>2, WriteKeepsTexts
  <2> QED
    BY <2>1, <2>2
<1> HIDE DEF Afters
<1>5. UNCHANGED <<mount, synced, chain, hashes>> /\ active' = {} /\ poller' = Idle
  BY DEF Crash
<1>6. file' \in Seq(Line) /\ Len(file') = n /\ \A i \in 1..n : file'[i] = after[i]
  BY <1>1, <1>3, <1>4 DEF JournalInv
<1>7. JournalInv'
  BY <1>1, <1>3, <1>5, <1>6 DEF JournalInv
<1>8. PollerType' /\ ActiveInv'
  BY <1>5 DEF BgInv, PollerType, ActiveInv, Idle, Grants, Events
<1>9. /\ \A i \in 1..synced : file[i].texts \subseteq file'[i].texts
      /\ \A i \in 1..synced : file'[i].texts \subseteq file[i].texts \cup
            (IF poller.pc = "record" THEN {<<poller.event, poller.grant>>} ELSE {})
  BY <1>1, <1>3, <1>4, <1>6 DEF JournalInv
<1>10. SuspStep
  <2>1. CASE poller.pc = "record" /\ poller.event = "activated"
    <3>1. active = {}
      BY <2>1 DEF BgInv, ActiveInv
    <3>2. Recorded \subseteq Recorded'
      BY <1>1, <1>5, <1>7, <1>9, RecordedGrows DEF JournalInv
    <3>3. Recorded' = Recorded \cup (Recorded' \ Recorded) /\ Recorded' \ Recorded \in SUBSET Grant
      BY <3>2 DEF Recorded
    <3> QED
      BY <1>5, <3>1, <3>3 DEF SuspStep, Susp!Next, Susp!Record
  <2>2. CASE poller.pc = "record" /\ poller.event # "activated"
    <3>1. Recorded' = Recorded
      BY <1>1, <1>5, <1>7, <1>9, <2>2, RecordedStays
    <3> QED
      BY <1>5, <3>1, LiftOrNot
  <2>3. CASE poller.pc # "record"
    <3>1. Recorded' = Recorded
      BY <1>5, <1>9, <2>3 DEF Recorded
    <3> QED
      BY <1>5, <3>1, LiftOrNot
  <2> QED
    BY <2>1, <2>2, <2>3
<1> QED
  BY <1>7, <1>8, <1>10 DEF BgInv

\* A new start flushes the journal it found.
LEMMA ArmKeeps ==
    ASSUME BgInv, Arm
    PROVE  BgInv' /\ SuspStep
<1>1. JournalInv /\ UNCHANGED <<mount, active, file, hashes, poller>> /\ synced' = Len(file)
  BY DEF BgInv, Arm, OpenJournal, probe_writable
<1>2. file # <<>> => file[Len(file)] \in Line
  BY <1>1 DEF JournalInv
<1>3. JournalInv'
  BY <1>1, <1>2 DEF JournalInv, Arm, OpenJournal, probe_writable, Line, GENESIS_HASH
<1>4. Recorded \subseteq Recorded'
  BY <1>1, <1>3, RecordedGrows DEF JournalInv
<1>5. PollerType' /\ ActiveInv'
  BY <1>1, <1>4 DEF BgInv, PollerType, ActiveInv
<1>6. SuspStep
  <2>1. Recorded' = Recorded \cup (Recorded' \ Recorded) /\ Recorded' \ Recorded \in SUBSET Grant
    BY <1>4 DEF Recorded
  <2> QED
    BY <1>1, <2>1 DEF SuspStep, Susp!Next, Susp!Record
<1> QED
  BY <1>3, <1>5, <1>6 DEF BgInv

----------------------------------------------------------------------------
(* The theorems. *)

\* The other threads, and the requests, leave break-glass alone.
LEMMA NextIsBgNext ==
    ASSUME [Next]_vars
    PROVE  BgNext \/ UNCHANGED bgVars
  BY DEF Next, vars, BgNext, Serve, Decide, BreakGlassStep, ReloadStep, CertStep, Start, Environment

\* Every step of the webhook is a step of Suspension, or a stutter.
LEMMA BgStepKeeps ==
    ASSUME BgInv, [Next]_vars
    PROVE  BgInv' /\ SuspStep
<1>1. CASE UNCHANGED bgVars
  BY <1>1 DEF bgVars, BgInv, JournalInv, PollerType, ActiveInv, Recorded, SuspStep
<1>2. CASE BgNext
  BY <1>2, PollStartKeeps, ReadGrantKeeps, ReadSignatureKeeps, RecordOkKeeps, RecordFailsKeeps,
     ActivateKeeps, RotateGrantKeeps, CrashKeeps, ArmKeeps
  DEF BgNext, PollerStep
<1> QED
  BY <1>1, <1>2, NextIsBgNext

\* An empty journal and nothing in force.
LEMMA BgInitInv == Init => BgInv /\ Susp!Init
  BY DEF Init, BreakGlassInit, BgInv, JournalInv, PollerType, ActiveInv, Recorded, Susp!Init,
     NoMaterial, Idle, Grants, Events, GENESIS_HASH

\* Break-glass implements Suspension: enforcement is suspended by one grant at a
\* time, after the activation of that grant is flushed to the journal, and no flushed
\* record is lost (break_glass.rs, poll; journal.rs, append), under any failing
\* write, crash, rotation and move of the clock.
THEOREM BreakGlassImplementsSuspension == Spec => RefinesSuspension
<1>1. Init => BgInv /\ Susp!Init
  BY BgInitInv
<1>2. BgInv /\ [Next]_vars => BgInv'
  BY BgStepKeeps
<1>3. BgInv /\ [Next]_vars => [Susp!Next]_(Susp!svars)
  BY BgStepKeeps DEF SuspStep, Susp!svars
<1> QED
  BY <1>1, <1>2, <1>3, PTL DEF Spec, RefinesSuspension, Susp!Spec

\* What an object is let in by: the reply names break-glass or the policy, and
\* break-glass only under a grant in force, in its window and on record.
LetInByRecord ==
    Up /\ review.pc = "decide" =>
        \A b \in DOMAIN BodyText : \A labels \in label_source :
            LET answer == AnswerTo(b, labels) IN
            answer.allowed =>
                \/ answer.why = "policy"
                \/ answer.why = "break-glass" /\ \E g \in active : g \in Recorded /\ covers(g, clock)

\* handle_with lets in under a grant it was given, or by decision_response.
LEMMA WhyLetIn ==
    ASSUME NEW cfg, NEW body, NEW prog, NEW ex, NEW grant, NEW now,
           handle_with(cfg, body, prog, ex, grant, now).allowed
    PROVE  LET why == handle_with(cfg, body, prog, ex, grant, now).why
           IN  why = "policy" \/ (why = "break-glass" /\ grant # {})
<1> DEFINE h == handle_with(cfg, body, prog, ex, grant, now)
<1>1. ASSUME NEW o, NEW d, decision_response(o, d).allowed
      PROVE  decision_response(o, d).why = "policy"
  BY <1>1 DEF decision_response, ok_deny, Reply
<1>2. \A w : ~ok_deny(w).allowed
  BY DEF ok_deny, Reply
<1>3. ~Reply(400, FALSE, <<>>, body.shape).allowed
  BY DEF Reply
<1>4. Reply(200, TRUE, <<>>, "break-glass").why = "break-glass"
  BY DEF Reply
<1>5. \/ ~h.allowed
      \/ h = Reply(200, TRUE, <<>>, "break-glass") /\ grant # {}
      \/ \E o, d : h = decision_response(o, d)
  BY <1>2, <1>3 DEF handle_with
<1> QED
  BY ZenonT(30), <1>1, <1>4, <1>5

\* What is in force is on record, in every state and not only when it came into force:
\* no crash and no failing write takes a flushed activation away (break_glass.rs).
THEOREM SuspensionIsOnRecord == Spec => [](active \subseteq Recorded)
<1>1. Init => active \subseteq Recorded
  BY DEF Init, BreakGlassInit
<1>2. BgInv /\ active \subseteq Recorded /\ [Next]_vars => (active \subseteq Recorded)'
  BY BgStepKeeps DEF SuspStep, Susp!Next, Susp!Record, Susp!Suspend, Susp!Lift
<1>3. BgInv /\ [Next]_vars => BgInv'
  BY BgStepKeeps
<1>4. Init => BgInv
  BY BgInitInv
<1> QED
  BY <1>1, <1>2, <1>3, <1>4, PTL DEF Spec

\* Every review that lets an object in without asking the policy does so under a grant
\* that is in force, in its window, and on durable record (review.rs, handle_with).
THEOREM GrantedIsOnRecord == Spec => []LetInByRecord
<1>1. active \subseteq Recorded => LetInByRecord
  <2> SUFFICES ASSUME active \subseteq Recorded, NEW b \in DOMAIN BodyText,
                      NEW labels \in label_source, AnswerTo(b, labels).allowed
               PROVE  \/ AnswerTo(b, labels).why = "policy"
                      \/ /\ AnswerTo(b, labels).why = "break-glass"
                         /\ \E g \in active : g \in Recorded /\ covers(g, clock)
    BY DEF LetInByRecord
  <2>1. \/ AnswerTo(b, labels).why = "policy"
        \/ /\ AnswerTo(b, labels).why = "break-glass"
           /\ {[expires_at |-> ExpiresAt[g]] : g \in GrantInForce(clock)} # {}
    BY WhyLetIn DEF AnswerTo
  <2> QED
    BY <2>1 DEF GrantInForce
<1> QED
  BY <1>1, SuspensionIsOnRecord, PTL

----------------------------------------------------------------------------
(* The other way in: by the policy and its waivers.                         *)

\* eval.rs, admit: what an enforcing policy lets through breaks no rule without a waiver.
LEMMA AdmitWaives ==
    ASSUME NEW prog, NEW subject, NEW ex, NEW now, Enforces(prog, subject),
           admit(prog, subject, ex, now).allowed, NEW rule \in collect_hits(prog, subject)
    PROVE  \E w \in ex : exception_applies(w, subject.policy_namespace, subject.policy_name, rule, now)
<1> DEFINE Hit(r) == [namespace |-> subject.policy_namespace, policy |-> subject.policy_name,
                      rule |-> r, action |-> "Deny"]
           hits == {Hit(r) : r \in collect_hits(prog, subject)}
           live == {h.action : h \in {x \in hits : ~exception_applies_to(ex, x, now)}}
<1>1. evaluate(hits, "Allow", ex, now) \notin {"Deny", "Kill", "Isolate"}
  BY DEF admit, Enforces, FailClosed, Untouched
<1>2. live \subseteq {"Deny"}
  OBVIOUS
<1>3. live = {}
  <2> SUFFICES ASSUME live = {"Deny"} PROVE FALSE
    BY <1>2
  <2>1. evaluate(hits, "Allow", ex, now)
          = CHOOSE a \in live : \A b \in live : action_rank[b] <= action_rank[a]
    BY DEF evaluate
  <2>2. action_rank["Deny"] <= action_rank["Deny"]
    BY DEF action_rank
  <2>3. evaluate(hits, "Allow", ex, now) = "Deny"
    <3> HIDE DEF live, hits
    <3> QED
      BY <2>1, <2>2
  <2> QED
    BY <1>1, <2>3
<1>4. Hit(rule) \in hits
  OBVIOUS
<1>5. exception_applies_to(ex, Hit(rule), now)
  BY <1>3, <1>4
<1> QED
  BY <1>5 DEF exception_applies_to

\* An answer in the policy's name is what admit said of the subject.
LEMMA PolicyAnswers ==
    ASSUME NEW cfg, NEW body, NEW prog, NEW ex, NEW grant, NEW now,
           handle_with(cfg, body, {prog}, ex, grant, now).allowed,
           handle_with(cfg, body, {prog}, ex, grant, now).why = "policy"
    PROVE  admit(prog, subject_of(cfg, body, prog), ex, now).allowed
<1> DEFINE h == handle_with(cfg, body, {prog}, ex, grant, now)
           object == CHOOSE o \in body.object : TRUE
           d == admit(prog, subject_of(cfg, body, prog), ex, now)
<1>1. \A w : ~ok_deny(w).allowed
  BY DEF ok_deny, Reply
<1>2. ~Reply(400, FALSE, <<>>, body.shape).allowed
  BY DEF Reply
<1>3. Reply(200, TRUE, <<>>, "break-glass").why # "policy"
  BY DEF Reply
<1>4. (CHOOSE p \in {prog} : TRUE) = prog
  OBVIOUS
<1>5. \/ ~h.allowed
      \/ h = Reply(200, TRUE, <<>>, "break-glass")
      \/ h = decision_response(object, d)
  BY <1>1, <1>2, <1>4 DEF handle_with
<1>6. h = decision_response(object, d)
  BY <1>3, <1>5
<1> HIDE DEF d, h
<1> QED
  BY <1>1, <1>6 DEF decision_response, d, h

\* What the policy in force lets in breaks only rules that a live, approved waiver of the
\* list read for this review names.
LetInByWaiver ==
    (Up /\ review.pc = "decide") =>
        \A b \in DOMAIN BodyText : \A labels \in label_source :
            LET answer == AnswerTo(b, labels)
                prog == ProgramText[review.program]
                subject == subject_of(ReviewConfig(labels), BodyText[b], prog)
            IN  answer.allowed /\ answer.why = "policy" /\ Enforces(prog, subject) =>
                    \A rule \in collect_hits(prog, subject) : Waived(rule)

\* Every object, every program, every list of waivers and whatever the label caches hold:
\* an enforcing policy lets nothing in but under a waiver for each rule that the object
\* breaks (review.rs handle_with, eval.rs admit).
THEOREM AdmittedIsWaived == Spec => []LetInByWaiver
<1>1. LetInByWaiver
  <2> SUFFICES ASSUME NEW b \in DOMAIN BodyText, NEW labels \in label_source,
                      NEW prog, prog = ProgramText[review.program],
                      NEW subject, subject = subject_of(ReviewConfig(labels), BodyText[b], prog),
                      AnswerTo(b, labels).allowed, AnswerTo(b, labels).why = "policy",
                      Enforces(prog, subject), NEW rule \in collect_hits(prog, subject)
               PROVE  Waived(rule)
    BY DEF LetInByWaiver
  <2>1. admit(prog, subject, WaiverText[review.exceptions], clock).allowed
    BY PolicyAnswers DEF AnswerTo
  <2>2. subject.policy_namespace = "" /\ subject.policy_name = PolicyName
    <3>1. \A o, r : {"policy_name", "policy_namespace"} \subseteq DOMAIN subject_from_object(o, r)
      BY DEF subject_from_object, EmptySubject, fill_pod, fill_role, fill_binding
    <3> QED
      BY <3>1 DEF subject_of, ReviewConfig
  <2>3. \E w \in WaiverText[review.exceptions] :
          exception_applies(w, subject.policy_namespace, subject.policy_name, rule, clock)
    BY <2>1, AdmitWaives
  <2> QED
    BY <2>2, <2>3 DEF Waived
<1> QED
  BY <1>1, PTL

\* Both halves together: whatever gets in under an enforcing policy does so under a waiver
\* for what it breaks, or under a grant in its window and on durable record; for every
\* instance whose objects are described truly (BreaksAreHits).
THEOREM NothingGetsInUnjustified == Spec => [](BreaksAreHits => AdmittedIsJustified)
<1>1. LetInByRecord /\ LetInByWaiver => (BreaksAreHits => AdmittedIsJustified)
  BY DEF LetInByRecord, LetInByWaiver, BreaksAreHits, AdmittedIsJustified
<1> QED
  BY <1>1, GrantedIsOnRecord, AdmittedIsWaived, PTL
=============================================================================
