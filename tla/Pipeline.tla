------------------------------ MODULE Pipeline ------------------------------
(***************************************************************************)
(* The path of a record through the agent, from the kernel's ring to the   *)
(* export queue (run of ferrum-agent/src/main.rs): the ring thread, the    *)
(* pump thread and the poller, the bounded record channel between the      *)
(* first two, and the RwLock around the Agent that all three take.         *)
(*                                                                         *)
(* Abstractions: a record is a number, in the order the kernel produced    *)
(* it.  What the ring thread does to the kernel maps under its guard is    *)
(* KernelPublish, what the poller does to the policy under its own is      *)
(* LkgStore and Waivers: here only the guards are kept.  A guard that is   *)
(* held over no blocking call and whose work is one step is taken and      *)
(* released in that step.  std's RwLock prefers writers: it admits no      *)
(* reader while a writer waits.  A decision is one exported event.         *)
(***************************************************************************)
EXTENDS ExportQueue

CONSTANTS
    RingCap,     \* records the kernel ring holds
    ChanCap,     \* records the channel holds
    MaxRecords   \* bound: records the kernel produces

ASSUME PipelineAssumption ==
    /\ RingCap \in Nat \ {0}
    /\ ChanCap \in Nat \ {0}
    /\ MaxRecords \in Nat

VARIABLES
    produced,      \* records the hooks made so far
    kring,         \* ferrum_events
    kdropped,      \* the in-kernel drop counter
    ringPc,        \* where the ring thread is
    ringHand,      \* the record it took out of the ring, 0 for none
    recordsAlive,  \* its latch, and ...
    terminal,      \* ... terminal_fault
    discarded,     \* history: records it drained and threw away
    seenDrops,     \* RingLoop.seen_drops
    dropDelta,     \* RingTick.drop_delta
    agentDropped,  \* events_dropped_total as the agent reports it
    chan,          \* the record channel
    pumpPc,        \* where the pump thread is; "gone": it died
    pumpHand,      \* the record it holds, 0 for none
    pumpLost,      \* the loss total it read from the sink
    decodeFailed,  \* records_decode_failed_total
    stranded,      \* history: records a dead pump left behind
    readers,       \* threads with a read guard
    writeGuard,    \* the poller's write guard: "none", "waiting" or "held"
    mode,          \* poll_bundle_shared or poll_status
    pollPc,        \* where the poller is
    pollLost,      \* the loss total it read
    lostSeen,      \* export_lost_seen
    exportDead     \* export_dead

ringVars == <<produced, kring, kdropped, ringPc, ringHand, recordsAlive, terminal, discarded,
              seenDrops, dropDelta, agentDropped>>
pumpVars == <<pumpPc, pumpHand, pumpLost, decodeFailed, stranded>>
pollVars == <<mode, pollPc, pollLost>>
lockVars == <<readers, writeGuard>>
lossVars == <<lostSeen, exportDead>>
vars == <<queueVars, ringVars, chan, pumpVars, pollVars, lockVars, lossVars>>

Init ==
    /\ QueueInit
    /\ produced = 0 /\ kring = <<>> /\ kdropped = 0
    /\ ringPc = "guard" /\ ringHand = 0
    /\ recordsAlive = "yes" /\ terminal = "no" /\ discarded = 0
    /\ seenDrops = 0 /\ dropDelta = 0 /\ agentDropped = 0
    /\ chan = <<>>
    /\ pumpPc = "recv" /\ pumpHand = 0 /\ pumpLost = 0 /\ decodeFailed = 0 /\ stranded = 0
    /\ readers = {} /\ writeGuard = "none"
    /\ mode \in {"bundle", "status"}
    /\ pollPc = "sleep" /\ pollLost = 0
    /\ lostSeen = 0 /\ exportDead = "no"

\* A read guard can be taken.
CanRead == writeGuard = "none"

----------------------------------------------------------------------------
(* The kernel. *)

\* A hook submits a record, or counts the drop when the ring is full.
Produce ==
    /\ Alive
    /\ produced < MaxRecords
    /\ produced' = produced + 1
    /\ IF Len(kring) < RingCap
       THEN kring' = Append(kring, produced + 1) /\ UNCHANGED kdropped
       ELSE kdropped' = kdropped + 1 /\ UNCHANGED kring
    /\ UNCHANGED <<ringPc, ringHand, recordsAlive, terminal, discarded, seenDrops, dropDelta,
                   agentDropped, queueVars, chan, pumpVars, pollVars, lockVars, lossVars>>

----------------------------------------------------------------------------
(* The ring thread. *)

\* The cgroup updates and the kernel policy, under a read guard.
RingGuard ==
    /\ Alive
    /\ ringPc = "guard"
    /\ CanRead
    /\ ringPc' = "drain"
    /\ UNCHANGED <<produced, kring, kdropped, ringHand, recordsAlive, terminal, discarded,
                   seenDrops, dropDelta, agentDropped, queueVars, chan, pumpVars, pollVars,
                   lockVars, lossVars>>

\* Faulty variant: a read guard is held over the send.
GuardOverSendHeld == {"ring"}

\* The read guards held over the blocking send: none.
GuardOverSend == {}

\* drain hands the next record to the callback, which discards it once the
\* channel is known to be gone.
Take ==
    /\ Alive
    /\ ringPc = "drain"
    /\ kring # <<>>
    /\ kring' = Tail(kring)
    /\ IF recordsAlive = "yes"
       THEN /\ GuardOverSend # {} => CanRead
            /\ readers' = readers \cup GuardOverSend
            /\ ringHand' = Head(kring)
            /\ ringPc' = "send"
            /\ UNCHANGED discarded
       ELSE discarded' = discarded + 1 /\ UNCHANGED <<ringHand, ringPc, readers>>
    /\ UNCHANGED <<produced, kdropped, recordsAlive, terminal, seenDrops, dropDelta,
                   agentDropped, queueVars, chan, pumpVars, pollVars, writeGuard, lossVars>>

\* publish_record: send blocks while the channel is full ...
Send ==
    /\ Alive
    /\ ringPc = "send"
    /\ pumpPc # "gone"
    /\ Len(chan) < ChanCap
    /\ chan' = Append(chan, ringHand)
    /\ ringHand' = 0
    /\ ringPc' = "drain"
    /\ readers' = readers \ GuardOverSend
    /\ UNCHANGED <<produced, kring, kdropped, recordsAlive, terminal, discarded, seenDrops,
                   dropDelta, agentDropped, queueVars, pumpVars, pollVars, writeGuard, lossVars>>

\* ... and fails when the pump is gone, which is latched under a read guard.
ChannelGone ==
    /\ Alive
    /\ ringPc = "send"
    /\ pumpPc = "gone"
    /\ CanRead
    /\ readers' = readers \ GuardOverSend
    /\ terminal' = "yes"
    /\ recordsAlive' = "no"
    /\ discarded' = discarded + 1
    /\ ringHand' = 0
    /\ ringPc' = "drain"
    /\ UNCHANGED <<produced, kring, kdropped, seenDrops, dropDelta, agentDropped, queueVars,
                   chan, pumpVars, pollVars, writeGuard, lossVars>>

\* The end of RingLoop::tick: the drop counter is read if it is due, and may not
\* be readable.
PollDrops ==
    /\ Alive
    /\ ringPc = "drain"
    /\ kring = <<>>
    /\ \/ /\ dropDelta' = kdropped - seenDrops
          /\ seenDrops' = kdropped
          /\ ringPc' = IF kdropped > seenDrops THEN "report" ELSE "guard"
       \/ /\ dropDelta' = 0
          /\ ringPc' = "guard"
          /\ UNCHANGED seenDrops
    /\ UNCHANGED <<produced, kring, kdropped, ringHand, recordsAlive, terminal, discarded,
                   agentDropped, queueVars, chan, pumpVars, pollVars, lockVars, lossVars>>

\* record_drop, under a read guard.
ReportDrops ==
    /\ Alive
    /\ ringPc = "report"
    /\ CanRead
    /\ agentDropped' = agentDropped + dropDelta
    /\ dropDelta' = 0
    /\ ringPc' = "guard"
    /\ UNCHANGED <<produced, kring, kdropped, ringHand, recordsAlive, terminal, discarded,
                   seenDrops, queueVars, chan, pumpVars, pollVars, lockVars, lossVars>>

----------------------------------------------------------------------------
(* The pump thread. *)

PumpRecv ==
    /\ Alive
    /\ pumpPc = "recv"
    /\ chan # <<>>
    /\ pumpHand' = Head(chan)
    /\ chan' = Tail(chan)
    /\ pumpPc' = "lock"
    /\ UNCHANGED <<queueVars, ringVars, pumpLost, decodeFailed, stranded, pollVars, lockVars,
                   lossVars>>

PumpLock ==
    /\ Alive
    /\ pumpPc = "lock"
    /\ CanRead
    /\ readers' = readers \cup {"pump"}
    /\ pumpPc' = "handle"
    /\ UNCHANGED <<queueVars, ringVars, chan, pumpHand, pumpLost, decodeFailed, stranded,
                   pollVars, writeGuard, lossVars>>

\* pump_records over the one record: refused by the decoder (a terminal fault too
\* if its stamp is of another build), or decided and emitted by handle_event.
PumpHandle ==
    /\ Alive
    /\ pumpPc = "handle"
    /\ pumpHand' = 0
    /\ \/ /\ decodeFailed' = decodeFailed + 1
          /\ terminal' \in {terminal, "yes"}
          /\ readers' = readers \ {"pump"}
          /\ pumpPc' = "recv"
          /\ UNCHANGED queueVars
       \/ /\ Emit(pumpHand)
          /\ pumpPc' = "load"
          /\ UNCHANGED <<decodeFailed, terminal, readers, writer, writing, written, writeFailed, stopping,
                         watcher, abandoned, panics>>
    /\ UNCHANGED <<produced, kring, kdropped, ringPc, ringHand, recordsAlive, discarded,
                   seenDrops, dropDelta, agentDropped, chan, pumpLost, stranded, pollVars,
                   writeGuard, lossVars>>

\* note_export_state_at: writer_dead and the sink's counters are read ...
PumpLoad ==
    /\ Alive
    /\ pumpPc = "load"
    /\ pumpLost' = LostTotal
    /\ exportDead' = IF writerDead = "yes" THEN "yes" ELSE exportDead
    /\ pumpPc' = "mark"
    /\ UNCHANGED <<queueVars, ringVars, chan, pumpHand, decodeFailed, stranded, pollVars,
                   lockVars, lostSeen>>

\* Faulty variant: swap, so that a late reader overwrites a newer total.
SeenAfterSwap(lost) == lost

\* ... and the mirror of their sum is raised: fetch_max.
SeenAfter(lost) == IF lost > lostSeen THEN lost ELSE lostSeen

PumpMark ==
    /\ Alive
    /\ pumpPc = "mark"
    /\ lostSeen' = SeenAfter(pumpLost)
    /\ pumpLost' = 0
    /\ readers' = readers \ {"pump"}
    /\ pumpPc' = "recv"
    /\ UNCHANGED <<queueVars, ringVars, chan, pumpHand, decodeFailed, stranded,
                   pollVars, writeGuard, exportDead>>

\* A panic in the decision path: the receiver and what it held are gone.
PumpPanics ==
    /\ Alive
    /\ pumpPc = "handle"
    /\ panics < MaxPanics
    /\ panics' = panics + 1
    /\ pumpPc' = "gone"
    /\ pumpHand' = 0
    /\ stranded' = stranded + 1 + Len(chan)
    /\ chan' = <<>>
    /\ readers' = readers \ {"pump"}
    /\ UNCHANGED <<queue, writer, writing, written, writeFailed, queueDropped, writerLost,
                   writerDead, stopping, watcher, abandoned, ringVars, pumpLost, decodeFailed,
                   pollVars, writeGuard, lossVars>>

----------------------------------------------------------------------------
(* The poller. *)

\* The tick asks for its guard: a write guard if there is a bundle to watch.
PollWake ==
    /\ Alive
    /\ pollPc = "sleep"
    /\ pollPc' = "lock"
    /\ writeGuard' = IF mode = "bundle" THEN "waiting" ELSE writeGuard
    /\ UNCHANGED <<queueVars, ringVars, chan, pumpVars, mode, pollLost, readers, lossVars>>

PollLock ==
    /\ Alive
    /\ pollPc = "lock"
    /\ IF mode = "bundle"
       THEN readers = {} /\ writeGuard' = "held" /\ UNCHANGED readers
       ELSE readers' = readers \cup {"poll"} /\ UNCHANGED writeGuard
    /\ pollPc' = "load"
    /\ UNCHANGED <<queueVars, ringVars, chan, pumpVars, mode, pollLost, lossVars>>

\* StatusPublisher::tick calls note_export_state_at too.
PollLoad ==
    /\ Alive
    /\ pollPc = "load"
    /\ pollLost' = LostTotal
    /\ exportDead' = IF writerDead = "yes" THEN "yes" ELSE exportDead
    /\ pollPc' = "mark"
    /\ UNCHANGED <<queueVars, ringVars, chan, pumpVars, mode, lockVars, lostSeen>>

PollMark ==
    /\ Alive
    /\ pollPc = "mark"
    /\ lostSeen' = SeenAfter(pollLost)
    /\ pollLost' = 0
    /\ readers' = readers \ {"poll"}
    /\ writeGuard' = "none"
    /\ pollPc' = "commit"
    /\ UNCHANGED <<queueVars, ringVars, chan, pumpVars, mode, exportDead>>

\* status.json is written with no guard; note_status_write takes a read guard.
PollCommit ==
    /\ Alive
    /\ pollPc = "commit"
    /\ CanRead
    /\ pollPc' = "sleep"
    /\ UNCHANGED <<queueVars, ringVars, chan, pumpVars, mode, pollLost, lockVars, lossVars>>

----------------------------------------------------------------------------
Export ==
    /\ WriterStep \/ WriterPanics
    /\ UNCHANGED <<ringVars, chan, pumpVars, pollVars, lockVars, lossVars>>

Shutdown ==
    /\ Close \/ Exit
    /\ UNCHANGED <<ringVars, chan, pumpVars, pollVars, lockVars, lossVars>>

RingStep == RingGuard \/ Take \/ Send \/ ChannelGone \/ PollDrops \/ ReportDrops
PumpStep == PumpRecv \/ PumpLock \/ PumpHandle \/ PumpLoad \/ PumpMark
PollStep == PollWake \/ PollLock \/ PollLoad \/ PollMark \/ PollCommit

\* After exit(0) nothing runs.
Exited == ~Alive /\ UNCHANGED vars

Next == Produce \/ RingStep \/ PumpStep \/ PumpPanics \/ PollStep \/ Export \/ Shutdown \/ Exited

Spec == Init /\ [][Next]_vars

\* Every thread is scheduled.  A reader the lock turned away for a waiting writer
\* is admitted when that writer is done (the poller sleeps between ticks), hence
\* strong fairness for the steps that take a read guard.
FairSpec ==
    /\ Spec
    /\ WF_vars(RingStep) /\ SF_vars(RingGuard) /\ SF_vars(ReportDrops) /\ SF_vars(ChannelGone)
    /\ WF_vars(PumpStep) /\ SF_vars(PumpLock)
    /\ WF_vars(PollStep)
    /\ WF_vars(WriterStep /\ UNCHANGED <<ringVars, chan, pumpVars, pollVars, lockVars, lossVars>>)

----------------------------------------------------------------------------
InHand(h) == IF h = 0 THEN {} ELSE {h}

\* The records that are on their way.
InFlight ==
    ToSet(kring) \cup InHand(ringHand) \cup ToSet(chan) \cup InHand(pumpHand)
        \cup ToSet(queue) \cup InHand(writing)

\* The types of the path's state, and the bounds of its two buffers.
TypeOK ==
    /\ QueueTypeOK
    /\ produced \in 0 .. MaxRecords
    /\ kring \in Seq(1 .. MaxRecords) /\ Len(kring) <= RingCap
    /\ ringPc \in {"guard", "drain", "send", "report"}
    /\ chan \in Seq(1 .. MaxRecords) /\ Len(chan) <= ChanCap
    /\ {ringHand, pumpHand} \subseteq 0 .. MaxRecords
    /\ {recordsAlive, terminal, exportDead} \subseteq {"no", "yes"}
    /\ pumpPc \in {"recv", "lock", "handle", "load", "mark", "gone"}
    /\ {kdropped, seenDrops, dropDelta, agentDropped, discarded, pumpLost, decodeFailed,
        stranded, pollLost, lostSeen} \subseteq 0 .. MaxRecords
    /\ readers \subseteq {"ring", "pump", "poll"}
    /\ writeGuard \in {"none", "waiting", "held"}
    /\ writeGuard = "held" => readers = {}
    /\ mode \in {"bundle", "status"}
    /\ pollPc \in {"sleep", "lock", "load", "mark", "commit"}

\* No record disappears: every one the kernel made is on its way, written, or in
\* exactly one of the counters, except those that a dead thread, or the writer
\* when it returns, leaves behind.
EveryRecordCounted ==
    /\ produced = Cardinality(InFlight) + Len(written) + writeFailed + kdropped + decodeFailed
                      + queueDropped + writerLost + discarded + stranded + abandoned
    /\ stranded > 0 => pumpPc = "gone"
    /\ abandoned > 0 => writer = "gone" /\ (panics > 0 \/ stopping = "yes")

\* Events are written in the order in which the kernel made their records, and
\* none twice.
WrittenInOrder ==
    \A i, j \in 1 .. Len(written) : i < j => written[i] < written[j]

\* The agent says what it lost: once a record has been handled, every event the
\* queue refused is in the agent's total and a dead writer is known; a record
\* thrown away unseen is a terminal fault; no drop is reported twice.
LossIsReported ==
    /\ pumpPc = "recv" => /\ lostSeen >= queueDropped + writerLost
                          /\ writerLost > 0 => exportDead = "yes"
    /\ discarded > 0 => terminal = "yes"
    /\ agentDropped <= kdropped
    /\ lostSeen <= LostTotal

\* What the kernel saw is on record in its order, on its way, or known to be lost.
NothingLostUnseen ==
    /\ TypeOK
    /\ EveryRecordCounted
    /\ WrittenInOrder
    /\ LossIsReported

\* No record is stuck: with the poller, the pump and the ring thread contending
\* for the lock and every buffer full, all of them are eventually decided and
\* handed on, or counted, unless the process exits.
PathAlwaysDrains == []<>(InFlight = {} \/ ~Alive)

----------------------------------------------------------------------------
(* What the comments say, and the code does not do. *)

\* "SIGTERM must not throw away events the queue already accepted" (main.rs):
\* when the process exits and no thread died, the sink was given every one.
AcceptedIsFlushed == ~Alive /\ panics = 0 => abandoned = 0
=============================================================================
