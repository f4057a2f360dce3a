---------------------------- MODULE ExportQueue ----------------------------
(***************************************************************************)
(* QueueSink (ferrum-export/src/queue.rs): the bounded hand-off between    *)
(* the decision path and the thread that writes the events, and how        *)
(* SIGTERM closes it (spawn_shutdown_watcher of ferrum-agent/src/main.rs). *)
(*                                                                         *)
(* Abstractions: an event is a number; the wrapped sink is one destination *)
(* whose write succeeds, fails and is counted, or panics.  The wait of     *)
(* recv_timeout ends at any time at which the queue is empty.  Receiving,  *)
(* reading the flag and dropping the receiver are steps of their own, since*)
(* an event may be accepted between any two of them.                       *)
(***************************************************************************)
EXTENDS Integers, Sequences, FiniteSets, SequencesExt

CONSTANTS
    QueueCap,   \* --export-queue
    MaxPanics   \* bound: threads that panic

ASSUME QueueAssumption == QueueCap \in Nat \ {0} /\ MaxPanics \in Nat

VARIABLES
    queue,         \* the channel
    writer,        \* where the writer thread is; "gone": it returned or died
    writing,       \* the event it holds, 0 for none
    written,       \* the events that reached the sink, in order
    writeFailed,   \* export_write_failed_total
    queueDropped,  \* queue_dropped
    writerLost,    \* writer_lost
    writerDead,    \* writer_dead
    stopping,      \* the flag close sets
    watcher,       \* the SIGTERM watcher: "watch", "join" or "exited"
    abandoned,     \* history: events accepted and never given to the sink
    panics

queueVars == <<queue, writer, writing, written, writeFailed, queueDropped, writerLost,
               writerDead, stopping, watcher, abandoned, panics>>

QueueInit ==
    /\ queue = <<>>
    /\ writer = "recv"
    /\ writing = 0
    /\ written = <<>>
    /\ writeFailed = 0
    /\ queueDropped = 0
    /\ writerLost = 0
    /\ writerDead = "no"
    /\ stopping = "no"
    /\ watcher = "watch"
    /\ abandoned = 0
    /\ panics = 0

Alive == watcher # "exited"

\* What the sink's three loss counters add up to.
LostTotal == queueDropped + writeFailed + writerLost

----------------------------------------------------------------------------
\* emit: never blocks; a full queue and a writer that is gone are told apart.
Emit(e) ==
    \/ /\ writer # "gone"
       /\ Len(queue) < QueueCap
       /\ queue' = Append(queue, e)
       /\ UNCHANGED <<queueDropped, writerLost, writerDead>>
    \/ /\ writer # "gone"
       /\ Len(queue) = QueueCap
       /\ queueDropped' = queueDropped + 1
       /\ UNCHANGED <<queue, writerLost, writerDead>>
    \/ /\ writer = "gone"
       /\ writerLost' = writerLost + 1
       /\ writerDead' = "yes"
       /\ UNCHANGED <<queue, queueDropped>>

----------------------------------------------------------------------------
(* The writer thread. *)

\* recv_timeout in the loop, or try_recv in the final drain.
Receive ==
    /\ Alive
    /\ writer \in {"recv", "drain"}
    /\ queue # <<>>
    /\ writing' = Head(queue)
    /\ queue' = Tail(queue)
    /\ writer' = IF writer = "recv" THEN "emit" ELSE "drainEmit"
    /\ UNCHANGED <<written, writeFailed, queueDropped, writerLost, writerDead, stopping,
                   watcher, abandoned, panics>>

\* recv_timeout gives up, or try_recv finds nothing more.
FindsEmpty ==
    /\ Alive
    /\ writer \in {"recv", "drain"}
    /\ queue = <<>>
    /\ writer' = IF writer = "recv" THEN "check" ELSE "return"
    /\ UNCHANGED <<queue, writing, written, writeFailed, queueDropped, writerLost, writerDead,
                   stopping, watcher, abandoned, panics>>

ReadFlag ==
    /\ Alive
    /\ writer = "check"
    /\ writer' = IF stopping = "yes" THEN "drain" ELSE "recv"
    /\ UNCHANGED <<queue, writing, written, writeFailed, queueDropped, writerLost, writerDead,
                   stopping, watcher, abandoned, panics>>

\* worker_sink.emit: written, or counted as failed.
Write ==
    /\ Alive
    /\ writer \in {"emit", "drainEmit"}
    /\ \/ written' = Append(written, writing) /\ UNCHANGED writeFailed
       \/ writeFailed' = writeFailed + 1 /\ UNCHANGED written
    /\ writing' = 0
    /\ writer' = IF writer = "emit" THEN "recv" ELSE "drain"
    /\ UNCHANGED <<queue, queueDropped, writerLost, writerDead, stopping, watcher, abandoned,
                   panics>>

\* The thread ends: the receiver is dropped with whatever it still holds.
DropReceiver ==
    /\ writer' = "gone"
    /\ writing' = 0
    /\ queue' = <<>>
    /\ abandoned' = abandoned + Len(queue) + (IF writing = 0 THEN 0 ELSE 1)
    /\ UNCHANGED <<written, writeFailed, queueDropped, writerLost, writerDead, stopping, watcher>>

WriterReturns ==
    /\ Alive
    /\ writer = "return"
    /\ DropReceiver
    /\ UNCHANGED panics

WriterPanics ==
    /\ Alive
    /\ writer \in {"emit", "drainEmit"}
    /\ panics < MaxPanics
    /\ panics' = panics + 1
    /\ DropReceiver

WriterStep == Receive \/ FindsEmpty \/ ReadFlag \/ Write \/ WriterReturns

----------------------------------------------------------------------------
(* The SIGTERM watcher. *)

\* close, up to the join.
Close ==
    /\ watcher = "watch"
    /\ stopping' = "yes"
    /\ watcher' = "join"
    /\ UNCHANGED <<queue, writer, writing, written, writeFailed, queueDropped, writerLost,
                   writerDead, abandoned, panics>>

\* The join returns and exit(0) ends every thread.
Exit ==
    /\ watcher = "join"
    /\ writer = "gone"
    /\ watcher' = "exited"
    /\ UNCHANGED <<queue, writer, writing, written, writeFailed, queueDropped, writerLost,
                   writerDead, stopping, abandoned, panics>>

----------------------------------------------------------------------------
\* The types of the queue and its counters, and its bound.
QueueTypeOK ==
    /\ queue \in Seq(Nat) /\ Len(queue) <= QueueCap
    /\ writer \in {"recv", "check", "emit", "drain", "drainEmit", "return", "gone"}
    /\ writing \in Nat
    /\ written \in Seq(Nat)
    /\ {writeFailed, queueDropped, writerLost, abandoned} \subseteq Nat
    /\ {writerDead, stopping} \subseteq {"no", "yes"}
    /\ watcher \in {"watch", "join", "exited"}
    /\ panics \in 0 .. MaxPanics
=============================================================================
