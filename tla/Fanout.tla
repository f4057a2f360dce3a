------------------------------- MODULE Fanout -------------------------------
(***************************************************************************)
(* FanoutSink of ferrum-export/src/fanout.rs as ferrum-agent/src/main.rs   *)
(* builds it: the node-local record first, the SIEM beside it.  The writer *)
(* thread of ExportQueue hands one event after another to it; the process  *)
(* may be killed in the middle of one.                                     *)
(*                                                                         *)
(* The node-local record is RotatingFileSink or, where no export directory *)
(* is given, EnvelopeWriterSink on standard output, of                     *)
(* ferrum-export/src/file.rs.  A file is a sequence of pieces: a whole     *)
(* line, a line of which a failed write left some bytes ("cut") or all but *)
(* the newline ("bare"), and the newline that terminates a stub.  An emit  *)
(* happens under the sink's lock and nobody else writes the files, so it   *)
(* is one step with every outcome the filesystem may give it; a crash      *)
(* leaves what a failure at the same place would and forgets what the      *)
(* process knew.                                                           *)
(***************************************************************************)
EXTENDS SyslogSink, Sequences, FiniteSets

CONSTANTS
  MaxBytes,    \* --export-max-bytes, in pieces of a line: a line is two, a stub one
  Keep         \* --export-keep

ASSUME FileSinkAssumption == MaxBytes \in Nat \ {0} /\ Keep \in Nat

Line(i, life) == [kind |-> "line", ev |-> i, life |-> life]
Stub(kind, i, life) == [kind |-> kind, ev |-> i, life |-> life]
Newline == [kind |-> "nl", ev |-> 0, life |-> 0]

Size(piece) == IF piece.kind = "line" THEN 2 ELSE 1
Length(file) == 2 * Cardinality({k \in DOMAIN file : Size(file[k]) = 2})
                  + Cardinality({k \in DOMAIN file : Size(file[k]) = 1})

\* A sink: the files by number (0 is the active one, or the stream), the handle, the
\* length it believes in, and the flag that a stub may end the file.
NewSink == [files |-> <<>>, open |-> FALSE, len |-> 0, torn |-> FALSE]

Put(files, n, file) == [m \in DOMAIN files \cup {n} |-> IF m = n THEN file ELSE files[m]]

-----------------------------------------------------------------------------
(* What a fallible step may lead to: a set of [ok, s].                     *)

Done(s) == [ok |-> TRUE, s |-> s]
Failed(s) == [ok |-> FALSE, s |-> s]

\* The ? operator: a failure ends the emit, a success goes on.
Then(results, Op(_)) ==
  {r \in results : ~r.ok} \cup UNION {Op(r.s) : r \in {x \in results : x.ok}}

\* Faulty variant: the file is truncated.
OpenTruncates(s) ==
  {Failed(s), Done([s EXCEPT !.files = Put(s.files, 0, <<>>), !.open = TRUE, !.len = 0])}

\* open_active: create or append, and measure.
open_active(s) ==
  LET files == IF 0 \in DOMAIN s.files THEN s.files ELSE Put(s.files, 0, <<>>)
  IN  {Failed(s), Done([s EXCEPT !.files = files, !.open = TRUE, !.len = Length(files[0])])}

EnsureOpen(s) == IF s.open THEN {Done(s)} ELSE open_active(s)

\* The newline that ends a stub is written before anything else is.
TerminateStub(s) ==
  IF ~s.torn THEN {Done(s)}
  ELSE IF s.len = 0 THEN {Done([s EXCEPT !.torn = FALSE])}
  ELSE {Failed([s EXCEPT !.open = FALSE]),
        Done([s EXCEPT !.files[0] = Append(@, Newline), !.len = @ + 1, !.torn = FALSE])}

\* The files once every number from "from" up has moved one up and the last is gone.
Shifted(files, from) ==
  LET moved == {n \in DOMAIN files : n >= from /\ n < Keep}
  IN  [n \in {m \in DOMAIN files : m < from} \cup {m + 1 : m \in moved} |->
         IF n < from THEN files[n] ELSE files[n - 1]]

\* rotate: from the oldest file down; it may stop after any of its operations.
rotate(s) ==
  {Failed([s EXCEPT !.files = Shifted(@, from)]) : from \in 1..(Keep + 1)}
    \cup {Done([s EXCEPT !.files = Shifted(@, 0)])}

RotateIfFull(s) ==
  IF ~(s.len > 0 /\ s.len + 2 > MaxBytes) THEN {Done(s)}
  ELSE Then(rotate([s EXCEPT !.open = FALSE, !.len = 0]), open_active)

Leftovers(i, life) == {<<>>, <<Stub("cut", i, life)>>, <<Stub("bare", i, life)>>}

\* Faulty variant: a failed write does not mark the line as torn.
WriteForgetsStub(s, i, life) ==
  {Done([s EXCEPT !.files[0] = Append(@, Line(i, life)), !.len = @ + 2])}
    \cup {Failed([s EXCEPT !.files[0] = @ \o rest, !.open = FALSE]) :
             rest \in Leftovers(i, life)}

\* The write of the line: on a failure the handle goes and the line is torn.
WriteLine(s, i, life) ==
  {Done([s EXCEPT !.files[0] = Append(@, Line(i, life)), !.len = @ + 2])}
    \cup {Failed([s EXCEPT !.files[0] = @ \o rest, !.open = FALSE, !.torn = TRUE]) :
             rest \in Leftovers(i, life)}

\* RotatingFileSink::try_emit.
try_emit(s, i, life) ==
  LET WriteOne(t) == WriteLine(t, i, life)
  IN  Then(Then(Then(EnsureOpen(s), TerminateStub), RotateIfFull), WriteOne)

\* EnvelopeWriterSink::emit_envelope: newline and line in one write.
StreamEmit(s, i, life) ==
  LET before == IF 0 \in DOMAIN s.files THEN s.files[0] ELSE <<>>
      lead == IF s.torn THEN <<Newline>> ELSE <<>>
      After(rest) == Put(s.files, 0, before \o rest)
  IN  {Done([s EXCEPT !.files = After(lead \o <<Line(i, life)>>), !.torn = FALSE])}
        \cup {Failed([s EXCEPT !.files = After(rest), !.torn = TRUE]) :
                rest \in {<<>>} \cup {lead \o l : l \in Leftovers(i, life)}}

\* What a new process finds: the files, but the log of a new container starts empty.
Restarted(s, durable) ==
  [NewSink EXCEPT !.files = IF durable = "file" THEN s.files ELSE <<>>]

-----------------------------------------------------------------------------
(* Reading the files back.                                                 *)

EndsLine(piece) == piece.kind \in {"line", "nl"}

\* Places <<file, position>> of the records written whole.
Places(s) == UNION {{<<n, k>> : k \in DOMAIN s.files[n]} : n \in DOMAIN s.files}
At(s, p) == s.files[p[1]][p[2]]
LinesOf(s, i) == {p \in Places(s) : At(s, p).kind = "line" /\ At(s, p).ev = i}
Before(p, q) == p[1] > q[1] \/ (p[1] = q[1] /\ p[2] < q[2])

\* Records on one line with the piece before them.
Glued(s) == {p \in Places(s) : p[2] > 1 /\ At(s, p).kind # "nl"
                                 /\ ~EndsLine(At(s, <<p[1], p[2] - 1>>))}

-----------------------------------------------------------------------------
(* The two sinks together.                                                 *)

CONSTANTS
  MaxEvents,   \* bound: events of a behaviour
  MaxCrashes   \* bound: restarts of a behaviour

VARIABLES
  durable,    \* "file" or "stdout"
  file,       \* the sink of FileSink
  dropped,    \* its counter
  life,       \* which process this is
  emitted,    \* events so far
  accepted,   \* history: events whose write returned Ok
  untidy      \* history: processes that died with torn set

fileVars == <<durable, file, dropped>>
fanoutVars == <<syslogVars, fileVars, life, emitted, accepted, untidy>>

FanoutInit ==
  /\ SyslogInit
  /\ durable \in {"file", "stdout"} /\ file = NewSink /\ dropped = 0
  /\ life = 1 /\ emitted = 0 /\ accepted = {} /\ untidy = {}

-----------------------------------------------------------------------------

FileEmit(i) == IF durable = "file" THEN try_emit(file, i, life) ELSE StreamEmit(file, i, life)

\* emit_envelope: every destination in turn, whatever the one before said.
FanoutEmit ==
  /\ emitted < MaxEvents /\ emitted' = emitted + 1
  /\ \E r \in FileEmit(emitted + 1) :
       /\ file' = r.s
       /\ dropped' = dropped + (IF r.ok THEN 0 ELSE 1)
       /\ accepted' = IF r.ok THEN accepted \cup {emitted + 1} ELSE accepted
       /\ send
  /\ UNCHANGED <<durable, life, untidy>>

\* The mark that a stub is to be terminated is in memory only.
DiesWith(s) ==
  /\ file' = Restarted(s, durable)
  /\ untidy' = IF s.torn THEN untidy \cup {life} ELSE untidy

\* Killed between two events, or while the node-local record is being written.
Crash ==
  /\ life <= MaxCrashes /\ life' = life + 1
  /\ \/ DiesWith(file) /\ emitted' = emitted
     \/ /\ emitted < MaxEvents /\ emitted' = emitted + 1
        /\ \E r \in FileEmit(emitted + 1) : DiesWith(r.s)
  /\ dropped' = 0
  /\ SyslogRestart
  /\ UNCHANGED <<durable, accepted>>

FanoutNext ==
  \/ (Tick \/ PeerGoes \/ PeerReturns)
       /\ UNCHANGED <<fileVars, life, emitted, accepted, untidy>>
  \/ FanoutEmit \/ Crash

FanoutSpec == FanoutInit /\ [][FanoutNext]_fanoutVars

-----------------------------------------------------------------------------
(* Within a process no record shares a line with the stub of another: not  *)
(* after a failed write, a newline that failed in its turn, a rotation cut *)
(* short or any number of them in a row (file.rs, torn).  Across a restart *)
(* one may, and only so: the earlier process died with torn set, that is   *)
(* in the middle of a record, or later, after a write that failed and      *)
(* before the newline it owed, and its stub swallows one record, the first *)
(* that a later process puts behind it.                                    *)
RecordsNeverGlue ==
  \A p \in Glued(file) :
    LET stub == At(file, <<p[1], p[2] - 1>>)
    IN  /\ stub.life < At(file, p).life
        /\ stub.life \in untidy
        /\ \A q \in Places(file) : At(file, q).life = stub.life => ~Before(p, q)

(* What the disk loses, it loses oldest first: of two records the sink     *)
(* took, the later one is on disk if the earlier is, and after it, even if *)
(* rotations were cut short or the process died in one (file.rs, rotate).  *)
OldestGoFirst ==
  \A i, j \in accepted :
    i < j /\ LinesOf(file, i) # {} =>
      LinesOf(file, j) # {} /\ \A p \in LinesOf(file, i), q \in LinesOf(file, j) : Before(p, q)

=============================================================================
