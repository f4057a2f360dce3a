----------------------------- MODULE SyslogSink -----------------------------
(***************************************************************************)
(* The SIEM destination: SyslogSink of ferrum-siem/src/sink.rs, one        *)
(* connection with a quiet period after a failure, and the counter and the *)
(* flag it reports.                                                        *)
(*                                                                         *)
(* The peer comes and goes.  A connection it has dropped may still take a  *)
(* write before the sink learns of it; a datagram is never refused.        *)
(***************************************************************************)
EXTENDS Integers

CONSTANTS
  BACKOFF,      \* quiet period, in ticks
  IO_TIMEOUT,   \* the longest a connect or a write takes, in ticks
  MaxTime,      \* bound: ticks of a behaviour
  MaxFlips      \* bound: how often the peer goes or comes back

ASSUME SyslogAssumption ==
  /\ BACKOFF \in Nat \ {0} /\ IO_TIMEOUT \in Nat
  /\ MaxTime \in Nat /\ MaxFlips \in Nat

VARIABLES
  now, flips,
  transport,   \* "udp" or "tcp"
  peer,        \* history: [up, first]: is it reachable, and when it was first refused
               \* an event since it last came back
  conn,        \* Conn: [kind, retry_after, alive]
  siem,        \* [failed, up]: the counter and the flag
  attempts     \* history: [failed_at, gap, last]: the last attempt that failed, how long
               \* after it the next was made, and the last refusal while the peer is up

syslogVars == <<now, flips, transport, peer, conn, siem, attempts>>

Never == -1
Idle(retry_after) == [kind |-> "idle", retry_after |-> retry_after, alive |-> FALSE]
Connected == [kind |-> "open", retry_after |-> Never, alive |-> TRUE]

SyslogInit ==
  /\ now = 0 /\ flips = 0
  /\ transport \in {"udp", "tcp"}
  /\ peer = [up |-> TRUE, first |-> Never]
  /\ conn = Idle(Never)
  /\ siem = [failed |-> 0, up |-> TRUE]
  /\ attempts = [failed_at |-> Never, gap |-> Never, last |-> Never]

SyslogRestart ==
  /\ conn' = Idle(Never) /\ siem' = [failed |-> 0, up |-> TRUE]
  /\ peer' = [peer EXCEPT !.first = Never]
  /\ attempts' = [failed_at |-> Never, gap |-> Never, last |-> Never]
  /\ UNCHANGED <<now, flips, transport>>

-----------------------------------------------------------------------------
(* The other side.                                                         *)

Tick ==
  /\ now < MaxTime /\ now' = now + 1
  /\ UNCHANGED <<flips, transport, peer, conn, siem, attempts>>

\* A connection does not survive the outage.
PeerGoes ==
  /\ peer.up /\ flips < MaxFlips /\ flips' = flips + 1
  /\ peer' = [up |-> FALSE, first |-> Never]
  /\ conn' = [conn EXCEPT !.alive = FALSE]
  /\ attempts' = [attempts EXCEPT !.last = Never]
  /\ UNCHANGED <<now, transport, siem>>

PeerReturns ==
  /\ ~peer.up /\ flips < MaxFlips /\ flips' = flips + 1
  /\ peer' = [up |-> TRUE, first |-> Never]
  /\ UNCHANGED <<now, transport, conn, siem, attempts>>

-----------------------------------------------------------------------------
(* send.                                                                   *)

\* An attempt starting now and ending at "end".
Attempt(ok, end) ==
  [attempts EXCEPT
     !.gap = IF attempts.failed_at = Never THEN Never ELSE now - attempts.failed_at,
     !.failed_at = IF ok THEN Never ELSE end]

\* How long one operation may take: a peer that is there answers at once.
Ends == IF peer.up THEN {now} ELSE {t \in now..(now + IO_TIMEOUT) : t <= MaxTime}

InBackoff == conn.kind = "idle" /\ conn.retry_after # Never /\ now < conn.retry_after

\* open: resolving and binding may fail for a datagram socket, connecting for a stream.
MayConnect(ok) == IF ok THEN transport = "udp" \/ peer.up ELSE ~peer.up

\* A connect that fails leaves the state as it found it.
AfterConnect(ok) == IF ok THEN Connected ELSE conn

\* Faulty variant: a failed write keeps the connection.
AfterWriteKept(ok, alive, end) == [Connected EXCEPT !.alive = alive]

\* A failed write closes the connection and starts the quiet period.
AfterWrite(ok, alive, end) ==
  IF ok THEN [Connected EXCEPT !.alive = alive] ELSE Idle(end + BACKOFF)

\* A write to a connection the peer has dropped may fail, or be lost unseen.
MayWrite(ok, alive) == IF ok THEN TRUE ELSE transport = "tcp" /\ ~alive

\* note: every event that was not sent, held back ones too, is counted.
note(ok) == IF ok THEN [siem EXCEPT !.up = TRUE]
            ELSE [failed |-> siem.failed + 1, up |-> FALSE]

\* History: when the peer first and last refused an event while it was up.
Recorded(a, ok, end) ==
  IF ok \/ ~peer.up THEN peer' = peer /\ attempts' = a
  ELSE /\ peer' = [peer EXCEPT !.first = IF @ = Never THEN end ELSE @]
       /\ attempts' = [a EXCEPT !.last = end]

HeldBack ==
  /\ InBackoff
  /\ conn' = conn /\ now' = now /\ siem' = note(FALSE)
  /\ Recorded(attempts, FALSE, now)

ConnectFails ==
  /\ conn.kind = "idle" /\ ~InBackoff /\ MayConnect(FALSE)
  /\ \E end \in Ends :
       /\ now' = end /\ conn' = AfterConnect(FALSE) /\ siem' = note(FALSE)
       /\ Recorded(Attempt(FALSE, end), FALSE, end)

\* Connected before or just now, then the write.
SyslogWrite ==
  /\ conn.kind = "open" \/ (~InBackoff /\ MayConnect(TRUE))
  /\ \E ok \in BOOLEAN, end \in Ends :
       LET alive == IF conn.kind = "open" THEN conn.alive ELSE AfterConnect(TRUE).alive
       IN  /\ MayWrite(ok, alive)
           /\ now' = end /\ conn' = AfterWrite(ok, alive, end) /\ siem' = note(ok)
           /\ Recorded(Attempt(ok, end), ok, end)

send == (HeldBack \/ ConnectFails \/ SyslogWrite) /\ UNCHANGED <<flips, transport>>

-----------------------------------------------------------------------------
(* Once the peer is back, the events it costs lie within one quiet period  *)
(* of the first it costs: a dropped connection is found out by one write,  *)
(* and neither it nor the quiet period outlives that (send).               *)
OneWindowPerOutage ==
  attempts.last # Never => attempts.last - peer.first < BACKOFF

-----------------------------------------------------------------------------
(* What the comments say, and the code does not do.                        *)

(* "Nothing is sent and nothing is attempted until it passes" (sink.rs,    *)
(* BACKOFF): no attempt within the quiet period of one that failed.  A     *)
(* connect that fails leaves no retry time behind.                         *)
NothingWithinBackoff == attempts.gap # Never => attempts.gap >= BACKOFF
=============================================================================
