-------------------------- MODULE ControllerHealth --------------------------
(***************************************************************************)
(* ControllerHealth of ferrum-controller/src/health.rs and how run_watch   *)
(* of watch.rs uses it: watch loops that note what their requests did, the *)
(* rule that ends the process, and the status file.  The loops and the     *)
(* publisher are futures of one task and take turns at their awaits.       *)
(*                                                                         *)
(* What an event makes a loop request is abstract: a handler notes any     *)
(* sequence of successes, failures and unactionable objects before it ends.*)
(* Time is counted per class since its last failure.                       *)
(***************************************************************************)
EXTENDS Integers, Sequences, FiniteSets

CONSTANTS
  Classes,      \* FailureClass::ALL
  Watch, ExceptionPublish,
  Loops,        \* run_cluster_policy_watch, run_namespaced_policy_watch, run_exception_watch
  TERMINAL_RUN, TERMINAL_WINDOW,
  MaxNotes,     \* bound: notes of a behaviour
  MaxWaits,     \* bound: ticks of a behaviour
  MaxWriteFaults, MaxControllerRestarts   \* bounds: failed writes, restarts

ASSUME ControllerHealthAssumption ==
  Watch \in Classes /\ ExceptionPublish \in Classes /\ TERMINAL_RUN \in Nat \ {0} /\ TERMINAL_WINDOW \in Nat

VARIABLES
  class,      \* class -> [run, ever_ok, age, stuck]; age of the last failure
  changed, cstatus_failed,
  cfile,      \* status.json
  busy,       \* loops in the middle of an event
  exited,     \* run_watch returned the terminal error
  past,       \* history: class -> what it saw since the start, "f", "s" and ticks "t"
  notes, waits, cfaults, crestarts

controllerVars == <<class, changed, cstatus_failed, cfile, busy, exited, past,
                    notes, waits, cfaults, crestarts>>

NoAge == -1
NewClass == [run |-> 0, ever_ok |-> FALSE, age |-> NoAge, stuck |-> FALSE]
NoStatus == <<>>

\* The receipt of a call: the classes in which it had an answer.  A call that asked
\* the API server for nothing has none, and marks nothing.
Requested == {receipt \in SUBSET (Classes \ {Watch}) : receipt # {}}

\* So many failures in a row end a process, and so long a gap ends a row.
LongRun(run) == run >= TERMINAL_RUN
SameRun(age) == age <= TERMINAL_WINDOW   \* NoAge too

\* degraded_reasons: a class in a run, a class with objects no retry will mend,
\* or the status file itself.
ReasonsOf(c, failed) ==
  {<<"run", k>> : k \in {x \in Classes : c[x].run > 0}}
    \cup {<<"stuck", k>> : k \in {x \in Classes : c[x].stuck}}
    \cup (IF failed THEN {<<"unwritable">>} ELSE {})

\* status_json: the reasons, and the counters of each class.
StatusOf(c, failed) ==
  [reasons |-> ReasonsOf(c, failed),
   run |-> [k \in Classes |-> c[k].run], ever_ok |-> [k \in Classes |-> c[k].ever_ok]]
status_json == StatusOf(class, cstatus_failed)

-----------------------------------------------------------------------------
(* Publishing.                                                             *)

\* write_status, and the removal of the published file after a failure.
StatusWritten(content) ==
  {[ok |-> TRUE, file |-> content]} \cup {[ok |-> FALSE, file |-> f] : f \in {NoStatus, cfile}}

\* publish: the recovery of a write is news of its own.
publish(state, failed) ==
  \E w \in StatusWritten(StatusOf(state, failed)) :
    /\ cfaults' = cfaults + (IF w.ok THEN 0 ELSE 1) /\ cfaults' <= MaxWriteFaults
    /\ cfile' = w.file /\ cstatus_failed' = ~w.ok
    /\ changed' = (w.ok /\ failed)

\* publish_if_changed, at the end of an event.
publish_if_changed(state, news) ==
  IF news THEN publish(state, cstatus_failed)
  ELSE changed' = FALSE /\ UNCHANGED <<cfile, cstatus_failed, cfaults>>

ControllerInit ==
  /\ class = [k \in Classes |-> NewClass]
  /\ changed = FALSE /\ cstatus_failed = FALSE
  /\ cfile = StatusOf([k \in Classes |-> NewClass], FALSE)
  /\ busy = {} /\ exited = FALSE /\ past = [k \in Classes |-> <<>>]
  /\ notes = 0 /\ waits = 0 /\ cfaults = 0 /\ crestarts = 0

-----------------------------------------------------------------------------
(* Notes.                                                                  *)

Noting == notes < MaxNotes /\ notes' = notes + 1
Saw(k, what) == past' = [past EXCEPT ![k] = Append(@, what)]

\* note_class_success.
Succeeded(k) == [class EXCEPT ![k].run = 0, ![k].ever_ok = TRUE, ![k].age = NoAge]
SuccessIsNews(k) == ~class[k].ever_ok \/ class[k].run # 0

\* note_failure_at: a failure past the window starts a new run.
FailedAt(k) ==
  [class EXCEPT ![k].age = 0,
                ![k].run = IF SameRun(class[k].age) THEN class[k].run + 1 ELSE 1]

\* Faulty variant: a class that worked once can end the process too.
TerminalAnyway(state, k) == LongRun(state[k].run)

\* The terminal rule.
IsTerminal(state, k) == LongRun(state[k].run) /\ ~state[k].ever_ok

\* An event arrives: the watch worked.
EventArrives(l) ==
  /\ ~exited /\ l \notin busy /\ Noting
  /\ busy' = busy \cup {l}
  /\ class' = Succeeded(Watch) /\ changed' = (changed \/ SuccessIsNews(Watch))
  /\ Saw(Watch, "s")
  /\ UNCHANGED <<cstatus_failed, cfile, exited, waits, cfaults, crestarts>>

\* note_success: every class of the receipt of a call the handler made.
RequestWorks(l, receipt) ==
  /\ ~exited /\ l \in busy /\ Noting
  /\ class' = [k \in Classes |-> IF k \in receipt THEN Succeeded(k)[k] ELSE class[k]]
  /\ changed' = (changed \/ \E k \in receipt : SuccessIsNews(k))
  /\ past' = [k \in Classes |-> IF k \in receipt THEN Append(past[k], "s") ELSE past[k]]
  /\ UNCHANGED <<cstatus_failed, cfile, busy, exited, waits, cfaults, crestarts>>

\* note_unactionable: the list is replaced, never added to.
Unactionable(l, stuck) ==
  /\ ~exited /\ l \in busy /\ Noting
  /\ class' = [class EXCEPT ![ExceptionPublish].stuck = stuck]
  /\ changed' = (changed \/ class[ExceptionPublish].stuck # stuck)
  /\ UNCHANGED <<cstatus_failed, cfile, busy, exited, past, waits, cfaults, crestarts>>

\* One of several failures of an event: counted, and the handler goes on, or the
\* process ends before anything is published.
RequestFails(l, k) ==
  /\ ~exited /\ l \in busy /\ Noting
  /\ class' = FailedAt(k) /\ Saw(k, "f") /\ changed' = TRUE
  /\ exited' = IsTerminal(FailedAt(k), k)
  /\ UNCHANGED <<cstatus_failed, cfile, busy, waits, cfaults, crestarts>>

EventEnds(l) ==
  /\ ~exited /\ l \in busy /\ busy' = busy \ {l}
  /\ publish_if_changed(class, changed)
  /\ UNCHANGED <<class, exited, past, notes, waits, crestarts>>

\* The stream yields an error: noted and published in one turn.
StreamFails(l) ==
  /\ ~exited /\ l \notin busy /\ Noting
  /\ class' = FailedAt(Watch) /\ Saw(Watch, "f")
  /\ exited' = IsTerminal(FailedAt(Watch), Watch)
  /\ IF exited' THEN changed' = TRUE /\ UNCHANGED <<cfile, cstatus_failed, cfaults>>
     ELSE publish_if_changed(class', TRUE)
  /\ UNCHANGED <<busy, waits, crestarts>>

\* Faulty variant: the publisher writes what is new only.
PublishNews ==
  /\ ~exited /\ publish_if_changed(class, changed)
  /\ UNCHANGED <<class, busy, exited, past, notes, waits, crestarts>>

\* publish_status: every STATUS_INTERVAL.
PublishStatus ==
  /\ ~exited /\ publish(class, cstatus_failed)
  /\ UNCHANGED <<class, busy, exited, past, notes, waits, crestarts>>

Waits ==
  /\ ~exited /\ waits < MaxWaits /\ waits' = waits + 1
  /\ class' = [k \in Classes |-> IF class[k].age \in {NoAge, TERMINAL_WINDOW + 1} THEN class[k]
                                 ELSE [class[k] EXCEPT !.age = @ + 1]]
  /\ past' = [k \in Classes |-> Append(past[k], "t")]
  /\ UNCHANGED <<changed, cstatus_failed, cfile, busy, exited, notes, cfaults, crestarts>>

\* A new process publishes before its first event.
ControllerRestart ==
  /\ crestarts < MaxControllerRestarts /\ crestarts' = crestarts + 1
  /\ class' = [k \in Classes |-> NewClass] /\ busy' = {} /\ exited' = FALSE
  /\ past' = [k \in Classes |-> <<>>]
  /\ publish([k \in Classes |-> NewClass], FALSE)
  /\ UNCHANGED <<notes, waits>>

ControllerNext ==
  \/ \E l \in Loops :
       \/ EventArrives(l) \/ EventEnds(l) \/ StreamFails(l)
       \/ \E receipt \in Requested : RequestWorks(l, receipt)
       \/ \E k \in Classes \ {Watch} : RequestFails(l, k)
       \/ \E stuck \in BOOLEAN : Unactionable(l, stuck)
  \/ PublishStatus \/ Waits \/ ControllerRestart

\* The controller by itself, without the fairness its status file needs.
ControllerHealthSpec == ControllerInit /\ [][ControllerNext]_controllerVars

-----------------------------------------------------------------------------
(* The process has ended exactly when some class of it never worked and    *)
(* failed TERMINAL_RUN times with no gap longer than the window: neither a *)
(* class that worked, nor failures spread over a day, nor another class's  *)
(* run ends it, and a burst always does (note_failure_at).                 *)
Burst(h) ==
  LET failures == {i \in DOMAIN h : h[i] = "f"}
  IN  \E run \in SUBSET failures :
        /\ Cardinality(run) = TERMINAL_RUN
        /\ \A i \in failures : (\E j \in run : j < i) /\ (\E j \in run : j > i) => i \in run
        /\ \A i, j \in run : i < j /\ (\A x \in run : x <= i \/ x >= j)
                              => j - i - 1 <= TERMINAL_WINDOW
TerminalIsABurst ==
  exited <=> \E k \in Classes : Burst(past[k]) /\ \A i \in DOMAIN past[k] : past[k][i] # "s"

(* A running controller's file comes to say what its counters say, though  *)
(* writes fail, the old file cannot be removed, the recovery of a write    *)
(* itself is news, and a process ends without a last publication (publish, *)
(* publish_if_changed, publish_status).                                    *)
ControllerStatusSettles == <>[](exited \/ cfile = status_json)
=============================================================================
