----------------------------- MODULE WatchCache -----------------------------
(***************************************************************************)
(* The caches that the list-and-watch threads of ferrum-k8smeta keep: the  *)
(* pods of this node (source.rs, PodCache) and the labels of namespaces    *)
(* and service accounts (labels.rs, LabelCache).  Each stream w has one    *)
(* thread, which lists, watches from the version it listed, reconnects     *)
(* where a stream ends quietly and lists again where one ends in an error  *)
(* (watch.rs).  A reader may rely on a cache only while it is warm.        *)
(*                                                                         *)
(* The API server is the log of changes of each stream; a resourceVersion  *)
(* is a position in it.  A list with resourceVersion=0 may be answered     *)
(* from any past state.                                                    *)
(*                                                                         *)
(* Abstractions: time is the two thresholds it is compared with, each      *)
(* crossed in a step of its own; the three ceilings of a label cache are   *)
(* one value, TooBig, that it refuses; connecting is part of the step that *)
(* leads to it, and a connection that fails is a stream that fails at      *)
(* once; a list that fails changes nothing and has no step.                *)
(* Every item of a list is usable, as the API server stores no object      *)
(* without a name and a uid: one without would be left out in silence, and *)
(* the debt discharged all the same (parse_pod_list, parse_labels_list).   *)
(* An ERROR frame other than 410 has none either, unless it ends the       *)
(* stream as any frame does when the relist is due.                        *)
(***************************************************************************)
EXTENDS Integers, Sequences

CONSTANTS
    Objects,      \* the objects of each stream: a function of its name
    Values,       \* what an object of each stream may look like
    Foreign,      \* a pod bound to another node
    TooBig,       \* labels past a ceiling of the cache
    Absent,
    MaxChanges,   \* bound: changes the API server makes in each stream
    MaxFaults     \* bound: failures, of all streams and kinds together

Streams == DOMAIN Objects
LabelStreams == Streams \ {"pods"}

ASSUME StreamAssumption ==
    /\ DOMAIN Values = Streams
    /\ \A w \in Streams : Absent \notin Values[w]
    /\ "pods" \in Streams => TooBig \notin Values["pods"]
    /\ Foreign # TooBig /\ Absent \notin {Foreign, TooBig}
ASSUME WatchBounds == MaxChanges \in Nat /\ MaxFaults \in Nat

VARIABLES
    log,      \* per stream: the changes so far, each with the state it led to
    pc,       \* per stream: "relist" or "stream"
    pos,      \* per stream: the last change sent on the connection; 0 without one
    rv,       \* resource_version of the cache
    cache,    \* what the cache holds of each object
    listed,   \* a list completed and was not refused since
    fresh,    \* last_applied or fresh_at is within its budget
    owed,     \* relist_pending: "no", "yes", or "due" past the hold-down
    refused,  \* history: streams that dropped an object since the last list
    faults

watchVars == <<log, pc, pos, rv, cache, listed, fresh, owed, refused, faults>>

----------------------------------------------------------------------------
\* The objects of stream w after its first k changes.
StateAt(w, k) == IF k = 0 THEN [o \in Objects[w] |-> Absent] ELSE log[w][k].state

Now(w) == StateAt(w, Len(log[w]))

\* PodCache::upsert keeps no pod of another node, and evicts one that moved.
Held(value) == IF value = Foreign THEN Absent ELSE value

Contents(w, k) == [o \in Objects[w] |-> Held(StateAt(w, k)[o])]

Fits(w, state) == w \in LabelStreams => \A o \in Objects[w] : state[o] # TooBig

\* is_warm_at; of pods, freshness.
Warm(w) ==
    /\ w \in LabelStreams => listed[w]
    /\ owed[w] = "no"
    /\ fresh[w]

\* raise_relist_pending_at: a debt that stands keeps its deadline.
Raised(debt) == IF debt = "no" THEN "yes" ELSE debt

WatchInit ==
    /\ log = [w \in Streams |-> <<>>]
    /\ pc = [w \in Streams |-> "relist"]
    /\ pos = [w \in Streams |-> 0]
    /\ rv = [w \in Streams |-> 0]
    /\ cache = [w \in Streams |-> [o \in Objects[w] |-> Absent]]
    /\ listed = [w \in Streams |-> FALSE]
    /\ fresh = [w \in Streams |-> FALSE]
    /\ owed = [w \in Streams |-> "no"]
    /\ refused = {}
    /\ faults = 0

----------------------------------------------------------------------------
(* The world. *)

\* An object is created, changed or deleted.
Change(w) ==
    /\ Len(log[w]) < MaxChanges
    /\ \E o \in Objects[w], v \in Values[w] \cup {Absent} :
          /\ v # Now(w)[o]
          /\ log' = [log EXCEPT ![w] = Append(@, [object |-> o, state |-> [Now(w) EXCEPT ![o] = v]])]
    /\ UNCHANGED <<pc, pos, rv, cache, listed, fresh, owed, refused, faults>>

\* A step of the world that costs one of the failures.
Fault ==
    /\ faults < MaxFaults
    /\ faults' = faults + 1

\* RELIST_DEBT_HOLDDOWN passes over a standing debt.
HolddownPasses(w) ==
    /\ owed[w] = "yes"
    /\ owed' = [owed EXCEPT ![w] = "due"]
    /\ UNCHANGED <<log, pc, pos, rv, cache, listed, fresh, refused, faults>>

\* POD_WATCH_BUDGET or max_age passes without a frame.
Silence(w) ==
    /\ Fault
    /\ fresh[w]
    /\ fresh' = [fresh EXCEPT ![w] = FALSE]
    /\ UNCHANGED <<log, pc, pos, rv, cache, listed, owed, refused>>

----------------------------------------------------------------------------
(* One list and its watch: cycle. *)

\* watch_once: the server sends every change after version k.
Watch(w, k) ==
    /\ pc' = [pc EXCEPT ![w] = "stream"]
    /\ pos' = [pos EXCEPT ![w] = k]

\* The cycle ends, and the next one starts with a list.
EndCycle(w) ==
    /\ pc' = [pc EXCEPT ![w] = "relist"]
    /\ pos' = [pos EXCEPT ![w] = 0]

\* The list replaces the cache and discharges the debt ...
ListStored(w, k) ==
    /\ cache' = [cache EXCEPT ![w] = Contents(w, k)]
    /\ rv' = [rv EXCEPT ![w] = k]
    /\ listed' = [listed EXCEPT ![w] = TRUE]
    /\ fresh' = [fresh EXCEPT ![w] = TRUE]
    /\ owed' = [owed EXCEPT ![w] = "no"]
    /\ refused' = refused \ {w}
    /\ Watch(w, k)

\* ... and one with an object past the ceilings leaves it empty and cold.
ListRefused(w) ==
    /\ cache' = [cache EXCEPT ![w] = [o \in Objects[w] |-> Absent]]
    /\ listed' = [listed EXCEPT ![w] = FALSE]
    /\ fresh' = [fresh EXCEPT ![w] = FALSE]
    /\ UNCHANGED <<rv, owed, refused, pc, pos>>

RelistAt(w, k) ==
    /\ pc[w] = "relist"
    /\ IF Fits(w, StateAt(w, k)) THEN ListStored(w, k) ELSE ListRefused(w)
    /\ UNCHANGED <<log, faults>>

Relist(w) == \E k \in 0..Len(log[w]) : RelistAt(w, k)

\* Faulty variant: only another unreadable frame looks at the debt.
RelistIfDueOnUnreadable(w) ==
    /\ pc[w] = "stream" /\ owed[w] = "due"
    /\ Fault
    /\ EndCycle(w)
    /\ UNCHANGED <<log, rv, cache, listed, fresh, owed, refused>>

\* relist_if_due: whatever the frame says, the stream ends.
RelistIfDue(w) ==
    /\ pc[w] = "stream" /\ owed[w] = "due"
    /\ EndCycle(w)
    /\ UNCHANGED <<log, rv, cache, listed, fresh, owed, refused, faults>>

\* What every frame below starts from.
MayRead(w) == pc[w] = "stream" /\ owed[w] # "due"

\* apply_watch_line_at and apply_labels_line_at.  The version is recorded
\* before the object is stored; a refused object ends the stream, and no
\* debt is raised for it.
ReadChange(w) ==
    /\ MayRead(w) /\ pos[w] < Len(log[w])
    /\ LET object == log[w][pos[w] + 1].object
           value == log[w][pos[w] + 1].state[object]
           fits == w \in LabelStreams => value # TooBig
       IN  /\ rv' = [rv EXCEPT ![w] = pos[w] + 1]
           /\ fresh' = [fresh EXCEPT ![w] = TRUE]
           /\ cache' = IF fits THEN [cache EXCEPT ![w][object] = Held(value)]
                               ELSE cache
           /\ refused' = IF fits THEN refused ELSE refused \cup {w}
           /\ IF fits THEN pos' = [pos EXCEPT ![w] = @ + 1] /\ UNCHANGED pc
                      ELSE EndCycle(w)
    /\ UNCHANGED <<log, listed, owed, faults>>

\* A bookmark, which the server sends on a quiet stream too.
ReadBookmark(w) ==
    /\ MayRead(w) /\ pos[w] = Len(log[w])
    /\ rv' = [rv EXCEPT ![w] = pos[w]]
    /\ fresh' = [fresh EXCEPT ![w] = TRUE]
    /\ UNCHANGED <<log, pc, pos, cache, listed, owed, refused, faults>>

\* Faulty variant: the frame is skipped.
SkipUnreadable(w) == UNCHANGED owed

\* note_unreadable_frame: a debt, and the stream reads on.
NoteUnreadable(w) == owed' = [owed EXCEPT ![w] = Raised(@)]

ReadUnreadable(w) ==
    /\ Fault
    /\ MayRead(w) /\ pos[w] < Len(log[w])
    /\ pos' = [pos EXCEPT ![w] = @ + 1]
    /\ NoteUnreadable(w)
    /\ UNCHANGED <<log, pc, rv, cache, listed, fresh, refused>>

\* 410: as a frame, which for pods also proves the watch alive, or as the
\* status of the response, before any frame.
Gone(w) ==
    /\ Fault
    /\ \/ MayRead(w) /\ fresh' = [fresh EXCEPT ![w] = @ \/ w = "pods"]
       \/ pc[w] = "stream" /\ pos[w] = rv[w] /\ UNCHANGED fresh
    /\ owed' = [owed EXCEPT ![w] = Raised(@)]
    /\ EndCycle(w)
    /\ UNCHANGED <<log, rv, cache, listed, refused>>

\* The server closes the stream: watch again from the version of the cache.
Eof(w) ==
    /\ Fault
    /\ pc[w] = "stream"
    /\ Watch(w, rv[w])
    /\ UNCHANGED <<log, rv, cache, listed, fresh, owed, refused>>

\* A read or a connection fails or times out: back to the list.
ReadFails(w) ==
    /\ Fault
    /\ pc[w] = "stream"
    /\ EndCycle(w)
    /\ UNCHANGED <<log, rv, cache, listed, fresh, owed, refused>>

ThreadStep(w) ==
    \/ Relist(w) \/ RelistIfDue(w)
    \/ ReadChange(w) \/ ReadBookmark(w)

WatchStep(w) ==
    \/ Change(w) \/ HolddownPasses(w) \/ Silence(w)
    \/ ThreadStep(w)
    \/ ReadUnreadable(w) \/ Gone(w) \/ Eof(w) \/ ReadFails(w)

----------------------------------------------------------------------------
(* Properties. *)

WatchTypeOK ==
    /\ \A w \in Streams :
          /\ log[w] \in Seq([object : Objects[w], state : [Objects[w] -> Values[w] \cup {Absent}]])
          /\ cache[w] \in [Objects[w] -> (Values[w] \ {Foreign, TooBig}) \cup {Absent}]
          /\ {pos[w], rv[w]} \subseteq 0..Len(log[w])
    /\ pc \in [Streams -> {"relist", "stream"}]
    /\ {listed, fresh} \subseteq [Streams -> BOOLEAN]
    /\ owed \in [Streams -> {"no", "yes", "due"}]
    /\ refused \subseteq LabelStreams
    /\ faults \in 0..MaxFaults

\* A cache that calls itself warm has no hole: it holds exactly what the API
\* server held at the version it carries, whatever frames were unreadable,
\* whichever connections ended and wherever the watch resumed.  (is_warm_at
\* and freshness: relist_pending is what makes it so.)  A label cache that
\* refused a change is excepted until its relist: no debt is raised there.
WarmHasNoHole ==
    \A w \in Streams \ refused : Warm(w) => cache[w] = Contents(w, rv[w])

=============================================================================
