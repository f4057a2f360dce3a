------------------------- MODULE PodIdentityProofs --------------------------
(***************************************************************************)
(* Proofs about the watch caches and the identities built from them, for   *)
(* any number of pods, namespaces and label values, and any bounds.        *)
(***************************************************************************)
EXTENDS PodIdentity, TLAPS

----------------------------------------------------------------------------
(* The inductive invariant. *)

\* The variables are functions of the streams.
Shapes ==
    /\ DOMAIN log = Streams /\ DOMAIN cache = Streams
    /\ pc \in [Streams -> {"relist", "stream"}]
    /\ pos \in [Streams -> Nat] /\ rv \in [Streams -> Nat]
    /\ listed \in [Streams -> BOOLEAN] /\ fresh \in [Streams -> BOOLEAN]
    /\ owed \in [Streams -> {"no", "yes", "due"}]
    /\ refused \subseteq LabelStreams
    /\ faults \in Nat /\ faults <= MaxFaults

States(w) == [Objects[w] -> Values[w] \cup {Absent}]

Holdings(w) == [Objects[w] -> (Values[w] \ {Foreign, TooBig}) \cup {Absent}]

StreamTypes(w) ==
    /\ log[w] \in Seq([object : Objects[w], state : States(w)])
    /\ cache[w] \in Holdings(w)
    /\ pos[w] <= Len(log[w]) /\ rv[w] <= Len(log[w])

\* A change leaves every other object as it was.
Chained(w) ==
    \A k \in 1..Len(log[w]) : \A o \in Objects[w] :
        o # log[w][k].object => log[w][k].state[o] = StateAt(w, k - 1)[o]

\* While a stream without a debt is read, nothing it sent was skipped.
InStep(w) ==
    pc[w] = "stream" =>
        /\ w \notin refused
        /\ w \in LabelStreams => listed[w]
        /\ owed[w] = "no" => pos[w] = rv[w]

\* A cache that was listed, owes nothing and refused nothing has no hole,
\* whether or not it is fresh.
Whole(w) ==
    /\ w \in LabelStreams => listed[w]
    /\ owed[w] = "no"
    /\ w \notin refused
    => cache[w] = Contents(w, rv[w])

StreamInv(w) == StreamTypes(w) /\ Chained(w) /\ InStep(w) /\ Whole(w)

WatchInv == Shapes /\ \A w \in Streams : StreamInv(w)

Identities ==
    [pod : Values["pods"] \ {Foreign, Starting},
     labels : (Values["namespaces"] \ {TooBig}) \cup {Unobserved}]

IndexTypes ==
    /\ dirs \subseteq Pods
    /\ dirMoves \in 0..MaxDirMoves
    /\ index \in [Pods -> {Absent} \cup Identities]

IInv == WatchInv /\ IndexTypes

----------------------------------------------------------------------------
(* Lemmas about the operators. *)

\* An element of a sequence over S is in S.
LEMMA SeqElement ==
    ASSUME NEW S, NEW s \in Seq(S), NEW k \in 1..Len(s)
    PROVE  s[k] \in S
  OBVIOUS

\* A state of the log is a state of the stream.
LEMMA StateType ==
    ASSUME NEW w \in Streams, StreamTypes(w), NEW k \in Nat, k <= Len(log[w])
    PROVE  StateAt(w, k) \in States(w)
<1>1. CASE k = 0
  BY <1>1 DEF StateAt, States
<1>2. CASE k # 0
  <2>1. k \in 1..Len(log[w])
    BY <1>2 DEF StreamTypes
  <2>2. log[w][k] \in [object : Objects[w], state : States(w)]
    BY <2>1, SeqElement DEF StreamTypes
  <2> QED
    BY <1>2, <2>2 DEF StateAt
<1> QED
  BY <1>1, <1>2

\* A list that fits gives contents that the cache may hold.
LEMMA ContentsType ==
    ASSUME NEW w \in Streams, StreamTypes(w), NEW k \in Nat, k <= Len(log[w]),
           Fits(w, StateAt(w, k))
    PROVE  Contents(w, k) \in Holdings(w)
<1>1. StateAt(w, k) \in States(w)
  BY StateType
<1>2. \A o \in Objects[w] : StateAt(w, k)[o] # TooBig
  BY <1>1, StreamAssumption DEF Fits, States, LabelStreams
<1> QED
  BY <1>1, <1>2, StreamAssumption DEF Contents, Held, Holdings, States

\* What does not touch a stream keeps its invariant.
LEMMA Untouched ==
    ASSUME NEW v \in Streams, StreamInv(v),
           log'[v] = log[v], cache'[v] = cache[v], pos'[v] = pos[v], rv'[v] = rv[v],
           pc'[v] = pc[v], listed'[v] = listed[v], owed'[v] = owed[v],
           v \in refused' <=> v \in refused
    PROVE  StreamInv(v)'
<1>1. \A k : StateAt(v, k)' = StateAt(v, k)
  BY DEF StateAt
<1>2. \A k : Contents(v, k)' = Contents(v, k)
  BY <1>1 DEF Contents
<1> QED
  BY <1>1, <1>2 DEF StreamInv, StreamTypes, Chained, InStep, Whole

\* States, contents and the chain depend on the log alone.
LEMMA SameLog ==
    ASSUME NEW v \in Streams, log'[v] = log[v]
    PROVE  /\ \A k : StateAt(v, k)' = StateAt(v, k)
           /\ \A k : Contents(v, k)' = Contents(v, k)
           /\ Chained(v) => Chained(v)'
<1>1. \A k : StateAt(v, k)' = StateAt(v, k)
  BY DEF StateAt
<1>2. \A k : Contents(v, k)' = Contents(v, k)
  BY <1>1 DEF Contents
<1> QED
  BY <1>1, <1>2 DEF Chained

----------------------------------------------------------------------------
(* One lemma per action: the stream that moves keeps its invariant. *)

\* A change at the API server, which no version of the cache covers yet.
LEMMA ChangeKeeps ==
    ASSUME Shapes, NEW w \in Streams, StreamInv(w), Change(w)
    PROVE  StreamInv(w)'
<1> DEFINE n == Len(log[w])
<1>1. PICK o \in Objects[w], v \in Values[w] \cup {Absent} :
         log' = [log EXCEPT ![w] = Append(@, [object |-> o, state |-> [Now(w) EXCEPT ![o] = v]])]
  BY DEF Change
<1> DEFINE e == [object |-> o, state |-> [Now(w) EXCEPT ![o] = v]]
<1>2. n \in Nat /\ log[w] \in Seq([object : Objects[w], state : States(w)])
  BY DEF StreamInv, StreamTypes
<1>3. Now(w) \in States(w)
  BY <1>2, StateType DEF StreamInv, Now
<1>4. e \in [object : Objects[w], state : States(w)]
  <2>1. [Now(w) EXCEPT ![o] = v] \in States(w)
    BY <1>3 DEF States
  <2> QED
    BY <2>1
<1>5. log'[w] = Append(log[w], e)
  BY <1>1 DEF Shapes
<1> HIDE DEF e
<1>6. /\ log'[w] \in Seq([object : Objects[w], state : States(w)])
      /\ Len(log'[w]) = n + 1
      /\ \A k \in 1..n : log'[w][k] = log[w][k]
      /\ log'[w][n + 1] = e
  BY <1>2, <1>4, <1>5
<1>7. \A k \in Nat : k <= n => StateAt(w, k)' = StateAt(w, k)
  BY <1>2, <1>6 DEF StateAt
<1>8. \A k \in Nat : k <= n => Contents(w, k)' = Contents(w, k)
  BY <1>7 DEF Contents
<1>9. StreamTypes(w)'
  BY <1>2, <1>6 DEF StreamInv, StreamTypes, Change, Shapes, States, Holdings
<1>10. Chained(w)'
  <2> SUFFICES ASSUME NEW k \in 1..(n + 1), NEW x \in Objects[w], x # log'[w][k].object
               PROVE  log'[w][k].state[x] = StateAt(w, k - 1)'[x]
    BY <1>6 DEF Chained
  <2>1. k - 1 \in Nat /\ k - 1 <= n
    BY <1>2
  <2>2. StateAt(w, k - 1)' = StateAt(w, k - 1)
    BY <1>7, <2>1
  <2>3. CASE k \in 1..n
    BY <1>6, <2>2, <2>3 DEF StreamInv, Chained
  <2>4. CASE k = n + 1
    <3>1. StateAt(w, k - 1) = Now(w)
      BY <1>2, <2>4 DEF Now
    <3>2. log'[w][k].state[x] = Now(w)[x]
      BY <1>3, <1>6, <2>4 DEF e, States
    <3> QED
      BY <2>2, <3>1, <3>2
  <2> QED
    BY <1>2, <2>3, <2>4
<1>11. InStep(w)'
  BY DEF StreamInv, InStep, Change
<1>12. Whole(w)'
  <2>1. rv[w] \in Nat /\ rv[w] <= n
    BY DEF StreamInv, StreamTypes, Shapes
  <2>2. Contents(w, rv[w])' = Contents(w, rv[w])
    BY <1>8, <2>1 DEF Change
  <2> QED
    BY <2>2 DEF StreamInv, Whole, Change
<1> QED
  BY <1>9, <1>10, <1>11, <1>12 DEF StreamInv

\* Steps that move neither the cache nor its version.
LEMMA QuietKeeps ==
    ASSUME Shapes, NEW w \in Streams, StreamInv(w),
           \/ HolddownPasses(w) \/ Silence(w) \/ RelistIfDue(w) \/ ReadFails(w)
           \/ Gone(w) \/ Eof(w) \/ ReadUnreadable(w)
    PROVE  StreamInv(w)'
<1>1. /\ log' = log /\ cache' = cache /\ rv' = rv /\ listed' = listed /\ refused' = refused
      /\ pos'[w] \in Nat /\ pos'[w] <= Len(log[w])
      /\ owed'[w] = "no" => owed[w] = "no"
      /\ pc'[w] = "stream" => pc[w] = "stream" /\ (owed'[w] = "no" => pos'[w] = rv[w])
  <2>1. Len(log[w]) \in Nat /\ pos[w] \in Nat /\ rv[w] \in Nat
    BY DEF StreamInv, StreamTypes, Shapes
  <2>2. CASE HolddownPasses(w) \/ Silence(w)
    BY <2>1, <2>2 DEF HolddownPasses, Silence, Shapes, StreamInv, StreamTypes, InStep
  <2>3. CASE RelistIfDue(w) \/ ReadFails(w)
    BY <2>1, <2>3 DEF RelistIfDue, ReadFails, EndCycle, Shapes
  <2>4. CASE Gone(w)
    BY <2>1, <2>4 DEF Gone, EndCycle, Raised, Shapes
  <2>5. CASE Eof(w)
    BY <2>1, <2>5 DEF Eof, Watch, Shapes, StreamInv, StreamTypes
  <2>6. CASE ReadUnreadable(w)
    BY <2>1, <2>6 DEF ReadUnreadable, NoteUnreadable, MayRead, Raised, Shapes, StreamInv, StreamTypes
  <2> QED
    BY <2>2, <2>3, <2>4, <2>5, <2>6
<1>2. StreamTypes(w)'
  BY <1>1 DEF StreamInv, StreamTypes, States, Holdings
<1>3. Chained(w)'
  BY <1>1, SameLog DEF StreamInv
<1>4. InStep(w)'
  BY <1>1 DEF StreamInv, InStep
<1>5. Whole(w)'
  BY <1>1, SameLog DEF StreamInv, Whole
<1> QED
  BY <1>2, <1>3, <1>4, <1>5 DEF StreamInv

\* A list replaces the cache, or leaves it empty and cold.
LEMMA RelistKeeps ==
    ASSUME Shapes, NEW w \in Streams, StreamInv(w), Relist(w)
    PROVE  StreamInv(w)'
<1>1. PICK k \in 0..Len(log[w]) : RelistAt(w, k)
  BY DEF Relist
<1>2. k \in Nat /\ k <= Len(log[w]) /\ Len(log[w]) \in Nat /\ log' = log
  BY <1>1 DEF StreamInv, StreamTypes, RelistAt
<1>3. Chained(w)'
  BY <1>2, SameLog DEF StreamInv
<1>4. CASE Fits(w, StateAt(w, k))
  <2>1. ListStored(w, k)
    BY <1>1, <1>4 DEF RelistAt
  <2>2. Contents(w, k) \in Holdings(w)
    BY <1>2, <1>4, ContentsType DEF StreamInv
  <2>3. /\ cache'[w] = Contents(w, k) /\ rv'[w] = k /\ pos'[w] = k
        /\ listed'[w] /\ w \notin refused'
    BY <2>1 DEF ListStored, Watch, Shapes
  <2>4. StreamTypes(w)'
    BY <1>2, <2>2, <2>3 DEF StreamInv, StreamTypes, States, Holdings
  <2>5. InStep(w)'
    BY <2>3 DEF InStep
  <2>6. Whole(w)'
    BY <1>2, <2>3, SameLog DEF Whole
  <2> QED
    BY <1>3, <2>4, <2>5, <2>6 DEF StreamInv
<1>5. CASE ~Fits(w, StateAt(w, k))
  <2>1. ListRefused(w) /\ w \in LabelStreams /\ pc[w] = "relist"
    BY <1>1, <1>5 DEF RelistAt, Fits
  <2>2. /\ cache'[w] = [o \in Objects[w] |-> Absent]
        /\ rv' = rv /\ pos' = pos /\ pc'[w] = "relist" /\ ~listed'[w]
    BY <2>1 DEF ListRefused, Shapes
  <2>3. StreamTypes(w)'
    BY <1>2, <2>2 DEF StreamInv, StreamTypes, States, Holdings
  <2> QED
    BY <1>3, <2>1, <2>2, <2>3 DEF StreamInv, InStep, Whole
<1> QED
  BY <1>4, <1>5

\* A bookmark moves the version only where nothing was skipped.
LEMMA ReadBookmarkKeeps ==
    ASSUME Shapes, NEW w \in Streams, StreamInv(w), ReadBookmark(w)
    PROVE  StreamInv(w)'
<1>1. /\ log' = log /\ cache' = cache /\ pos' = pos /\ pc' = pc /\ listed' = listed
      /\ owed' = owed /\ refused' = refused /\ rv'[w] = pos[w]
      /\ pc[w] = "stream"
  BY DEF ReadBookmark, MayRead, Shapes
<1>2. StreamTypes(w)'
  BY <1>1 DEF StreamInv, StreamTypes, States, Holdings
<1>3. Chained(w)'
  BY <1>1, SameLog DEF StreamInv
<1>4. InStep(w)'
  BY <1>1 DEF StreamInv, InStep
<1>5. Whole(w)'
  BY <1>1, SameLog DEF StreamInv, Whole, InStep
<1> QED
  BY <1>2, <1>3, <1>4, <1>5 DEF StreamInv

\* An event takes the cache from one version to the next.
LEMMA ReadChangeKeeps ==
    ASSUME Shapes, NEW w \in Streams, StreamInv(w), ReadChange(w)
    PROVE  StreamInv(w)'
<1> DEFINE k == pos[w] + 1
           object == log[w][k].object
           value == log[w][k].state[object]
           fits == w \in LabelStreams => value # TooBig
<1>1. /\ pos[w] \in Nat /\ rv[w] \in Nat /\ Len(log[w]) \in Nat
      /\ pc[w] = "stream" /\ pos[w] < Len(log[w])
      /\ log' = log /\ listed' = listed /\ owed' = owed
      /\ rv'[w] = k
  BY DEF ReadChange, MayRead, Shapes, StreamInv, StreamTypes
<1>2. k \in 1..Len(log[w])
  BY <1>1
<1>3. log[w][k] \in [object : Objects[w], state : States(w)]
  BY <1>2, SeqElement DEF StreamInv, StreamTypes
<1>4. object \in Objects[w] /\ value \in Values[w] \cup {Absent}
  BY <1>3 DEF States
<1>5. Chained(w)'
  BY <1>1, SameLog DEF StreamInv
<1>6. CASE fits
  <2>1. /\ cache'[w] = [cache[w] EXCEPT ![object] = Held(value)]
        /\ refused' = refused /\ pc' = pc /\ pos'[w] = k
    BY <1>6 DEF ReadChange, Shapes
  <2>2. Held(value) \in (Values[w] \ {Foreign, TooBig}) \cup {Absent}
    BY <1>4, <1>6, StreamAssumption DEF Held, LabelStreams
  <2>3. StreamTypes(w)'
    <3>1. cache'[w] \in Holdings(w)
      BY <1>4, <2>1, <2>2 DEF StreamInv, StreamTypes, Holdings
    <3>2. pos'[w] <= Len(log[w]) /\ rv'[w] <= Len(log[w])
      BY <1>1, <1>2, <2>1
    <3> QED
      BY <1>1, <3>1, <3>2 DEF StreamInv, StreamTypes, States, Holdings
  <2>4. InStep(w)'
    BY <1>1, <2>1 DEF StreamInv, InStep
  <2>5. Whole(w)'
    <3> SUFFICES ASSUME owed[w] = "no"
                 PROVE  cache'[w] = Contents(w, k)
      BY <1>1, SameLog DEF Whole
    <3>1. pos[w] = rv[w] /\ cache[w] = Contents(w, pos[w])
      BY <1>1 DEF StreamInv, InStep, Whole
    <3>2. StateAt(w, k) = log[w][k].state /\ k - 1 = pos[w]
      BY <1>1 DEF StateAt
    <3>3. \A o \in Objects[w] : o # object => StateAt(w, k)[o] = StateAt(w, pos[w])[o]
      BY <1>2, <3>2 DEF StreamInv, Chained
    <3>4. \A o \in Objects[w] : cache'[w][o] = Held(StateAt(w, k)[o])
      BY <1>4, <2>1, <3>1, <3>2, <3>3 DEF Contents
    <3>5. cache'[w] \in Holdings(w)
      BY <2>3 DEF StreamTypes, Holdings
    <3> QED
      BY <3>4, <3>5 DEF Contents, Holdings
  <2> QED
    BY <1>5, <2>3, <2>4, <2>5 DEF StreamInv
<1>7. CASE ~fits
  <2>1. /\ cache' = cache /\ w \in refused' /\ pc'[w] = "relist" /\ pos'[w] = 0
    BY <1>7 DEF ReadChange, EndCycle, Shapes
  <2>2. StreamTypes(w)'
    BY <1>1, <1>2, <2>1 DEF StreamInv, StreamTypes, States, Holdings
  <2> QED
    BY <1>5, <2>1, <2>2 DEF StreamInv, InStep, Whole
<1> QED
  BY <1>6, <1>7

----------------------------------------------------------------------------
(* The whole of Next. *)

\* The caches start empty, at version 0, which is the state of the empty log.
LEMMA WatchInitial == WatchInit => WatchInv
<1> SUFFICES ASSUME WatchInit PROVE WatchInv
  OBVIOUS
<1>1. Shapes
  BY WatchBounds DEF WatchInit, Shapes
<1>2. ASSUME NEW w \in Streams PROVE StreamInv(w)
  <2>1. /\ log[w] = <<>> /\ pos[w] = 0 /\ rv[w] = 0 /\ pc[w] = "relist"
        /\ cache[w] = [o \in Objects[w] |-> Absent]
    BY DEF WatchInit
  <2>2. Contents(w, 0) = [o \in Objects[w] |-> Absent]
    BY DEF Contents, StateAt, Held
  <2> QED
    BY <2>1, <2>2 DEF StreamInv, StreamTypes, Chained, InStep, Whole, Holdings
<1> QED
  BY <1>1, <1>2 DEF WatchInv

\* What a step of stream w must leave alone.
Local(w) ==
    \A v \in Streams \ {w} :
        /\ log'[v] = log[v] /\ cache'[v] = cache[v]
        /\ pos'[v] = pos[v] /\ rv'[v] = rv[v]
        /\ pc'[v] = pc[v] /\ listed'[v] = listed[v] /\ owed'[v] = owed[v]
        /\ v \in refused' <=> v \in refused

\* A list of one stream leaves the others alone.
LEMMA RelistIsLocal ==
    ASSUME Shapes, NEW w \in Streams, Relist(w)
    PROVE  Shapes' /\ Local(w)
<1>1. PICK k \in 0..Len(log[w]) : RelistAt(w, k)
  BY DEF Relist
<1>2. k \in Nat
  BY <1>1
<1>3. log' = log /\ faults' = faults
  BY <1>1 DEF RelistAt
<1>4. CASE ListStored(w, k)
  <2>1. /\ pc' = [pc EXCEPT ![w] = "stream"]
        /\ pos' = [pos EXCEPT ![w] = k]
        /\ rv' = [rv EXCEPT ![w] = k]
        /\ owed' = [owed EXCEPT ![w] = "no"]
        /\ refused' = refused \ {w}
    BY <1>4 DEF ListStored, Watch
  <2>2. /\ cache' = [cache EXCEPT ![w] = Contents(w, k)]
        /\ listed' = [listed EXCEPT ![w] = TRUE]
        /\ fresh' = [fresh EXCEPT ![w] = TRUE]
    BY <1>4 DEF ListStored
  <2>3. listed' \in [Streams -> BOOLEAN] /\ fresh' \in [Streams -> BOOLEAN]
    BY <2>2 DEF Shapes
  <2>4. Shapes'
    BY <1>2, <1>3, <2>1, <2>2, <2>3 DEF Shapes
  <2>5. Local(w)
    BY <1>3, <2>1, <2>2 DEF Local, Shapes
  <2> QED
    BY <2>4, <2>5
<1>5. CASE ListRefused(w)
  <2>1. listed' \in [Streams -> BOOLEAN] /\ fresh' \in [Streams -> BOOLEAN]
    BY <1>5 DEF ListRefused, Shapes
  <2>2. Shapes'
    BY <1>3, <1>5, <2>1 DEF ListRefused, Shapes
  <2>3. Local(w)
    BY <1>3, <1>5 DEF Local, ListRefused, Shapes
  <2> QED
    BY <2>2, <2>3
<1> QED
  BY <1>1, <1>4, <1>5 DEF RelistAt

\* An event of one stream leaves the others alone.
LEMMA ReadChangeIsLocal ==
    ASSUME Shapes, NEW w \in Streams, ReadChange(w)
    PROVE  Shapes' /\ Local(w)
<1> DEFINE object == log[w][pos[w] + 1].object
           value == log[w][pos[w] + 1].state[object]
           fits == w \in LabelStreams => value # TooBig
<1>1. /\ log' = log /\ listed' = listed /\ owed' = owed /\ faults' = faults
      /\ rv' = [rv EXCEPT ![w] = pos[w] + 1]
      /\ fresh' = [fresh EXCEPT ![w] = TRUE]
  BY DEF ReadChange
<1>2. fresh' \in [Streams -> BOOLEAN] /\ rv' \in [Streams -> Nat]
  BY <1>1 DEF Shapes
<1>3. CASE fits
  <2>1. /\ cache' = [cache EXCEPT ![w] = [@ EXCEPT ![object] = Held(value)]]
        /\ pos' = [pos EXCEPT ![w] = @ + 1] /\ pc' = pc /\ refused' = refused
    BY <1>3 DEF ReadChange
  <2>2. Shapes'
    BY <1>1, <1>2, <2>1 DEF Shapes
  <2>3. Local(w)
    BY <1>1, <2>1 DEF Local, Shapes
  <2> QED
    BY <2>2, <2>3
<1>4. CASE ~fits
  <2>1. /\ cache' = cache /\ refused' = refused \cup {w} /\ w \in LabelStreams
        /\ pc' = [pc EXCEPT ![w] = "relist"] /\ pos' = [pos EXCEPT ![w] = 0]
    BY <1>4 DEF ReadChange, EndCycle
  <2>2. Shapes'
    BY <1>1, <1>2, <2>1 DEF Shapes
  <2>3. Local(w)
    BY <1>1, <2>1 DEF Local, Shapes
  <2> QED
    BY <2>2, <2>3
<1> QED
  BY <1>3, <1>4

\* A step of one stream leaves the others alone.
LEMMA StepIsLocal ==
    ASSUME Shapes, NEW w \in Streams, WatchStep(w)
    PROVE  Shapes' /\ Local(w)
<1>1. CASE Change(w)
  BY <1>1 DEF Change, Shapes, Local
<1>2. CASE HolddownPasses(w)
  BY <1>2 DEF HolddownPasses, Shapes, Local
<1>3. ASSUME Fault PROVE faults' \in Nat /\ faults' <= MaxFaults
  BY <1>3, WatchBounds DEF Fault, Shapes
<1>4. CASE Silence(w)
  <2>1. fresh' \in [Streams -> BOOLEAN]
    BY <1>4 DEF Silence, Shapes
  <2> QED
    BY <1>3, <1>4, <2>1 DEF Silence, Shapes, Local
<1>5. CASE RelistIfDue(w) \/ ReadFails(w)
  BY <1>3, <1>5 DEF RelistIfDue, ReadFails, EndCycle, Shapes, Local
<1>6. CASE ReadBookmark(w)
  <2>1. fresh' \in [Streams -> BOOLEAN]
    BY <1>6 DEF ReadBookmark, Shapes
  <2> QED
    BY <1>6, <2>1 DEF ReadBookmark, Shapes, Local
<1>7. CASE ReadUnreadable(w)
  BY <1>3, <1>7 DEF ReadUnreadable, NoteUnreadable, Raised, Shapes, Local
<1>8. CASE Gone(w)
  <2>1. fresh' \in [Streams -> BOOLEAN]
    BY <1>8 DEF Gone, Shapes
  <2> QED
    BY <1>3, <1>8, <2>1 DEF Gone, Raised, EndCycle, Shapes, Local
<1>9. CASE Eof(w)
  BY <1>3, <1>9 DEF Eof, Watch, Shapes, Local
<1> QED
  BY <1>1, <1>2, <1>4, <1>5, <1>6, <1>7, <1>8, <1>9, RelistIsLocal, ReadChangeIsLocal
     DEF WatchStep, ThreadStep

\* Every step of every watch keeps the invariant of all the caches.
LEMMA WatchStepKeeps ==
    ASSUME WatchInv, NEW w \in Streams, WatchStep(w)
    PROVE  WatchInv'
<1>1. Shapes'
  BY StepIsLocal DEF WatchInv
<1>2. StreamInv(w)'
  BY ChangeKeeps, QuietKeeps, RelistKeeps, ReadBookmarkKeeps, ReadChangeKeeps
     DEF WatchInv, WatchStep, ThreadStep
<1>3. ASSUME NEW v \in Streams \ {w} PROVE StreamInv(v)'
  <2>1. Local(w) /\ StreamInv(v) /\ v \in Streams
    BY StepIsLocal DEF WatchInv
  <2> QED
    BY <2>1, Untouched DEF Local
<1> QED
  BY <1>1, <1>2, <1>3 DEF WatchInv

\* So does a step that moves no watch.
LEMMA WatchStutter ==
    ASSUME WatchInv, UNCHANGED watchVars
    PROVE  WatchInv'
<1>1. Shapes'
  BY DEF WatchInv, Shapes, watchVars
<1>2. ASSUME NEW v \in Streams PROVE StreamInv(v)'
  BY Untouched DEF WatchInv, watchVars
<1> QED
  BY <1>1, <1>2 DEF WatchInv

\* An entry of a refresh is an identity.
LEMMA JoinedType ==
    ASSUME WatchInv, NEW p \in Pods
    PROVE  Joined(p) \in {Absent} \cup Identities
<1>1. "pods" \in Streams /\ "namespaces" \in Streams /\ NamespaceOf[p] \in Objects["namespaces"]
  BY IdentityAssumption
<1>2. cache["pods"] \in Holdings("pods") /\ cache["namespaces"] \in Holdings("namespaces")
  BY <1>1 DEF WatchInv, StreamInv, StreamTypes
<1>3. cache["pods"][p] \in (Values["pods"] \ {Foreign, TooBig}) \cup {Absent}
  BY <1>2 DEF Holdings, Pods
<1>4. cache["namespaces"][NamespaceOf[p]] \in (Values["namespaces"] \ {Foreign, TooBig}) \cup {Absent}
  BY <1>1, <1>2 DEF Holdings
<1>5. Labels(p) \in (Values["namespaces"] \ {TooBig}) \cup {Unobserved}
  BY <1>4 DEF Labels
<1> QED
  BY <1>3, <1>5 DEF Joined, Identities

\* The inductive invariant of the watches and of the index holds in every
\* reachable state: a cache that owes nothing is whole, a stream without a debt
\* is read in step, and a change leaves the other objects as they were.
THEOREM Invariance == Spec => []IInv
<1>1. Init => IInv
  <2> SUFFICES ASSUME Init PROVE IInv
    OBVIOUS
  <2>1. WatchInv
    BY WatchInitial DEF Init
  <2>2. IndexTypes
    BY IdentityBounds DEF Init, IndexTypes
  <2> QED
    BY <2>1, <2>2 DEF IInv
<1>2. IInv /\ [Next]_vars => IInv'
  <2> SUFFICES ASSUME IInv, [Next]_vars PROVE IInv'
    OBVIOUS
  <2>1. ASSUME NEW w \in Streams, WatchStep(w), UNCHANGED identityVars PROVE IInv'
    BY <2>1, WatchStepKeeps DEF IInv, IndexTypes, identityVars
  <2>2. CASE MoveDir
    <3>1. WatchInv'
      BY <2>2, WatchStutter DEF IInv, MoveDir
    <3>2. IndexTypes'
      BY <2>2, IdentityBounds DEF IInv, IndexTypes, MoveDir
    <3> QED
      BY <3>1, <3>2 DEF IInv
  <2>3. CASE Refresh
    <3>1. WatchInv'
      BY <2>3, WatchStutter DEF IInv, Refresh
    <3>2. \A p \in Pods : Joined(p) \in {Absent} \cup Identities
      BY JoinedType DEF IInv
    <3>3. IndexTypes'
      BY <2>3, <3>2 DEF IInv, IndexTypes, Refresh
    <3> QED
      BY <3>1, <3>3 DEF IInv
  <2>4. CASE UNCHANGED vars
    <3>1. WatchInv'
      BY <2>4, WatchStutter DEF IInv, vars
    <3> QED
      BY <2>4, <3>1 DEF IInv, IndexTypes, vars
  <2> QED
    BY <2>1, <2>2, <2>3, <2>4 DEF Next
<1> QED
  BY <1>1, <1>2, PTL DEF Spec

----------------------------------------------------------------------------
(* What the invariant gives. *)

\* The types hold in every reachable state: no cache ever holds a pod of
\* another node or labels past a ceiling, no version is ahead of the server.
THEOREM TypeCorrect == Spec => []TypeOK
<1>1. IInv => TypeOK
  <2> SUFFICES ASSUME IInv PROVE TypeOK
    OBVIOUS
  <2>1. ASSUME NEW w \in Streams
        PROVE  /\ log[w] \in Seq([object : Objects[w], state : States(w)])
               /\ cache[w] \in Holdings(w)
               /\ {pos[w], rv[w]} \subseteq 0..Len(log[w])
    <3>1. pos[w] \in Nat /\ rv[w] \in Nat /\ StreamTypes(w)
      BY DEF IInv, WatchInv, Shapes, StreamInv
    <3>2. Len(log[w]) \in Nat
      BY <3>1 DEF StreamTypes
    <3> QED
      BY <3>1, <3>2 DEF StreamTypes
  <2>2. {listed, fresh} \subseteq [Streams -> BOOLEAN]
    BY DEF IInv, WatchInv, Shapes
  <2>3. faults \in 0..MaxFaults
    BY WatchBounds DEF IInv, WatchInv, Shapes
  <2>4. WatchTypeOK
    BY <2>1, <2>2, <2>3 DEF WatchTypeOK, IInv, WatchInv, Shapes, States, Holdings
  <2> QED
    BY <2>4 DEF TypeOK, IInv, IndexTypes, Identities
<1> QED
  BY <1>1, Invariance, PTL

\* A cache that calls itself warm holds exactly what the API server held at
\* the version it carries: is_warm_at and freshness may be relied on, whatever
\* frame was unreadable and wherever a watch resumed.
THEOREM NoHole == Spec => []WarmHasNoHole
<1>1. IInv => WarmHasNoHole
  BY DEF IInv, WatchInv, StreamInv, Whole, WarmHasNoHole, Warm
<1> QED
  BY <1>1, Invariance, PTL

\* A refresh joins a pod and labels that the API server had at the versions of
\* the two caches, so that PodCache::snapshot never hands the index an
\* identity no state of the cluster had.
THEOREM IdentityTrue == Spec => IdentityWasTrue
<1> DEFINE True(p) ==
             index'[p] # index[p] /\ index'[p] # Absent =>
                /\ index'[p].pod = StateAt("pods", rv["pods"])[p]
                /\ \/ index'[p].labels = Unobserved
                   \/ index'[p].labels = StateAt("namespaces", rv["namespaces"])[NamespaceOf[p]]
                   \/ "namespaces" \in refused
<1>1. IInv /\ [Next]_vars => [\A p \in Pods : True(p)]_vars
  <2> SUFFICES ASSUME IInv, Next, NEW p \in Pods, index'[p] # index[p], index'[p] # Absent
               PROVE  True(p)
    OBVIOUS
  <2>1. Refresh
    BY DEF Next, MoveDir, identityVars
  <2>2. /\ index'[p] = [pod |-> cache["pods"][p], labels |-> Labels(p)]
        /\ cache["pods"][p] # Absent
    <3>1. index'[p] = Joined(p)
      BY <2>1 DEF Refresh
    <3> QED
      BY <3>1 DEF Joined
  <2>3. "pods" \in Streams /\ "namespaces" \in Streams /\ NamespaceOf[p] \in Objects["namespaces"]
    BY IdentityAssumption
  <2>4. \A w \in Streams : w \notin refused /\ Warm(w) => cache[w] = Contents(w, rv[w])
    BY DEF IInv, WatchInv, StreamInv, Whole, Warm
  <2>5. cache["pods"][p] = StateAt("pods", rv["pods"])[p]
    <3>1. "pods" \notin refused
      BY DEF IInv, WatchInv, Shapes, LabelStreams
    <3>2. cache["pods"][p] = Held(StateAt("pods", rv["pods"])[p])
      <4>1. cache["pods"] = Contents("pods", rv["pods"])
        BY <2>1, <2>3, <2>4, <3>1 DEF Refresh
      <4> QED
        BY <4>1 DEF Contents, Pods
    <3> QED
      BY <2>2, <3>2 DEF Held
  <2>6. \/ Labels(p) = Unobserved
        \/ Labels(p) = StateAt("namespaces", rv["namespaces"])[NamespaceOf[p]]
        \/ "namespaces" \in refused
    <3> SUFFICES ASSUME Labels(p) # Unobserved, "namespaces" \notin refused
                 PROVE  Labels(p) = StateAt("namespaces", rv["namespaces"])[NamespaceOf[p]]
      OBVIOUS
    <3>1. /\ Warm("namespaces")
          /\ Labels(p) = cache["namespaces"][NamespaceOf[p]]
          /\ cache["namespaces"][NamespaceOf[p]] # Absent
      BY DEF Labels
    <3>2. cache["namespaces"][NamespaceOf[p]]
             = Held(StateAt("namespaces", rv["namespaces"])[NamespaceOf[p]])
      BY <2>3, <2>4, <3>1 DEF Contents
    <3> QED
      BY <3>1, <3>2 DEF Held
  <2> QED
    BY <2>2, <2>5, <2>6
<1> QED
  BY <1>1, Invariance, PTL DEF Spec, IdentityWasTrue

=============================================================================
