-------------------------- MODULE ControllerProofs --------------------------
(***************************************************************************)
(* Proofs about the policy watches, the waiver watch and the Secrets they  *)
(* share, for any policies, waivers and bounds, whatever calls fail; and   *)
(* about the failure counters that end the process (ControllerHealth).     *)
(***************************************************************************)
EXTENDS Controller, ControllerHealth, FiniteSetTheorems, TLAPS

----------------------------------------------------------------------------
(* The inductive invariant: the policy watches. *)

Objects == [generation : 1 .. MaxGeneration, spec : Specs, observed : 0 .. MaxGeneration,
            ready : {"no", "yes"}, digest : Good \cup {None}]
Versions == [policy : Policies, object : Objects]
Secrets == [owner : Policies \cup {None, "other", "unscoped"}, spec : Good \cup {None},
            generation : 0 .. MaxGeneration, list : SUBSET Waivers]
Busy == {"load", "get", "create", "patch", "status", "attach"}
Tasks == {Idle} \cup [pc : Busy, policy : Policies, object : Objects, list : SUBSET Waivers]

PolicyType ==
    /\ object \in [Policies -> Objects]
    /\ secret \in [Policies -> Secrets]
    /\ stream \in [Watches -> Seq(Versions)]
    /\ task \in [Watches -> Tasks]
    /\ todo \subseteq Policies /\ stale \subseteq Policies
    /\ hit \subseteq Policies /\ gone \subseteq Policies

\* A watch handles the policies of its kind.
OwnKind ==
    \A w \in Watches :
        /\ task[w] # Idle => Kind[task[w].policy] = w
        /\ \A i \in 1 .. Len(stream[w]) : Kind[stream[w][i].policy] = w

\* A Secret is this policy's, somebody else's or none.
Ownership ==
    \A p \in Policies :
        /\ secret[p].owner \in {p, None, "other", "unscoped"}
        /\ secret[p].generation = 0 <=> secret[p].owner # p
        /\ secret[p].owner = None => secret[p] = NoSecret
        /\ p \in gone => secret[p].owner # p

\* The version in hand at its step: what compiles is written, and then the status
\* is.
InHand(t, p) ==
    /\ t.pc \in {"get", "create", "patch", "attach"} => t.object.spec \in Good
    /\ t.pc \in {"status", "attach"} /\ t.object.spec \in Good /\ p \notin gone =>
          secret[p].owner = p /\ secret[p].generation = t.object.generation

TaskInv == \A w \in Watches : task[w] # Idle => InHand(task[w], task[w].policy)

\* The versions of p in s come in the order of their generations, from lo to hi.
Ordered(s, p, lo, hi) ==
    \A i \in 1 .. Len(s) : s[i].policy = p =>
        /\ lo <= s[i].object.generation /\ s[i].object.generation <= hi
        /\ \A j \in i .. Len(s) :
              s[j].policy = p => s[i].object.generation <= s[j].object.generation

\* The versions to come are not before the one in hand, nor that before the Secret
\* and the status.
OrderInv ==
    \A p \in Policies :
        LET s == stream[Kind[p]]
            t == task[Kind[p]]
            hi == object[p].generation
        IN  /\ secret[p].generation <= hi /\ Ordered(s, p, secret[p].generation, hi)
            /\ object[p].observed <= hi /\ Ordered(s, p, object[p].observed, hi)
            /\ t.policy = p =>
                  /\ secret[p].generation <= t.object.generation
                  /\ object[p].observed <= t.object.generation
                  /\ t.object.generation <= hi /\ Ordered(s, p, t.object.generation, hi)

PolicyInv == PolicyType /\ OwnKind /\ Ownership /\ TaskInv /\ OrderInv /\ ReadyIsBacked

----------------------------------------------------------------------------
(* The inductive invariant: the waiver watch. *)

Events == [type : {"Init", "InitDone"}]
            \cup [type : {"InitApply", "Apply"}, waiver : Waivers, state : {"valid", "rejected"}]
            \cup [type : {"Delete"}, waiver : Waivers]

WaiverType ==
    /\ waiver \in [Waivers -> {"absent", "valid", "rejected"}]
    /\ xstream \in Seq(Events)
    /\ xpc \in {"start", "idle", "status", "list", "patch"}
    /\ live \subseteq Waivers /\ staging \subseteq Waivers
    /\ xpc = "patch" <=> todo # {}

About(e, x) == e.type \in {"InitApply", "Apply", "Delete"} /\ e.waiver = x
Tells(e, x) == About(e, x) /\ (e.type # "Delete" /\ e.state = "valid" <=> waiver[x] = "valid")

\* The events to come, the k-th of them the end of a relist (0: none is under way).
Relist(k) ==
    /\ k > 0 => xstream[k].type = "InitDone"
    /\ \A i \in 1 .. k - 1 : xstream[i].type \in {"Init", "InitApply"}
                             /\ (xstream[i].type = "Init" => i = 1)
    /\ \A i \in k + 1 .. Len(xstream) : xstream[i].type \in {"Apply", "Delete"}

\* No change of x comes after the relist: its events are true, or there are none
\* and the set collected so far is right about x.
Collected(k, x) ==
    /\ \A i \in k + 1 .. Len(xstream) : ~About(xstream[i], x)
    /\ k = 0 => (x \in live <=> waiver[x] = "valid")
    /\ k > 0 =>
          /\ \A i \in 1 .. k - 1 : About(xstream[i], x) => Tells(xstream[i], x)
          /\ \/ \E i \in 1 .. k - 1 : About(xstream[i], x)
             \/ IF xstream[1].type = "Init" THEN waiver[x] # "valid"
                ELSE x \in staging <=> waiver[x] = "valid"

\* Or the last change of x to come is true.
Changed(k, x) ==
    \E i \in k + 1 .. Len(xstream) :
        /\ Tells(xstream[i], x)
        /\ \A j \in i + 1 .. Len(xstream) : ~About(xstream[j], x)

StreamInv ==
    \E k \in 0 .. Len(xstream) :
        Relist(k) /\ \A x \in Waivers : Collected(k, x) \/ Changed(k, x)

\* The policy watch will give the Secret a list.
WillAttach(p) ==
    /\ task[Kind[p]].policy = p /\ task[Kind[p]].pc \in {"status", "attach"}
    /\ task[Kind[p]].object.spec \in Good

\* Outside a pass, and in one behind it, the lists are those of the set.
ListInv ==
    \A p \in Policies :
        /\ xpc = "idle" \/ (xpc = "patch" /\ p \notin todo)
        /\ secret[p].owner = p /\ p \notin stale /\ ~WillAttach(p)
        => secret[p].list = Scoped(live, p)

XInv == WaiverType /\ StreamInv /\ ListInv

IInv == PolicyInv /\ XInv

----------------------------------------------------------------------------
(* The sequence made of a set. *)

\* SetToSeq numbers a finite set, each element once.
LEMMA SetToSeqType ==
    ASSUME NEW S, IsFiniteSet(S)
    PROVE  /\ Cardinality(S) \in Nat
           /\ SetToSeq(S) \in [1 .. Cardinality(S) -> S]
           /\ IsInjective(SetToSeq(S))
<1>1. /\ Cardinality(S) \in Nat
      /\ \E f \in [1 .. Cardinality(S) -> S] : IsInjective(f)
  BY FS_CardinalityType, Zenon DEF ExistsBijection, Bijection, Injection
<1> QED
  BY <1>1, Zenon DEF SetToSeq

\* It is a sequence of the elements, and of all of them.
LEMMA SetToSeqLists ==
    ASSUME NEW S, IsFiniteSet(S)
    PROVE  /\ SetToSeq(S) \in Seq(S)
           /\ Len(SetToSeq(S)) \in Nat
           /\ \A i \in 1 .. Len(SetToSeq(S)) : SetToSeq(S)[i] \in S
           /\ \A e \in S : \E i \in 1 .. Len(SetToSeq(S)) : SetToSeq(S)[i] = e
<1> DEFINE n == Cardinality(S)
           f == SetToSeq(S)
           T == {f[i] : i \in 1 .. n}
<1>1. n \in Nat /\ f \in [1 .. n -> S] /\ IsInjective(f)
  BY SetToSeqType, Zenon
<1> HIDE DEF f, n
<1>2. f \in Seq(S) /\ Len(f) = n
  BY <1>1
<1>3. T \subseteq S
  BY <1>1
<1>4. f \in Bijection(1 .. n, T)
  <2>1. f \in [1 .. n -> T]
    BY <1>1
  <2>2. f \in Injection(1 .. n, T)
    BY <1>1, <2>1, Zenon DEF Injection
  <2>3. f \in Surjection(1 .. n, T)
    BY <2>1, Zenon DEF Surjection
  <2> QED
    BY <2>2, <2>3, Zenon DEF Bijection
<1>5. Cardinality(T) = n
  BY <1>1, <1>4, FS_CountingElements, Zenon DEF ExistsBijection
<1>6. T = S
  BY <1>1, <1>3, <1>5, FS_Subset DEF n
<1> QED
  BY <1>1, <1>2, <1>6 DEF f

----------------------------------------------------------------------------
(* The streams of the policy watches. *)

\* What is left of an ordered stream is ordered, and not before its head.
LEMMA OrderedTail ==
    ASSUME NEW s \in Seq(Versions), s # <<>>, NEW p \in Policies, NEW lo \in Nat, NEW hi \in Nat,
           Ordered(s, p, lo, hi)
    PROVE  /\ Ordered(Tail(s), p, lo, hi)
           /\ Head(s).policy = p =>
                 /\ lo <= Head(s).object.generation /\ Head(s).object.generation <= hi
                 /\ Ordered(Tail(s), p, Head(s).object.generation, hi)
<1>1. /\ Tail(s) \in Seq(Versions) /\ Len(Tail(s)) = Len(s) - 1 /\ Len(s) \in Nat /\ Len(s) >= 1
      /\ \A i \in 1 .. Len(Tail(s)) : Tail(s)[i] = s[i + 1] /\ i + 1 \in 1 .. Len(s)
      /\ Head(s) = s[1]
  OBVIOUS
<1>2. Ordered(Tail(s), p, lo, hi)
  BY <1>1 DEF Ordered
<1>3. ASSUME s[1].policy = p
      PROVE  /\ lo <= s[1].object.generation /\ s[1].object.generation <= hi
             /\ Ordered(Tail(s), p, s[1].object.generation, hi)
  <2>1. /\ lo <= s[1].object.generation /\ s[1].object.generation <= hi
        /\ \A j \in 1 .. Len(s) : s[j].policy = p => s[1].object.generation <= s[j].object.generation
    BY <1>1, <1>3 DEF Ordered
  <2> QED
    BY <1>1, <2>1 DEF Ordered
<1> QED
  BY <1>1, <1>2, <1>3

\* A newer version at the end keeps the order.
LEMMA OrderedAppend ==
    ASSUME NEW s \in Seq(Versions), NEW e \in Versions, NEW p \in Policies,
           NEW lo \in Nat, NEW hi \in Nat, NEW top \in Nat, lo <= hi, hi <= top,
           Ordered(s, p, lo, hi), e.policy = p => e.object.generation = top
    PROVE  Ordered(Append(s, e), p, lo, top)
<1>1. /\ Append(s, e) \in Seq(Versions) /\ Len(Append(s, e)) = Len(s) + 1 /\ Len(s) \in Nat
      /\ \A i \in 1 .. Len(s) : Append(s, e)[i] = s[i]
      /\ Append(s, e)[Len(s) + 1] = e
      /\ \A i \in 1 .. Len(s) : s[i] \in Versions
  OBVIOUS
<1>2. ASSUME NEW i \in 1 .. Len(s) PROVE s[i].object.generation \in Nat
  <2>1. s[i] \in Versions
    BY <1>1
  <2>2. s[i].object \in Objects
    BY <2>1 DEF Versions
  <2>3. s[i].object.generation \in 1 .. MaxGeneration
    BY <2>2 DEF Objects
  <2> QED
    BY <2>3, ControllerBounds
<1> DEFINE a == Append(s, e)
<1> HIDE DEF a
<1> SUFFICES ASSUME NEW i \in 1 .. Len(s) + 1, a[i].policy = p
             PROVE  /\ lo <= a[i].object.generation /\ a[i].object.generation <= top
                    /\ \A j \in i .. Len(s) + 1 : a[j].policy = p =>
                          a[i].object.generation <= a[j].object.generation
  BY <1>1 DEF Ordered, a
<1>3. CASE i = Len(s) + 1
  <2>1. a[i].object.generation = top
    BY <1>1, <1>3 DEF a
  <2>2. lo <= top /\ top <= top
    OBVIOUS
  <2>3. ASSUME NEW j \in i .. Len(s) + 1
        PROVE  a[i].object.generation <= a[j].object.generation
    <3>1. j = i
      BY <1>1, <1>3
    <3> QED
      BY <2>1, <2>2, <3>1
  <2>4. lo <= a[i].object.generation /\ a[i].object.generation <= top
    BY <2>1, <2>2
  <2> QED
    BY <2>3, <2>4, Zenon
<1>4. CASE i \in 1 .. Len(s)
  <2>1. lo <= a[i].object.generation /\ a[i].object.generation <= hi
    BY <1>1, <1>4 DEF Ordered, a
  <2>2. ASSUME NEW j \in i .. Len(s) + 1, a[j].policy = p
        PROVE  a[i].object.generation <= a[j].object.generation
    <3>1. CASE j = Len(s) + 1
      BY <1>1, <1>2, <1>4, <2>1, <2>2, <3>1 DEF a
    <3>2. CASE j \in i .. Len(s)
      BY <1>1, <1>4, <2>2, <3>2 DEF Ordered, a
    <3> QED
      BY <3>1, <3>2, <1>1
  <2>3. a[i].object.generation \in Nat
    BY <1>1, <1>2, <1>4 DEF a
  <2>4. a[i].object.generation <= top
    BY <2>1, <2>3
  <2> QED
    BY <2>1, <2>2, <2>4, Zenon
<1> QED
  BY <1>1, <1>3, <1>4

\* What a list of the objects of a kind gives.
LEMMA ListingGives ==
    ASSUME object \in [Policies -> Objects], NEW w \in Watches
    PROVE  /\ Listing(w) \in Seq(Versions)
           /\ \A i \in 1 .. Len(Listing(w)) :
                 /\ Kind[Listing(w)[i].policy] = w
                 /\ Listing(w)[i].object = object[Listing(w)[i].policy]
<1> DEFINE D == {q \in Policies : Kind[q] = w}
           S == {[policy |-> p, object |-> object[p]] : p \in D}
           f == [p \in D |-> [policy |-> p, object |-> object[p]]]
<1>1. IsFiniteSet(D)
  BY PolicyAssumption, FS_Subset
<1>2. f \in Surjection(D, S)
  BY DEF Surjection
<1>3. IsFiniteSet(S)
  BY <1>1, <1>2, FS_Surjection
<1>4. Listing(w) = SetToSeq(S)
  BY DEF Listing
<1>5. \A e \in S : e \in Versions /\ Kind[e.policy] = w /\ e.object = object[e.policy]
  BY DEF Versions
<1> HIDE DEF S
<1>6. /\ SetToSeq(S) \in Seq(S)
      /\ \A i \in 1 .. Len(SetToSeq(S)) : SetToSeq(S)[i] \in S
  BY <1>3, SetToSeqLists
<1>7. SetToSeq(S) \in Seq(Versions)
  BY <1>5, <1>6
<1> QED
  BY <1>4, <1>5, <1>6, <1>7

\* The handler of a watch that is not idle.
LEMMA BusyTask ==
    ASSUME PolicyInv, NEW w \in Watches, task[w].pc # "idle"
    PROVE  /\ task[w] # Idle
           /\ task[w] \in [pc : Busy, policy : Policies, object : Objects, list : SUBSET Waivers]
           /\ Kind[task[w].policy] = w
           /\ InHand(task[w], task[w].policy)
  BY DEF PolicyInv, PolicyType, OwnKind, TaskInv, Tasks, Idle

----------------------------------------------------------------------------
(* The policy watches: steps that write nothing. *)

\* Only the handler of w moves, with the version it has in hand or to Idle; one that
\* was to attach a list and will not leaves the Secret marked stale.
Moves(w, t) ==
    /\ task' = [task EXCEPT ![w] = t]
    /\ t # Idle => /\ t.policy = task[w].policy /\ t.object = task[w].object
                   /\ InHand(t, t.policy)
    /\ UNCHANGED <<object, secret, stream, gone, todo, live, xpc>>
    /\ hit' \subseteq Policies /\ stale \subseteq stale' /\ stale' \subseteq Policies
    /\ \A q \in Policies : WillAttach(q) /\ ~WillAttach(q)' /\ secret[q].owner = q => q \in stale'

\* A handler that goes on to its next call, with nothing written.
LEMMA MovesKeeps ==
    ASSUME IInv, NEW w \in Watches, task[w].pc # "idle", NEW t \in Tasks, Moves(w, t)
    PROVE  PolicyInv' /\ ListInv'
<1>1. /\ task[w] # Idle /\ task[w].policy \in Policies /\ Kind[task[w].policy] = w
      /\ InHand(task[w], task[w].policy)
  BY BusyTask DEF IInv
<1>2. /\ task' \in [Watches -> Tasks] /\ task'[w] = t
      /\ \A v \in Watches : v # w => task'[v] = task[v]
  BY DEF Moves, IInv, PolicyInv, PolicyType
<1>3. PolicyType'
  BY <1>2 DEF Moves, IInv, PolicyInv, PolicyType
<1>4. OwnKind'
  BY <1>1, <1>2 DEF Moves, IInv, PolicyInv, OwnKind
<1>5. Ownership' /\ ReadyIsBacked'
  BY DEF Moves, IInv, PolicyInv, Ownership, ReadyIsBacked
<1>6. TaskInv'
  BY <1>2 DEF Moves, IInv, PolicyInv, TaskInv, InHand
<1>7. OrderInv'
  <2> SUFFICES ASSUME NEW q \in Policies, task'[Kind[q]].policy = q
               PROVE  task[Kind[q]].policy = q /\ task'[Kind[q]].object = task[Kind[q]].object
    BY DEF Moves, IInv, PolicyInv, OrderInv
  <2>1. Kind[q] \in Watches
    BY DEF Watches
  <2>2. CASE Kind[q] = w
    <3>1. t # Idle
      BY <1>2, <2>2, PolicyAssumption DEF Idle
    <3> QED
      BY <1>2, <2>2, <3>1 DEF Moves
  <2> QED
    BY <1>2, <2>1, <2>2
<1>8. ListInv'
  <2> SUFFICES ASSUME NEW q \in Policies,
                      xpc = "idle" \/ (xpc = "patch" /\ q \notin todo),
                      secret[q].owner = q, q \notin stale', ~WillAttach(q)'
               PROVE  secret[q].list = Scoped(live, q)
    BY DEF ListInv, Moves, Scoped
  <2>1. ~WillAttach(q) /\ q \notin stale
    BY DEF Moves
  <2> QED
    BY <2>1 DEF IInv, XInv, ListInv
<1> QED
  BY <1>3, <1>4, <1>5, <1>6, <1>7, <1>8 DEF PolicyInv

\* A handler that returns with its list unwritten: the Secret is counted stale.
LEMMA IdleMoves ==
    ASSUME IInv, NEW w \in Watches, task[w].pc # "idle", Return(w),
           UNCHANGED <<object, secret, stream, gone, todo, live, xpc>>,
           hit' \subseteq Policies, stale \subseteq stale', stale' \subseteq Policies,
           \A q \in Policies : WillAttach(q) /\ Kind[q] = w /\ secret[q].owner = q => q \in stale'
    PROVE  PolicyInv' /\ ListInv'
<1>1. \A v \in Watches : v # w => task'[v] = task[v]
  BY DEF Return, IInv, PolicyInv, PolicyType
<1>2. ASSUME NEW q \in Policies, WillAttach(q), ~WillAttach(q)'
      PROVE  Kind[q] = w
  BY <1>1, <1>2 DEF WillAttach, Watches
<1>3. Moves(w, Idle)
  BY <1>2 DEF Moves, Return
<1> QED
  BY <1>3, MovesKeeps DEF Tasks

\* What does not compile goes to the status, what does is looked up.
LEMMA LoadKeeps ==
    ASSUME IInv, NEW w \in Watches, Load(w)
    PROVE  PolicyInv' /\ ListInv'
<1>1. task[w].pc = "load" /\ UNCHANGED <<object, secret, stream, gone, todo, live, xpc, stale, hit>>
  BY DEF Load, Calls, apiVars, xVars
<1>2. /\ task[w] # Idle
      /\ task[w] \in [pc : Busy, policy : Policies, object : Objects, list : SUBSET Waivers]
      /\ Kind[task[w].policy] = w
  BY <1>1, BusyTask DEF IInv
<1>3. \A q \in Policies : Kind[q] = w => ~WillAttach(q)
  BY <1>1 DEF WillAttach
<1>4. stale \subseteq Policies /\ hit \subseteq Policies
  BY DEF IInv, PolicyInv, PolicyType
<1>5. CASE Return(w)
  BY <1>1, <1>3, <1>4, <1>5, IdleMoves
<1>6. CASE Proceed(w, task[w]) /\ Planned(task[w].object) = "idle"
  BY <1>1, <1>3, <1>4, <1>6, IdleMoves DEF Proceed, Return
<1>7. CASE Proceed(w, task[w]) /\ Planned(task[w].object) # "idle"
  <2> DEFINE t == [pc |-> Planned(task[w].object), policy |-> task[w].policy,
                   object |-> task[w].object, list |-> {}]
  <2>1. \/ t.pc = "get" /\ task[w].object.spec \in Good
        \/ t.pc = "status" /\ task[w].object.spec \notin Good
    BY <1>7 DEF Planned
  <2>2. t \in Tasks
    BY <1>2, <2>1 DEF Tasks, Busy
  <2>3. InHand(t, t.policy)
    BY <2>1 DEF InHand
  <2>4. task' = [task EXCEPT ![w] = t]
    BY <1>7 DEF Proceed
  <2>5. \A v \in Watches : v # w => task'[v] = task[v]
    BY <2>4 DEF IInv, PolicyInv, PolicyType
  <2>6. ASSUME NEW q \in Policies, WillAttach(q)
        PROVE  WillAttach(q)'
    BY <1>3, <2>5, <2>6 DEF WillAttach, Watches
  <2>7. Moves(w, t)
    BY <1>1, <1>4, <2>3, <2>4, <2>6 DEF Moves
  <2> QED
    BY <1>1, <2>2, <2>7, MovesKeeps
<1> QED
  BY <1>5, <1>6, <1>7 DEF Load

\* The Secret found is nobody's, this policy's, or left alone.
LEMMA GetKeeps ==
    ASSUME IInv, NEW w \in Watches, Get(w)
    PROVE  PolicyInv' /\ ListInv'
<1> DEFINE p == task[w].policy
<1>1. task[w].pc = "get" /\ UNCHANGED <<object, secret, stream, gone, todo, live, xpc, stale>>
  BY DEF Get, Calls, apiVars, xVars
<1>2. /\ task[w] # Idle
      /\ task[w] \in [pc : Busy, policy : Policies, object : Objects, list : SUBSET Waivers]
      /\ Kind[p] = w /\ InHand(task[w], p)
  BY <1>1, BusyTask DEF IInv
<1>3. \A q \in Policies : Kind[q] = w => ~WillAttach(q)
  BY <1>1 DEF WillAttach
<1>4. stale \subseteq Policies /\ hit \subseteq Policies
  BY DEF IInv, PolicyInv, PolicyType
<1>5. CASE ReturnError(w)
  BY <1>1, <1>2, <1>3, <1>4, <1>5, IdleMoves DEF ReturnError
<1>6. ASSUME NEW pc \in {"create", "patch"}, Goto(w, pc), hit' = hit,
             pc = "create" => secret[p] = NoSecret, pc = "patch" => secret[p].owner = p
      PROVE  PolicyInv' /\ ListInv'
  <2> DEFINE t == [task[w] EXCEPT !.pc = pc]
  <2>1. t \in Tasks /\ t.pc = pc /\ t.policy = p /\ t.object = task[w].object
    BY <1>2 DEF Tasks, Busy
  <2>2. InHand(t, t.policy)
    BY <1>1, <1>2, <1>6, <2>1 DEF InHand
  <2>3. task' = [task EXCEPT ![w] = t]
    BY <1>6 DEF Goto, IInv, PolicyInv, PolicyType
  <2>5. \A v \in Watches : v # w => task'[v] = task[v]
    BY <2>3 DEF IInv, PolicyInv, PolicyType
  <2>6. ASSUME NEW q \in Policies, WillAttach(q)
        PROVE  WillAttach(q)'
    BY <1>3, <2>5, <2>6 DEF WillAttach, Watches
  <2>7. Moves(w, t)
    BY <1>1, <1>4, <1>6, <2>1, <2>2, <2>3, <2>6 DEF Moves
  <2> QED
    BY <1>1, <2>1, <2>7, MovesKeeps
<1> QED
  BY <1>1, <1>5, <1>6 DEF Get, MayOverwrite

\* A call that fails ends the handler; nothing was written.
LEMMA CallFailsKeeps ==
    ASSUME IInv, NEW w \in Watches, CallFails(w)
    PROVE  PolicyInv' /\ ListInv'
<1>1. task[w].pc # "idle" /\ Return(w) /\ UNCHANGED <<object, secret, stream, gone, todo, live, xpc>>
  BY DEF CallFails, Calls, ReturnError, apiVars, xVars
<1>2. task[w].policy \in Policies
  BY <1>1, BusyTask DEF IInv
<1>3. hit' \subseteq Policies /\ stale \subseteq stale' /\ stale' \subseteq Policies
  BY <1>2 DEF CallFails, ReturnError, IInv, PolicyInv, PolicyType
<1>4. ASSUME NEW q \in Policies, WillAttach(q), Kind[q] = w, secret[q].owner = q
      PROVE  q \in stale'
  <2>1. secret[q] # NoSecret
    BY <1>4, PolicyAssumption DEF NoSecret
  <2> QED
    BY <1>4, <2>1 DEF CallFails, WillAttach
<1> QED
  BY <1>1, <1>3, <1>4, IdleMoves

\* What the invariant says of a policy, with the types of its generations.
LEMMA PolicyFacts ==
    ASSUME PolicyInv, NEW p \in Policies
    PROVE  /\ Kind[p] \in Watches /\ stream[Kind[p]] \in Seq(Versions)
           /\ object[p] \in Objects /\ secret[p] \in Secrets
           /\ object[p].generation \in Nat /\ object[p].observed \in Nat
           /\ secret[p].generation \in Nat
           /\ task[Kind[p]].policy = p => /\ task[Kind[p]].object \in Objects
                                          /\ task[Kind[p]].object.generation \in Nat
<1>1. Kind[p] \in Watches
  BY DEF Watches
<1>2. object[p] \in Objects /\ secret[p] \in Secrets
  BY DEF PolicyInv, PolicyType
<1>3. /\ object[p].generation \in Nat /\ object[p].observed \in Nat /\ secret[p].generation \in Nat
  BY <1>2, ControllerBounds DEF Objects, Secrets
<1>4. ASSUME task[Kind[p]].policy = p
      PROVE  task[Kind[p]].object \in Objects /\ task[Kind[p]].object.generation \in Nat
  <2>1. task[Kind[p]].object \in Objects
    BY <1>1, <1>4, PolicyAssumption DEF PolicyInv, PolicyType, Tasks, Idle
  <2> QED
    BY <2>1, ControllerBounds DEF Objects
<1> QED
  BY <1>1, <1>2, <1>3, <1>4 DEF PolicyInv, PolicyType

\* The head of the stream, which no later version precedes.
LEMMA TakeKeeps ==
    ASSUME IInv, NEW w \in Watches, Take(w)
    PROVE  PolicyInv' /\ ListInv'
<1> DEFINE e == Head(stream[w])
           t == task'[w]
<1>1. /\ task[w].pc = "idle" /\ stream[w] # <<>> /\ stream' = [stream EXCEPT ![w] = Tail(@)]
      /\ UNCHANGED <<object, secret, gone, todo, live, xpc, stale>> /\ hit' \subseteq hit
  BY DEF Take, Calls, xVars
<1>2. stream[w] \in Seq(Versions) /\ e \in Versions /\ e.policy \in Policies /\ e.object \in Objects
  <2>1. stream[w] \in Seq(Versions)
    BY DEF IInv, PolicyInv, PolicyType
  <2>2. e \in Versions
    BY <1>1, <2>1
  <2> QED
    BY <2>1, <2>2 DEF Versions
<1>3. Kind[e.policy] = w
  BY <1>1, <1>2 DEF IInv, PolicyInv, OwnKind
<1>4. task[w] = Idle
  BY <1>1 DEF IInv, PolicyInv, PolicyType, Tasks, Busy
<1>5. \/ t = Idle
      \/ /\ t = [pc |-> t.pc, policy |-> e.policy, object |-> e.object, list |-> {}]
         /\ \/ t.pc = "load"
            \/ t.pc = "get" /\ e.object.spec \in Good
            \/ t.pc = "status" /\ e.object.spec \notin Good
  <2> DEFINE version(pc) == [pc |-> pc, policy |-> e.policy, object |-> e.object, list |-> {}]
  <2>1. \/ t = version("load")
        \/ Planned(e.object) = "idle" /\ t = Idle
        \/ Planned(e.object) # "idle" /\ t = version(Planned(e.object))
    BY DEF Take, Proceed, IInv, PolicyInv, PolicyType
  <2>2. \/ Planned(e.object) = "get" /\ e.object.spec \in Good
        \/ Planned(e.object) = "idle"
        \/ Planned(e.object) = "status" /\ e.object.spec \notin Good
    BY DEF Planned
  <2> QED
    BY <2>1, <2>2
<1>6. \A v \in Watches : v # w => task'[v] = task[v] /\ stream'[v] = stream[v]
  BY <1>1 DEF Take, Proceed, IInv, PolicyInv, PolicyType
<1>7. stream'[w] = Tail(stream[w])
  BY <1>1 DEF IInv, PolicyInv, PolicyType
<1>8. t \in Tasks /\ (t # Idle => t.policy = e.policy /\ t.object = e.object)
  BY <1>2, <1>5 DEF Tasks, Busy
<1>9. task' \in [Watches -> Tasks]
  BY <1>8 DEF Take, Proceed, IInv, PolicyInv, PolicyType
<1>10. stream' \in [Watches -> Seq(Versions)]
  BY <1>1, <1>2 DEF IInv, PolicyInv, PolicyType
<1>11. PolicyType'
  BY <1>1, <1>9, <1>10 DEF IInv, PolicyInv, PolicyType
<1>12. OwnKind'
  <2>1. \A i \in 1 .. Len(Tail(stream[w])) : Kind[Tail(stream[w])[i].policy] = w
    BY <1>1, <1>2 DEF IInv, PolicyInv, OwnKind
  <2>2. ASSUME NEW v \in Watches
        PROVE  \A i \in 1 .. Len(stream'[v]) : Kind[stream'[v][i].policy] = v
    <3>1. CASE v = w
      BY <1>7, <2>1, <3>1
    <3>2. CASE v # w
      BY <1>6, <3>2 DEF IInv, PolicyInv, OwnKind
    <3> QED
      BY <3>1, <3>2
  <2>3. ASSUME NEW v \in Watches, task'[v] # Idle
        PROVE  Kind[task'[v].policy] = v
    BY <1>3, <1>6, <1>8, <2>3 DEF IInv, PolicyInv, OwnKind
  <2> QED
    BY <2>2, <2>3 DEF OwnKind
<1>13. Ownership' /\ ReadyIsBacked'
  BY <1>1 DEF IInv, PolicyInv, Ownership, ReadyIsBacked
<1>14. TaskInv'
  <2>1. t # Idle => InHand(task[w], task[w].policy)'
    BY <1>5 DEF InHand
  <2> QED
    BY <1>1, <1>6, <2>1 DEF IInv, PolicyInv, TaskInv, InHand
<1>15. OrderInv'
  <2> SUFFICES ASSUME NEW q \in Policies
               PROVE  OrderInv!(q)'
    BY DEF OrderInv
  <2>1. OrderInv!(q)
    BY DEF IInv, PolicyInv, OrderInv
  <2>2. CASE Kind[q] # w
    BY <1>1, <1>6, <2>1, <2>2, PolicyFacts DEF IInv
  <2>3. CASE Kind[q] = w
    <3>1. /\ Ordered(Tail(stream[w]), q, secret[q].generation, object[q].generation)
          /\ Ordered(Tail(stream[w]), q, object[q].observed, object[q].generation)
      BY <1>1, <1>2, <2>1, <2>3, PolicyFacts, OrderedTail DEF IInv
    <3>2. e.policy = q =>
             /\ secret[q].generation <= e.object.generation
             /\ object[q].observed <= e.object.generation
             /\ e.object.generation <= object[q].generation
             /\ Ordered(Tail(stream[w]), q, e.object.generation, object[q].generation)
      BY <1>1, <1>2, <2>1, <2>3, PolicyFacts, OrderedTail DEF IInv
    <3>3. task'[w].policy = q => e.policy = q /\ task'[w].object = e.object
      BY <1>8, PolicyAssumption DEF Idle
    <3> QED
      BY <1>1, <1>7, <2>1, <2>3, <3>1, <3>2, <3>3
  <2> QED
    BY <2>2, <2>3
<1>16. ListInv'
  <2> SUFFICES ASSUME NEW q \in Policies, ~WillAttach(q)'
               PROVE  ~WillAttach(q)
    BY <1>1 DEF IInv, XInv, ListInv, Scoped
  <2> QED
    BY <1>4, <1>6 DEF WillAttach, Idle, Watches
<1> QED
  BY <1>11, <1>12, <1>13, <1>14, <1>15, <1>16 DEF PolicyInv

----------------------------------------------------------------------------
(* The policy watches: the Secret is written. *)

\* The write of the plan lands, and the handler goes on or hears nothing of it.
Writes(w) ==
    LET p == task[w].policy
    IN  /\ task[w].pc \in {"create", "patch"}
        /\ secret' = [secret EXCEPT ![p] = Written(w, @)]
        /\ gone' = gone \ {p}
        /\ \/ Goto(w, "status") /\ stale' = stale
           \/ Return(w) /\ stale' = IF secret[p].owner = p THEN stale ELSE stale \cup {p}
        /\ hit' \subseteq Policies
        /\ UNCHANGED <<object, stream, todo, live, xpc>>

\* The Secret takes the generation in hand, not older than its own.
LEMMA WritesKeeps ==
    ASSUME IInv, NEW w \in Watches, Writes(w)
    PROVE  PolicyInv' /\ ListInv'
<1> DEFINE p == task[w].policy
           o == task[w].object
<1>1. UNCHANGED <<object, stream, todo, live, xpc>> /\ task[w].pc \in {"create", "patch"}
  BY DEF Writes
<1>2. /\ task[w] # Idle
      /\ task[w] \in [pc : Busy, policy : Policies, object : Objects, list : SUBSET Waivers]
      /\ Kind[p] = w /\ InHand(task[w], p) /\ o \in Objects /\ p \in Policies
  BY <1>1, BusyTask DEF IInv
<1>3. /\ o.spec \in Good /\ o.generation \in 1 .. MaxGeneration /\ o.generation # 0
  BY <1>1, <1>2, ControllerBounds DEF InHand, Objects
<1>4. secret[p] \in Secrets /\ secret[p].list \in SUBSET Waivers
  BY <1>2 DEF IInv, PolicyInv, PolicyType, Secrets
<1>5. /\ secret'[p] = [owner |-> p, spec |-> o.spec, generation |-> o.generation,
                       list |-> secret[p].list]
      /\ \A q \in Policies : q # p => secret'[q] = secret[q]
  BY <1>2 DEF Writes, Written, IInv, PolicyInv, PolicyType
<1>6. secret'[p] \in Secrets
  BY <1>2, <1>3, <1>4, <1>5 DEF Secrets
<1>7. secret' \in [Policies -> Secrets]
  BY <1>2, <1>6 DEF Writes, IInv, PolicyInv, PolicyType
<1>8. \/ task'[w] = Idle
      \/ /\ task'[w] = [task[w] EXCEPT !.pc = "status"] /\ stale' = stale
         /\ task'[w].pc = "status" /\ task'[w].policy = p /\ task'[w].object = o
         /\ task'[w] \in Tasks
  <2>1. CASE Return(w)
    BY <2>1 DEF Return, IInv, PolicyInv, PolicyType
  <2>2. CASE Goto(w, "status") /\ stale' = stale
    <3>1. task'[w] = [task[w] EXCEPT !.pc = "status"]
      BY <2>2 DEF Goto, IInv, PolicyInv, PolicyType
    <3>2. [task[w] EXCEPT !.pc = "status"] \in Tasks
      BY <1>2 DEF Tasks, Busy
    <3>3. task'[w].pc = "status" /\ task'[w].policy = p /\ task'[w].object = o
      BY <1>2, <3>1
    <3> QED
      BY <2>2, <3>1, <3>2, <3>3
  <2> QED
    BY <2>1, <2>2 DEF Writes
<1>9. /\ task' \in [Watches -> Tasks] /\ \A v \in Watches : v # w => task'[v] = task[v]
  <2>1. task'[w] \in Tasks
    BY <1>8 DEF Tasks
  <2>2. task \in [Watches -> Tasks]
    BY DEF IInv, PolicyInv, PolicyType
  <2>3. \E u : task' = [task EXCEPT ![w] = u]
    BY DEF Writes, Goto, Return
  <2> QED
    BY <2>1, <2>2, <2>3
<1>10. PolicyType'
  BY <1>1, <1>2, <1>7, <1>9 DEF Writes, IInv, PolicyInv, PolicyType
<1>11. OwnKind'
  BY <1>1, <1>2, <1>8, <1>9 DEF IInv, PolicyInv, OwnKind
<1>12. Ownership'
  <2> SUFFICES ASSUME NEW q \in Policies
               PROVE  Ownership!(q)'
    BY DEF Ownership
  <2>1. CASE q = p
    BY <1>2, <1>3, <1>5, <2>1, PolicyAssumption DEF Writes
  <2>2. CASE q # p
    BY <1>1, <1>5, <2>2 DEF Writes, IInv, PolicyInv, Ownership
  <2> QED
    BY <2>1, <2>2
<1>13. TaskInv'
  <2>1. InHand(task[w], task[w].policy)' \/ task'[w] = Idle
    BY <1>3, <1>5, <1>8 DEF InHand
  <2>2. ASSUME NEW v \in Watches, v # w, task[v] # Idle
        PROVE  InHand(task[v], task[v].policy)'
    <3>1. task[v].policy \in Policies /\ task[v].policy # p
      BY <1>2, <2>2 DEF IInv, PolicyInv, PolicyType, Tasks, OwnKind
    <3>2. InHand(task[v], task[v].policy)
      BY <2>2 DEF IInv, PolicyInv, TaskInv
    <3>3. task[v].policy \in gone' <=> task[v].policy \in gone
      BY <3>1 DEF Writes
    <3> QED
      BY <1>5, <1>9, <2>2, <3>1, <3>2, <3>3 DEF InHand
  <2> QED
    BY <1>9, <2>1, <2>2 DEF TaskInv
<1>14. OrderInv'
  <2> SUFFICES ASSUME NEW q \in Policies
               PROVE  OrderInv!(q)'
    BY DEF OrderInv
  <2>1. OrderInv!(q)
    BY DEF IInv, PolicyInv, OrderInv
  <2>2. task'[Kind[q]].policy = q => task[Kind[q]].policy = q /\ task'[Kind[q]].object = task[Kind[q]].object
    BY <1>2, <1>8, <1>9, PolicyAssumption DEF Watches, Idle
  <2>3. CASE q = p
    <3>1. secret'[q].generation = o.generation /\ task[Kind[q]].policy = q /\ task[Kind[q]].object = o
      BY <1>2, <1>5, <2>3
    <3>2. o.generation \in Nat /\ o.generation <= o.generation
      BY <1>3, ControllerBounds
    <3> QED
      BY <1>1, <2>1, <2>2, <3>1, <3>2
  <2>4. CASE q # p
    BY <1>1, <1>5, <2>1, <2>2, <2>4
  <2> QED
    BY <2>3, <2>4
<1>15. ReadyIsBacked'
  <2> SUFFICES ASSUME NEW q \in Policies, object[q].ready = "yes", q \notin gone'
               PROVE  secret'[q].owner = q /\ secret'[q].generation >= object[q].observed
    BY <1>1 DEF ReadyIsBacked
  <2>1. CASE q = p
    <3>1. object[p].observed <= o.generation
      BY <1>2 DEF IInv, PolicyInv, OrderInv
    <3>2. object[p].observed \in Nat /\ o.generation \in Nat
      BY <1>2, <1>3, PolicyFacts, ControllerBounds DEF IInv
    <3> QED
      BY <1>5, <2>1, <3>1, <3>2
  <2>2. CASE q # p
    BY <1>5, <2>2 DEF Writes, IInv, PolicyInv, ReadyIsBacked
  <2> QED
    BY <2>1, <2>2
<1>16. ListInv'
  <2> SUFFICES ASSUME NEW q \in Policies,
                      xpc = "idle" \/ (xpc = "patch" /\ q \notin todo),
                      secret'[q].owner = q, q \notin stale', ~WillAttach(q)'
               PROVE  secret'[q].list = Scoped(live, q)
    BY <1>1 DEF ListInv, Scoped
  <2>1. CASE q = p
    <3>1. task'[w] = Idle
      BY <1>2, <1>3, <1>8, <2>1 DEF WillAttach
    <3>2. secret[p].owner = p /\ stale' = stale
      BY <1>1, <2>1, <3>1 DEF Writes, Goto, Idle, IInv, PolicyInv, PolicyType
    <3>3. ~WillAttach(p)
      BY <1>1, <1>2 DEF WillAttach
    <3> QED
      BY <1>5, <2>1, <3>2, <3>3 DEF IInv, XInv, ListInv
  <2>2. CASE q # p
    <3>1. ~WillAttach(q)
      BY <1>1, <1>2, <1>9, <2>2 DEF WillAttach, Watches
    <3>2. q \notin stale
      BY DEF Writes
    <3> QED
      BY <1>5, <2>2, <3>1, <3>2 DEF IInv, XInv, ListInv
  <2> QED
    BY <2>1, <2>2
<1> QED
  BY <1>10, <1>11, <1>12, <1>13, <1>14, <1>15, <1>16 DEF PolicyInv

\* The write of the Secret, answered.
LEMMA UpsertKeeps ==
    ASSUME IInv, NEW w \in Watches, Upsert(w)
    PROVE  PolicyInv' /\ ListInv'
<1>1. /\ task[w].pc \in {"create", "patch"}
      /\ UNCHANGED <<object, stream, todo, live, xpc, stale>>
  BY DEF Upsert, Calls, xVars
<1>2. stale \subseteq Policies /\ hit \subseteq Policies /\ task[w].policy \in Policies
  BY <1>1, BusyTask DEF IInv, PolicyInv, PolicyType
<1>3. CASE ~Accepts(w)
  <2>1. Return(w) /\ UNCHANGED <<secret, gone>> /\ hit' \subseteq Policies
    BY <1>2, <1>3 DEF Upsert, ReturnError
  <2>2. \A q \in Policies : Kind[q] = w => ~WillAttach(q)
    BY <1>1 DEF WillAttach
  <2> QED
    BY <1>1, <1>2, <2>1, <2>2, IdleMoves
<1>4. CASE Accepts(w)
  <2>1. Writes(w)
    BY <1>1, <1>2, <1>4 DEF Upsert, Writes, Calls
  <2> QED
    BY <2>1, WritesKeeps
<1> QED
  BY <1>3, <1>4

----------------------------------------------------------------------------
(* The policy watches: an object changes, by its status or by an edit. *)

\* The object of p is next, no earlier than it was, and its watch will hear of it
\* unless nothing changed.
ObjectBecomes(p, next) ==
    /\ next \in Objects /\ object[p].generation <= next.generation
    /\ object' = [object EXCEPT ![p] = next]
    /\ \/ stream' = [stream EXCEPT ![Kind[p]] = Append(@, [policy |-> p, object |-> next])]
       \/ stream' = stream /\ next = object[p]

\* A change of a policy object is the last version of it on the stream.
LEMMA StreamGrows ==
    ASSUME PolicyInv, NEW p \in Policies, NEW next, ObjectBecomes(p, next)
    PROVE  /\ object' \in [Policies -> Objects] /\ object'[p] = next
           /\ \A q \in Policies : q # p => object'[q] = object[q]
           /\ stream' \in [Watches -> Seq(Versions)]
           /\ \A w \in Watches, i \in Nat :
                 i \in 1 .. Len(stream'[w]) => Kind[stream'[w][i].policy] = w
           /\ \A q \in Policies, lo \in Nat :
                 lo <= object[q].generation
                 /\ Ordered(stream[Kind[q]], q, lo, object[q].generation)
                 => Ordered(stream'[Kind[q]], q, lo, object'[q].generation)
           /\ \A q \in Policies : object[q].generation <= object'[q].generation
<1> DEFINE e == [policy |-> p, object |-> next]
<1>1. e \in Versions /\ Kind[p] \in Watches /\ object[p] \in Objects
  BY DEF ObjectBecomes, Versions, Watches, PolicyInv, PolicyType
<1>2. /\ object' \in [Policies -> Objects] /\ object'[p] = next
      /\ \A q \in Policies : q # p => object'[q] = object[q]
  BY DEF ObjectBecomes, PolicyInv, PolicyType
<1>3. \A w \in Watches : stream[w] \in Seq(Versions)
  BY DEF PolicyInv, PolicyType
<1>4. stream' \in [Watches -> Seq(Versions)]
  <2>1. Append(stream[Kind[p]], e) \in Seq(Versions)
    BY <1>1, <1>3
  <2> QED
    BY <1>1, <2>1 DEF ObjectBecomes, PolicyInv, PolicyType
<1>5. \A q \in Policies : object[q].generation \in Nat /\ object'[q].generation \in Nat
  BY <1>2, ControllerBounds DEF PolicyInv, PolicyType, Objects
<1>6. \A q \in Policies : object[q].generation <= object'[q].generation
  BY <1>2, <1>5 DEF ObjectBecomes
<1>7. \A w \in Watches : stream'[w] = stream[w] \/ (w = Kind[p] /\ stream'[w] = Append(stream[w], e))
  BY <1>1 DEF ObjectBecomes, PolicyInv, PolicyType
<1>8. ASSUME NEW w \in Watches, NEW i \in Nat, i \in 1 .. Len(stream'[w])
      PROVE  Kind[stream'[w][i].policy] = w
  <2>1. CASE stream'[w] = stream[w]
    BY <1>8, <2>1 DEF PolicyInv, OwnKind
  <2>2. CASE w = Kind[p] /\ stream'[w] = Append(stream[w], e)
    <3>1. CASE i = Len(stream[w]) + 1
      BY <1>3, <2>2, <3>1
    <3>2. CASE i \in 1 .. Len(stream[w])
      <4>1. stream'[w][i] = stream[w][i]
        BY <1>3, <2>2, <3>2
      <4> QED
        BY <3>2, <4>1 DEF PolicyInv, OwnKind
    <3> QED
      BY <1>3, <1>8, <2>2, <3>1, <3>2
  <2> QED
    BY <1>7, <2>1, <2>2
<1>9. ASSUME NEW q \in Policies, NEW lo \in Nat, lo <= object[q].generation,
             Ordered(stream[Kind[q]], q, lo, object[q].generation)
      PROVE  Ordered(stream'[Kind[q]], q, lo, object'[q].generation)
  <2>1. Kind[q] \in Watches
    BY DEF Watches
  <2>2. CASE stream'[Kind[q]] = Append(stream[Kind[q]], e)
    <3>1. e.policy = q => e.object.generation = object'[q].generation
      BY <1>2
    <3> QED
      BY <1>1, <1>3, <1>5, <1>6, <1>9, <2>1, <2>2, <3>1, OrderedAppend
  <2>3. CASE stream' = stream /\ next = object[p]
    <3>1. object'[q] = object[q]
      BY <1>2, <2>3
    <3> QED
      BY <1>9, <2>3, <3>1
  <2>4. CASE stream'[Kind[q]] = stream[Kind[q]] /\ q # p
    BY <1>2, <1>9, <2>4
  <2> QED
    BY <1>1, <1>7, <2>1, <2>2, <2>3, <2>4 DEF ObjectBecomes, PolicyInv, PolicyType
<1> QED
  BY <1>2, <1>4, <1>6, <1>8, <1>9

\* The status of the plan lands, and the handler goes on, returns or hears nothing.
StatusStep(w) ==
    LET p == task[w].policy
    IN  /\ task[w].pc = "status" /\ StatusLands(w)
        /\ \/ /\ task[w].object.spec \in Good /\ stale' = stale
              /\ task' = [task EXCEPT ![w].pc = "attach", ![w].list = Scoped(live, p)]
           \/ task[w].object.spec \notin Good /\ Return(w) /\ stale' = stale
           \/ /\ task[w].object.spec \in Good /\ Return(w)
              /\ stale' = IF secret[p] # NoSecret THEN stale \cup {p} ELSE stale
        /\ hit' \subseteq Policies
        /\ UNCHANGED <<secret, gone, todo, live, xpc>>

\* Ready is written only where the Secret has the generation in hand.
LEMMA StatusStepKeeps ==
    ASSUME IInv, NEW w \in Watches, StatusStep(w)
    PROVE  PolicyInv' /\ ListInv'
<1> DEFINE p == task[w].policy
           o == task[w].object
           next == WithStatus(object[p], o)
<1>1. task[w].pc = "status" /\ UNCHANGED <<secret, gone, todo, live, xpc>> /\ hit' \subseteq Policies
  BY DEF StatusStep
<1>2. /\ task[w] # Idle
      /\ task[w] \in [pc : Busy, policy : Policies, object : Objects, list : SUBSET Waivers]
      /\ Kind[p] = w /\ InHand(task[w], p) /\ o \in Objects /\ p \in Policies
  BY <1>1, BusyTask DEF IInv
<1>3. /\ object[p] \in Objects /\ object[p].generation \in Nat
      /\ o.generation \in 1 .. MaxGeneration /\ o.generation \in Nat
  BY <1>2, ControllerBounds DEF IInv, PolicyInv, PolicyType, Objects
<1>4. /\ next \in Objects /\ next.generation = object[p].generation
      /\ next.observed = o.generation
      /\ next.ready = IF o.spec \in Good THEN "yes" ELSE "no"
  <2> DEFINE ready == IF o.spec \in Good THEN "yes" ELSE "no"
             digest == IF o.spec \in Good THEN o.spec ELSE None
  <2>1. ready \in {"no", "yes"} /\ digest \in Good \cup {None} /\ o.generation \in 0 .. MaxGeneration
    BY <1>3, ControllerBounds
  <2>2. next = [object[p] EXCEPT !.observed = o.generation, !.ready = ready, !.digest = digest]
    BY DEF WithStatus
  <2> HIDE DEF next, ready, digest
  <2>3. next \in Objects
    BY <1>3, <2>1, <2>2 DEF Objects
  <2>4. next.generation = object[p].generation /\ next.observed = o.generation /\ next.ready = ready
    BY <1>3, <2>2 DEF Objects
  <2> QED
    BY <2>3, <2>4 DEF ready
<1>5. ObjectBecomes(p, next)
  BY <1>2, <1>3, <1>4 DEF StatusStep, StatusLands, ObjectBecomes
<1> HIDE DEF next
<1>6. /\ object' \in [Policies -> Objects] /\ object'[p] = next
      /\ \A q \in Policies : q # p => object'[q] = object[q]
      /\ stream' \in [Watches -> Seq(Versions)]
      /\ \A v \in Watches, i \in Nat : i \in 1 .. Len(stream'[v]) => Kind[stream'[v][i].policy] = v
      /\ \A q \in Policies, lo \in Nat :
            lo <= object[q].generation /\ Ordered(stream[Kind[q]], q, lo, object[q].generation)
            => Ordered(stream'[Kind[q]], q, lo, object'[q].generation)
  BY <1>2, <1>5, StreamGrows DEF IInv
<1>7. \A q \in Policies : object'[q].generation = object[q].generation
  BY <1>4, <1>6
<1>8. \/ task'[w] = Idle
      \/ /\ task'[w] = [task[w] EXCEPT !.pc = "attach", !.list = Scoped(live, p)] /\ stale' = stale
         /\ task'[w].pc = "attach" /\ task'[w].policy = p /\ task'[w].object = o /\ o.spec \in Good
         /\ task'[w] \in Tasks
  <2>1. Scoped(live, p) \in SUBSET Waivers
    BY DEF Scoped, IInv, XInv, WaiverType
  <2> QED
    <3> DEFINE u == [task[w] EXCEPT !.pc = "attach", !.list = Scoped(live, p)]
    <3>1. u \in Tasks /\ u.pc = "attach" /\ u.policy = p /\ u.object = o
      BY <1>2, <2>1 DEF Tasks, Busy
    <3>2. task' = [task EXCEPT ![w].pc = "attach", ![w].list = Scoped(live, p)] => task'[w] = u
      BY DEF IInv, PolicyInv, PolicyType
    <3>3. Return(w) => task'[w] = Idle
      BY DEF Return, IInv, PolicyInv, PolicyType
    <3> HIDE DEF u
    <3>4. task'[w] = Idle \/ (task'[w] = u /\ stale' = stale /\ o.spec \in Good)
      BY <3>2, <3>3 DEF StatusStep
    <3> QED
      BY <3>1, <3>4 DEF u
<1>9. /\ task' \in [Watches -> Tasks] /\ \A v \in Watches : v # w => task'[v] = task[v]
  <2>1. task'[w] \in Tasks
    BY <1>8 DEF Tasks
  <2>2. task \in [Watches -> Tasks]
    BY DEF IInv, PolicyInv, PolicyType
  <2>3. \E u : task' = [task EXCEPT ![w] = u]
    BY DEF StatusStep, Return
  <2> QED
    BY <2>1, <2>2, <2>3
<1>10. PolicyType'
  BY <1>1, <1>2, <1>6, <1>9 DEF StatusStep, IInv, PolicyInv, PolicyType
<1>11. OwnKind'
  <2>1. \A v \in Watches : Len(stream'[v]) \in Nat
    BY <1>6
  <2>2. \A v \in Watches : task'[v] # Idle => Kind[task'[v].policy] = v
    BY <1>2, <1>8, <1>9 DEF IInv, PolicyInv, OwnKind
  <2> QED
    BY <1>6, <2>1, <2>2 DEF OwnKind
<1>12. Ownership'
  BY <1>1 DEF IInv, PolicyInv, Ownership
<1>13. TaskInv'
  <2>1. InHand(task[w], task[w].policy)' \/ task'[w] = Idle
    BY <1>1, <1>2, <1>8 DEF InHand
  <2> QED
    BY <1>1, <1>9, <2>1 DEF IInv, PolicyInv, TaskInv, InHand
<1>14. OrderInv'
  <2> SUFFICES ASSUME NEW q \in Policies
               PROVE  OrderInv!(q)'
    BY DEF OrderInv
  <2>1. OrderInv!(q)
    BY DEF IInv, PolicyInv, OrderInv
  <2>2. task'[Kind[q]].policy = q => task[Kind[q]].policy = q /\ task'[Kind[q]].object = task[Kind[q]].object
    BY <1>2, <1>8, <1>9, PolicyAssumption DEF Watches, Idle
  <2>3. \/ object'[q].observed = object[q].observed
        \/ q = p /\ task[Kind[q]].policy = q /\ object'[q].observed = task[Kind[q]].object.generation
    BY <1>2, <1>4, <1>6
  <2>4. /\ object[q].generation \in Nat /\ object[q].observed \in Nat
        /\ secret[q].generation \in Nat
        /\ task[Kind[q]].policy = q => task[Kind[q]].object.generation \in Nat
    BY PolicyFacts DEF IInv
  <2>5. /\ Ordered(stream'[Kind[q]], q, secret[q].generation, object[q].generation)
        /\ Ordered(stream'[Kind[q]], q, object'[q].observed, object[q].generation)
        /\ task[Kind[q]].policy = q =>
              Ordered(stream'[Kind[q]], q, task[Kind[q]].object.generation, object[q].generation)
    BY <1>6, <1>7, <2>1, <2>3, <2>4
  <2> QED
    BY <1>1, <1>7, <2>1, <2>2, <2>3, <2>4, <2>5
<1>15. ReadyIsBacked'
  <2> SUFFICES ASSUME NEW q \in Policies, object'[q].ready = "yes", q \notin gone
               PROVE  secret[q].owner = q /\ secret[q].generation >= object'[q].observed
    BY <1>1 DEF ReadyIsBacked
  <2>1. CASE q = p
    BY <1>1, <1>2, <1>3, <1>4, <1>6, <2>1 DEF InHand
  <2>2. CASE q # p
    BY <1>6, <2>2 DEF IInv, PolicyInv, ReadyIsBacked
  <2> QED
    BY <2>1, <2>2
<1>16. ListInv'
  <2> SUFFICES ASSUME NEW q \in Policies,
                      xpc = "idle" \/ (xpc = "patch" /\ q \notin todo),
                      secret[q].owner = q, q \notin stale', ~WillAttach(q)'
               PROVE  secret[q].list = Scoped(live, q)
    BY <1>1 DEF ListInv, Scoped
  <2>1. q \notin stale
    BY DEF StatusStep
  <2>2. ~WillAttach(q)
    <3>1. CASE q = p
      <4>1. secret[p] # NoSecret
        BY <3>1, PolicyAssumption DEF NoSecret
      <4>2. task'[w].pc = "attach" => WillAttach(q)'
        BY <1>2, <1>8, <3>1 DEF WillAttach, Idle
      <4>3. o.spec \notin Good
        BY <1>2, <3>1, <4>1, <4>2 DEF StatusStep, IInv, PolicyInv, PolicyType
      <4> QED
        BY <1>2, <3>1, <4>3 DEF WillAttach
    <3>2. CASE q # p
      BY <1>2, <1>9, <3>2 DEF WillAttach, Watches
    <3> QED
      BY <3>1, <3>2
  <2> QED
    BY <2>1, <2>2 DEF IInv, XInv, ListInv
<1> QED
  BY <1>10, <1>11, <1>12, <1>13, <1>14, <1>15, <1>16 DEF PolicyInv

\* The write of the status, answered.
LEMMA PatchStatusKeeps ==
    ASSUME IInv, NEW w \in Watches, PatchStatus(w)
    PROVE  PolicyInv' /\ ListInv'
<1>1. StatusStep(w)
  BY DEF PatchStatus, StatusStep, Calls, xVars, IInv, PolicyInv, PolicyType
<1> QED
  BY <1>1, StatusStepKeeps

\* A write that landed and was answered by an error.
LEMMA AnswerLostKeeps ==
    ASSUME IInv, NEW w \in Watches, AnswerLost(w)
    PROVE  PolicyInv' /\ ListInv'
<1>1. task[w].pc # "idle" /\ UNCHANGED <<todo, live, xpc>>
  BY DEF AnswerLost, Calls, xVars
<1>2. task[w].policy \in Policies
  BY <1>1, BusyTask DEF IInv
<1>3. Return(w) /\ hit' \subseteq Policies
  BY <1>2 DEF AnswerLost, ReturnError, IInv, PolicyInv, PolicyType
<1>4. Writes(w) \/ StatusStep(w)
  BY <1>1, <1>3 DEF AnswerLost, Writes, StatusStep, Calls
<1> QED
  BY <1>4, WritesKeeps, StatusStepKeeps

\* An edit raises the generation, so it comes after all on the stream.
LEMMA EditPolicyKeeps ==
    ASSUME IInv, NEW p \in Policies, NEW spec \in Specs, EditPolicy(p, spec)
    PROVE  PolicyInv' /\ ListInv'
<1> DEFINE next == [object[p] EXCEPT !.spec = spec, !.generation = @ + 1]
<1>1. UNCHANGED <<secret, gone, todo, live, xpc, task, stale, hit>>
  BY DEF EditPolicy, xVars
<1>2. object[p] \in Objects /\ object[p].generation \in Nat /\ object[p].generation < MaxGeneration
  BY ControllerBounds DEF EditPolicy, IInv, PolicyInv, PolicyType, Objects
<1>3. /\ next \in Objects /\ next.generation = object[p].generation + 1
      /\ next.observed = object[p].observed /\ next.ready = object[p].ready
  <2>1. object[p].generation + 1 \in 1 .. MaxGeneration
    BY <1>2, ControllerBounds
  <2>2. next = [object[p] EXCEPT !.spec = spec, !.generation = object[p].generation + 1]
    BY <1>2 DEF Objects
  <2> HIDE DEF next
  <2> QED
    BY <1>2, <2>1, <2>2 DEF Objects
<1>4. object' = [object EXCEPT ![p] = next] /\ object'[p] = next
  BY DEF EditPolicy, IInv, PolicyInv, PolicyType
<1> HIDE DEF next
<1>5. ObjectBecomes(p, next)
  <2>1. object[p].generation <= next.generation
    BY <1>2, <1>3
  <2>2. stream' = [stream EXCEPT ![Kind[p]] = Append(@, [policy |-> p, object |-> next])]
    BY <1>4 DEF EditPolicy
  <2> QED
    BY <1>3, <1>4, <2>1, <2>2 DEF ObjectBecomes
<1>6. /\ object' \in [Policies -> Objects]
      /\ \A q \in Policies : q # p => object'[q] = object[q]
      /\ stream' \in [Watches -> Seq(Versions)]
      /\ \A v \in Watches, i \in Nat : i \in 1 .. Len(stream'[v]) => Kind[stream'[v][i].policy] = v
      /\ \A q \in Policies, lo \in Nat :
            lo <= object[q].generation /\ Ordered(stream[Kind[q]], q, lo, object[q].generation)
            => Ordered(stream'[Kind[q]], q, lo, object'[q].generation)
      /\ \A q \in Policies : object[q].generation <= object'[q].generation
  BY <1>5, StreamGrows DEF IInv
<1>7. \A q \in Policies : object'[q].observed = object[q].observed /\ object'[q].ready = object[q].ready
  BY <1>3, <1>4, <1>6
<1>8. PolicyType'
  BY <1>1, <1>6 DEF IInv, PolicyInv, PolicyType
<1>9. OwnKind'
  BY <1>1, <1>6 DEF IInv, PolicyInv, OwnKind
<1>10. Ownership' /\ TaskInv'
  BY <1>1 DEF IInv, PolicyInv, Ownership, TaskInv, InHand
<1>11. OrderInv'
  <2> SUFFICES ASSUME NEW q \in Policies
               PROVE  OrderInv!(q)'
    BY DEF OrderInv
  <2>1. OrderInv!(q)
    BY DEF IInv, PolicyInv, OrderInv
  <2>2. /\ object[q].generation \in Nat /\ object[q].observed \in Nat
        /\ secret[q].generation \in Nat
        /\ task[Kind[q]].policy = q => task[Kind[q]].object.generation \in Nat
    BY PolicyFacts DEF IInv
  <2>3. object'[q].generation \in Nat
    BY <1>6, ControllerBounds DEF Objects
  <2>4. object[q].generation <= object'[q].generation
    BY <1>6
  <2>5. /\ Ordered(stream'[Kind[q]], q, secret[q].generation, object'[q].generation)
        /\ Ordered(stream'[Kind[q]], q, object[q].observed, object'[q].generation)
        /\ task[Kind[q]].policy = q =>
              Ordered(stream'[Kind[q]], q, task[Kind[q]].object.generation, object'[q].generation)
    BY <1>6, <2>1, <2>2
  <2> QED
    BY <1>1, <1>7, <2>1, <2>2, <2>3, <2>4, <2>5
<1>12. ReadyIsBacked'
  BY <1>1, <1>7 DEF IInv, PolicyInv, ReadyIsBacked
<1>13. ListInv'
  BY <1>1 DEF IInv, XInv, ListInv, WillAttach, Scoped
<1> QED
  BY <1>8, <1>9, <1>10, <1>11, <1>12, <1>13 DEF PolicyInv

----------------------------------------------------------------------------
(* Secrets: a list is written, a Secret is deleted or taken. *)

\* A Secret is left as it was but for its list.
ListStep(p, list) ==
    /\ secret[p] # NoSecret /\ list \subseteq Waivers
    /\ ListLands(p, list)
    /\ UNCHANGED <<object, stream, live, gone>>

\* A write of the list changes no owner and no generation.
LEMMA ListStepSecret ==
    ASSUME PolicyInv, NEW p \in Policies, NEW list, ListStep(p, list)
    PROVE  /\ secret' \in [Policies -> Secrets] /\ stale' \subseteq Policies
           /\ \A q \in Policies : q # p => secret'[q] = secret[q] /\ (q \in stale' <=> q \in stale)
           /\ secret'[p].list = list
           /\ p \in stale' <=> list # Scoped(live, p)
           /\ secret'[p].owner = secret[p].owner
           /\ secret'[p].generation = secret[p].generation
           /\ secret[p] # NoSecret /\ secret'[p] # NoSecret
<1>1. /\ secret[p] \in Secrets /\ secret[p].owner # None /\ list \in SUBSET Waivers
      /\ secret[p] # NoSecret
  BY DEF PolicyInv, PolicyType, ListStep, Ownership
<1>2. secret'[p] = [secret[p] EXCEPT !.list = list] /\ \A q \in Policies : q # p => secret'[q] = secret[q]
  BY DEF ListStep, ListLands, PolicyInv, PolicyType
<1>3. /\ secret'[p] \in Secrets /\ secret'[p].list = list
      /\ secret'[p].owner = secret[p].owner /\ secret'[p].generation = secret[p].generation
  BY <1>1, <1>2 DEF Secrets
<1>4. secret' \in [Policies -> Secrets]
  BY <1>3 DEF ListStep, ListLands, PolicyInv, PolicyType
<1>5. secret[p] # NoSecret /\ secret'[p] # NoSecret
  BY <1>1, <1>3 DEF NoSecret
<1>6. /\ stale' \subseteq Policies
      /\ p \in stale' <=> list # Scoped(live, p)
      /\ \A q \in Policies : q # p => (q \in stale' <=> q \in stale)
  BY DEF ListStep, ListLands, PolicyInv, PolicyType
<1> QED
  BY <1>1, <1>2, <1>3, <1>4, <1>5, <1>6

\* The parts of the invariant that know a Secret by its owner and generation alone.
LEMMA ListStepKeeps ==
    ASSUME PolicyInv, NEW p \in Policies, NEW list, ListStep(p, list)
    PROVE  /\ Ownership' /\ ReadyIsBacked'
           /\ task' = task => TaskInv' /\ OrderInv'
<1>1. /\ \A q \in Policies : q # p => secret'[q] = secret[q]
      /\ secret'[p].owner = secret[p].owner
      /\ secret'[p].generation = secret[p].generation
      /\ secret[p] # NoSecret /\ secret'[p] # NoSecret
  BY ListStepSecret
<1>2. UNCHANGED <<object, stream, live, gone>>
  BY DEF ListStep
<1>3. \A q \in Policies : /\ secret'[q].owner = secret[q].owner
                          /\ secret'[q].generation = secret[q].generation
                          /\ secret'[q] = NoSecret <=> secret[q] = NoSecret
  BY <1>1
<1>4. Ownership'
  BY <1>2, <1>3 DEF PolicyInv, Ownership
<1>5. ReadyIsBacked'
  BY <1>2, <1>3 DEF PolicyInv, ReadyIsBacked
<1>6. ASSUME task' = task
      PROVE  TaskInv'
  <2> SUFFICES ASSUME NEW w \in Watches, task[w] # Idle
               PROVE  InHand(task[w], task[w].policy)'
    BY <1>6 DEF TaskInv
  <2>1. task[w].policy \in Policies /\ InHand(task[w], task[w].policy)
    BY DEF PolicyInv, PolicyType, Tasks, TaskInv
  <2> QED
    BY <1>2, <1>3, <1>6, <2>1 DEF InHand
<1>7. ASSUME task' = task
      PROVE  OrderInv'
  BY <1>2, <1>3, <1>7 DEF PolicyInv, OrderInv
<1> QED
  BY <1>4, <1>5, <1>6, <1>7

\* attach_exceptions writes the list read before: stale, if the set moved since.
LEMMA AttachKeeps ==
    ASSUME IInv, NEW w \in Watches, Attach(w)
    PROVE  PolicyInv' /\ ListInv'
<1> DEFINE p == task[w].policy
<1>1. task[w].pc = "attach" /\ UNCHANGED <<object, stream, gone, todo, live, xpc>>
  BY DEF Attach, Calls, xVars
<1>2. /\ task[w] # Idle
      /\ task[w] \in [pc : Busy, policy : Policies, object : Objects, list : SUBSET Waivers]
      /\ Kind[p] = w /\ InHand(task[w], p) /\ p \in Policies
  BY <1>1, BusyTask DEF IInv
<1>3. CASE secret[p] = NoSecret
  <2>1. Return(w) /\ UNCHANGED <<secret, stale>> /\ hit' \subseteq Policies /\ stale \subseteq Policies
    BY <1>2, <1>3 DEF Attach, ReturnError, IInv, PolicyInv, PolicyType
  <2>2. \A q \in Policies : WillAttach(q) /\ Kind[q] = w => q = p
    BY DEF WillAttach
  <2>3. secret[p].owner # p
    BY <1>2, <1>3, PolicyAssumption DEF NoSecret
  <2> QED
    BY <1>1, <2>1, <2>2, <2>3, IdleMoves
<1>4. CASE secret[p] # NoSecret
  <2>1. ListLands(p, task[w].list) /\ Return(w) /\ hit' = hit
    BY <1>4 DEF Attach
  <2>3. ListStep(p, task[w].list)
    BY <1>1, <1>2, <1>4, <2>1 DEF ListStep
  <2>4. /\ secret' \in [Policies -> Secrets] /\ stale' \subseteq Policies
        /\ \A q \in Policies : q # p => secret'[q] = secret[q] /\ (q \in stale' <=> q \in stale)
        /\ secret'[p].list = task[w].list
        /\ p \in stale' <=> task[w].list # Scoped(live, p)
        /\ secret'[p].generation = secret[p].generation
    BY <1>2, <2>3, ListStepSecret DEF IInv
  <2>5. /\ task' \in [Watches -> Tasks] /\ task'[w] = Idle
        /\ \A v \in Watches : v # w => task'[v] = task[v]
    BY <2>1 DEF Return, IInv, PolicyInv, PolicyType, Tasks
  <2>6. Ownership' /\ ReadyIsBacked'
    BY <1>2, <2>3, ListStepKeeps DEF IInv
  <2>7. PolicyType' /\ OwnKind'
    BY <1>1, <2>1, <2>4, <2>5 DEF IInv, PolicyInv, PolicyType, OwnKind
  <2>8. TaskInv'
    <3> SUFFICES ASSUME NEW v \in Watches, v # w, task[v] # Idle
                 PROVE  InHand(task[v], task[v].policy)'
      BY <2>5 DEF TaskInv
    <3>1. task[v].policy \in Policies /\ task[v].policy # p /\ InHand(task[v], task[v].policy)
      BY <1>2 DEF IInv, PolicyInv, PolicyType, Tasks, OwnKind, TaskInv
    <3> QED
      BY <1>1, <2>4, <2>5, <3>1 DEF InHand
  <2>9. OrderInv'
    <3>1. \A q \in Policies : secret'[q].generation = secret[q].generation
      BY <2>4
    <3>2. \A q \in Policies : task'[Kind[q]].policy = q => task'[Kind[q]] = task[Kind[q]]
      BY <2>5, PolicyAssumption DEF Idle, Watches
    <3> QED
      BY <1>1, <3>1, <3>2 DEF IInv, PolicyInv, OrderInv
  <2>10. ListInv'
    <3> SUFFICES ASSUME NEW q \in Policies,
                        xpc = "idle" \/ (xpc = "patch" /\ q \notin todo),
                        secret'[q].owner = q, q \notin stale', ~WillAttach(q)'
                 PROVE  secret'[q].list = Scoped(live, q)
      BY <1>1 DEF ListInv, Scoped
    <3>1. CASE q = p
      BY <2>4, <3>1
    <3>2. CASE q # p
      <4>1. ~WillAttach(q)
        BY <1>2, <2>5, <3>2 DEF WillAttach, Watches
      <4> QED
        BY <2>4, <3>2, <4>1 DEF IInv, XInv, ListInv
    <3> QED
      BY <3>1, <3>2
  <2> QED
    BY <2>6, <2>7, <2>8, <2>9, <2>10 DEF PolicyInv
<1> QED
  BY <1>3, <1>4

\* The Secrets there may be that are not the controller's work.
Foreign == {NoSecret, Strange("other"), Strange("unscoped")}

\* They are Secrets, and of no policy.
LEMMA ForeignSecrets ==
    ASSUME NEW s \in Foreign
    PROVE  /\ s \in Secrets /\ s.generation = 0
           /\ s = NoSecret \/ s.owner \in {"other", "unscoped"}
           /\ s.owner \in {None, "other", "unscoped"}
  BY ControllerBounds, PolicyAssumption DEF Foreign, NoSecret, Strange, Secrets

\* A Secret deleted or taken is not the policy's, and counted as gone.
LEMMA SecretGoesKeeps ==
    ASSUME IInv, NEW p \in Policies, DeleteSecret(p) \/ TakeSecret(p)
    PROVE  PolicyInv' /\ ListInv'
<1>0. PICK s \in Foreign : secret' = [secret EXCEPT ![p] = s]
  BY DEF DeleteSecret, TakeSecret, Foreign
<1>1. /\ UNCHANGED <<object, stream, task, todo, live, xpc>>
      /\ hit' = hit \cup {p} /\ gone' = gone \cup {p} /\ stale' = stale \ {p}
  BY DEF DeleteSecret, TakeSecret, xVars
<1>2. /\ secret'[p] = s /\ \A q \in Policies : q # p => secret'[q] = secret[q]
      /\ secret' \in [Policies -> Secrets]
  BY <1>0, ForeignSecrets DEF IInv, PolicyInv, PolicyType
<1>3. /\ s.owner \in {None, "other", "unscoped"} /\ s.generation = 0 /\ s.owner # p
      /\ s.owner = None => s = NoSecret
  BY ForeignSecrets, PolicyAssumption
<1>4. PolicyType' /\ OwnKind'
  BY <1>1, <1>2 DEF IInv, PolicyInv, PolicyType, OwnKind
<1>5. Ownership'
  <2> SUFFICES ASSUME NEW q \in Policies
               PROVE  Ownership!(q)'
    BY DEF Ownership
  <2>1. CASE q = p
    BY <1>2, <1>3, <2>1
  <2>2. CASE q # p
    BY <1>1, <1>2, <2>2 DEF IInv, PolicyInv, Ownership
  <2> QED
    BY <2>1, <2>2
<1>6. TaskInv'
  <2> SUFFICES ASSUME NEW w \in Watches, task[w] # Idle
               PROVE  InHand(task[w], task[w].policy)'
    BY <1>1 DEF TaskInv
  <2>1. task[w].policy \in Policies /\ InHand(task[w], task[w].policy)
    BY DEF IInv, PolicyInv, PolicyType, Tasks, TaskInv
  <2> QED
    BY <1>1, <1>2, <1>3, <2>1 DEF InHand
<1>7. OrderInv'
  <2> SUFFICES ASSUME NEW q \in Policies
               PROVE  OrderInv!(q)'
    BY DEF OrderInv
  <2>1. OrderInv!(q)
    BY DEF IInv, PolicyInv, OrderInv
  <2>2. CASE q = p
    <3>1. /\ object[q].generation \in Nat /\ Len(stream[Kind[q]]) \in Nat
          /\ task[Kind[q]].policy = q => task[Kind[q]].object.generation \in Nat
          /\ \A i \in 1 .. Len(stream[Kind[q]]) : stream[Kind[q]][i] \in Versions
      BY PolicyFacts DEF IInv
    <3>2. \A i \in 1 .. Len(stream[Kind[q]]) : stream[Kind[q]][i].object.generation \in Nat
      BY <3>1, ControllerBounds DEF Versions, Objects
    <3>3. Ordered(stream[Kind[q]], q, 0, object[q].generation)
      BY <2>1, <3>1, <3>2 DEF Ordered
    <3> QED
      BY <1>1, <1>2, <1>3, <2>1, <2>2, <3>1, <3>3
  <2>3. CASE q # p
    BY <1>1, <1>2, <2>1, <2>3
  <2> QED
    BY <2>2, <2>3
<1>8. ReadyIsBacked'
  BY <1>1, <1>2 DEF IInv, PolicyInv, ReadyIsBacked
<1>9. ListInv'
  <2> SUFFICES ASSUME NEW q \in Policies,
                      xpc = "idle" \/ (xpc = "patch" /\ q \notin todo),
                      secret'[q].owner = q, q \notin stale', ~WillAttach(q)
               PROVE  secret'[q].list = Scoped(live, q)
    BY <1>1 DEF ListInv, Scoped, WillAttach
  <2>1. q # p
    BY <1>2, <1>3
  <2> QED
    BY <1>1, <1>2, <2>1 DEF IInv, XInv, ListInv
<1> QED
  BY <1>4, <1>5, <1>6, <1>7, <1>8, <1>9 DEF PolicyInv

----------------------------------------------------------------------------
(* The waiver watch: what it lists and hears. *)

Present == {x \in Waivers : waiver[x] # "absent"}

\* Init, the objects there are, InitDone.
LEMMA XListingShape ==
    ASSUME waiver \in [Waivers -> {"absent", "valid", "rejected"}]
    PROVE  /\ XListing \in Seq(Events)
           /\ \E n \in Nat :
                 /\ Len(XListing) = n + 2
                 /\ XListing[1].type = "Init" /\ XListing[n + 2].type = "InitDone"
                 /\ \A i \in 2 .. n + 1 :
                       /\ XListing[i].type = "InitApply" /\ XListing[i].waiver \in Present
                       /\ XListing[i].state = waiver[XListing[i].waiver]
                 /\ \A x \in Present : \E i \in 2 .. n + 1 : XListing[i].waiver = x
<1> DEFINE S == {[type |-> "InitApply", waiver |-> x, state |-> waiver[x]] : x \in Present}
           f == [x \in Present |-> [type |-> "InitApply", waiver |-> x, state |-> waiver[x]]]
           m == SetToSeq(S)
           n == Len(m)
           first == [type |-> "Init"]
           last == [type |-> "InitDone"]
<1>1. IsFiniteSet(Present)
  BY WaiverAssumption, FS_Subset DEF Present
<1>2. f \in Surjection(Present, S)
  BY DEF Surjection
<1>3. IsFiniteSet(S)
  BY <1>1, <1>2, FS_Surjection
<1>4. \A e \in S : /\ e \in Events /\ e.type = "InitApply" /\ e.waiver \in Present
                   /\ e.state = waiver[e.waiver]
  <2> SUFFICES ASSUME NEW x \in Present
               PROVE  [type |-> "InitApply", waiver |-> x, state |-> waiver[x]] \in Events
    OBVIOUS
  <2>1. x \in Waivers /\ waiver[x] \in {"valid", "rejected"}
    BY DEF Present
  <2> QED
    BY <2>1 DEF Events
<1>5. ASSUME NEW x \in Present
      PROVE  \E e \in S : e.waiver = x
  <2>1. f[x] \in S /\ f[x].waiver = x
    OBVIOUS
  <2> QED
    BY <2>1, Zenon
<1>6. XListing = <<first>> \o m \o <<last>>
  BY Zenon DEF XListing, Present
<1> HIDE DEF S
<1>7. /\ m \in Seq(S) /\ n \in Nat /\ \A i \in 1 .. n : m[i] \in S
      /\ \A e \in S : \E i \in 1 .. n : m[i] = e
  BY <1>3, SetToSeqLists
<1> HIDE DEF m
<1>8. m \in Seq(Events) /\ first \in Events /\ last \in Events
  BY <1>4, <1>7 DEF Events
<1>9. <<first>> \in Seq(Events) /\ <<last>> \in Seq(Events) /\ Len(<<first>>) = 1 /\ Len(<<last>>) = 1
      /\ <<first>>[1] = first /\ <<last>>[1] = last
  BY <1>8
<1> DEFINE head == <<first>> \o m
<1>10. /\ head \in Seq(Events) /\ Len(head) = n + 1 /\ head[1] = first
       /\ \A i \in 2 .. n + 1 : head[i] = m[i - 1]
  BY <1>7, <1>8, <1>9
<1> HIDE DEF head
<1>11. /\ XListing \in Seq(Events) /\ Len(XListing) = n + 2 /\ XListing[n + 2] = last
       /\ \A i \in 1 .. n + 1 : XListing[i] = head[i]
  BY <1>6, <1>7, <1>9, <1>10 DEF head
<1>12. /\ XListing[1] = first
       /\ \A i \in 2 .. n + 1 : XListing[i] = m[i - 1] /\ i - 1 \in 1 .. n
  BY <1>7, <1>10, <1>11
<1>13. \A i \in 2 .. n + 1 : XListing[i] \in S
  BY <1>7, <1>12
<1>14. ASSUME NEW x \in Present
       PROVE  \E i \in 2 .. n + 1 : XListing[i].waiver = x
  <2>1. PICK e \in S : e.waiver = x
    BY <1>5
  <2>2. PICK i \in 1 .. n : m[i] = e
    BY <1>7
  <2>3. i + 1 \in 2 .. n + 1 /\ (i + 1) - 1 = i
    BY <1>7
  <2>4. XListing[i + 1] = e
    BY <1>12, <2>2, <2>3
  <2> QED
    BY <2>1, <2>3, <2>4
<1>15. /\ Len(XListing) = n + 2
       /\ XListing[1].type = "Init" /\ XListing[n + 2].type = "InitDone"
       /\ \A i \in 2 .. n + 1 :
             /\ XListing[i].type = "InitApply" /\ XListing[i].waiver \in Present
             /\ XListing[i].state = waiver[XListing[i].waiver]
       /\ \A x \in Present : \E i \in 2 .. n + 1 : XListing[i].waiver = x
  BY <1>4, <1>11, <1>12, <1>13, <1>14
<1> QED
  BY <1>7, <1>11, <1>15

\* A fresh list tells of every waiver, whatever the sets were.
LEMMA ListedIsTrue ==
    ASSUME waiver \in [Waivers -> {"absent", "valid", "rejected"}]
    PROVE  LET s == XListing IN
           \E k \in 1 .. Len(s) :
              /\ s[k].type = "InitDone" /\ k = Len(s) /\ k > 1
              /\ s[1].type = "Init"
              /\ \A i \in 1 .. k - 1 : s[i].type \in {"Init", "InitApply"}
                                       /\ (s[i].type = "Init" => i = 1)
              /\ \A x \in Waivers :
                    /\ \A i \in 1 .. k - 1 : About(s[i], x) => Tells(s[i], x)
                    /\ waiver[x] = "valid" => \E i \in 1 .. k - 1 : About(s[i], x)
<1> DEFINE s == XListing
<1>1. PICK n \in Nat :
         /\ Len(s) = n + 2
         /\ s[1].type = "Init" /\ s[n + 2].type = "InitDone"
         /\ \A i \in 2 .. n + 1 :
               /\ s[i].type = "InitApply" /\ s[i].waiver \in Present
               /\ s[i].state = waiver[s[i].waiver]
         /\ \A x \in Present : \E i \in 2 .. n + 1 : s[i].waiver = x
  BY XListingShape
<1>2. /\ n + 2 \in 1 .. Len(s) /\ n + 2 = Len(s) /\ n + 2 > 1 /\ (n + 2) - 1 = n + 1
      /\ \A i \in 1 .. n + 1 : i = 1 \/ i \in 2 .. n + 1
      /\ \A i \in 2 .. n + 1 : i \in 1 .. n + 1
  BY <1>1
<1>3. \A i \in 1 .. n + 1 : s[i].type \in {"Init", "InitApply"} /\ (s[i].type = "Init" => i = 1)
  BY <1>1, <1>2
<1>4. ASSUME NEW x \in Waivers, NEW i \in 1 .. n + 1, About(s[i], x)
      PROVE  Tells(s[i], x)
  BY <1>1, <1>2, <1>4 DEF About, Tells
<1>5. ASSUME NEW x \in Waivers, waiver[x] = "valid"
      PROVE  \E i \in 1 .. n + 1 : About(s[i], x)
  <2>1. x \in Present
    BY <1>5 DEF Present
  <2>2. PICK i \in 2 .. n + 1 : s[i].waiver = x
    BY <1>1, <2>1
  <2> QED
    BY <1>1, <1>2, <2>2 DEF About
<1> QED
  BY <1>1, <1>2, <1>3, <1>4, <1>5

\* A fresh list makes the waiver stream right.
LEMMA ListedStreamInv ==
    ASSUME waiver \in [Waivers -> {"absent", "valid", "rejected"}], waiver' = waiver, xstream' = XListing
    PROVE  xstream' \in Seq(Events) /\ StreamInv'
<1> DEFINE s == xstream'
<1>0. s \in Seq(Events) /\ Len(s) \in Nat
  BY XListingShape
<1>1. PICK k \in 1 .. Len(s) :
              /\ s[k].type = "InitDone" /\ k = Len(s) /\ k > 1
              /\ s[1].type = "Init"
              /\ \A i \in 1 .. k - 1 : s[i].type \in {"Init", "InitApply"}
                                       /\ (s[i].type = "Init" => i = 1)
              /\ \A x \in Waivers :
                    /\ \A i \in 1 .. k - 1 : About(s[i], x) => Tells(s[i], x)
                    /\ waiver[x] = "valid" => \E i \in 1 .. k - 1 : About(s[i], x)
  BY ListedIsTrue
<1>2. k \in Nat /\ k \in 0 .. Len(s) /\ k > 0 /\ k # 0 /\ \A i \in k + 1 .. Len(s) : FALSE
  BY <1>0, <1>1
<1>3. Relist(k)'
  BY <1>1, <1>2 DEF Relist
<1>4. ASSUME NEW x \in Waivers
      PROVE  Collected(k, x)'
  <2>1. \A i \in 1 .. k - 1 : About(s[i], x) => Tells(xstream[i], x)'
    BY <1>1 DEF Tells, About
  <2>2. \/ \E i \in 1 .. k - 1 : About(s[i], x)
        \/ waiver'[x] # "valid"
    BY <1>1
  <2> QED
    BY <1>1, <1>2, <2>1, <2>2 DEF Collected, About
<1> QED
  BY <1>0, <1>2, <1>3, <1>4 DEF StreamInv

\* So does the first one.
LEMMA FirstStreamInv ==
    ASSUME waiver \in [Waivers -> {"absent", "valid", "rejected"}], xstream = XListing
    PROVE  xstream \in Seq(Events) /\ StreamInv
<1> DEFINE s == xstream
<1>0. s \in Seq(Events) /\ Len(s) \in Nat
  BY XListingShape
<1>1. PICK k \in 1 .. Len(s) :
              /\ s[k].type = "InitDone" /\ k = Len(s) /\ k > 1
              /\ s[1].type = "Init"
              /\ \A i \in 1 .. k - 1 : s[i].type \in {"Init", "InitApply"}
                                       /\ (s[i].type = "Init" => i = 1)
              /\ \A x \in Waivers :
                    /\ \A i \in 1 .. k - 1 : About(s[i], x) => Tells(s[i], x)
                    /\ waiver[x] = "valid" => \E i \in 1 .. k - 1 : About(s[i], x)
  BY ListedIsTrue
<1>2. k \in Nat /\ k \in 0 .. Len(s) /\ k > 0 /\ k # 0 /\ \A i \in k + 1 .. Len(s) : FALSE
  BY <1>0, <1>1
<1>3. Relist(k)
  BY <1>1, <1>2 DEF Relist
<1>4. ASSUME NEW x \in Waivers
      PROVE  Collected(k, x)
  <2>1. \A i \in 1 .. k - 1 : About(s[i], x) => Tells(xstream[i], x)
    BY <1>1 DEF Tells, About
  <2>2. \/ \E i \in 1 .. k - 1 : About(s[i], x)
        \/ waiver[x] # "valid"
    BY <1>1
  <2> QED
    BY <1>1, <1>2, <2>1, <2>2 DEF Collected, About
<1> QED
  BY <1>0, <1>2, <1>3, <1>4 DEF StreamInv

\* The fields of an event.
LEMMA EventFields ==
    ASSUME NEW e \in Events
    PROVE  /\ e.type \in {"Init", "InitDone", "InitApply", "Apply", "Delete"}
           /\ e.type \in {"InitApply", "Apply"} => e.waiver \in Waivers /\ e.state \in {"valid", "rejected"}
           /\ e.type = "Delete" => e.waiver \in Waivers
  BY DEF Events

\* A change of a waiver is the last that is heard of it.
LEMMA EditWaiverKeeps ==
    ASSUME IInv, NEW x \in Waivers, NEW state \in {"absent", "valid", "rejected"},
           EditWaiver(x, state)
    PROVE  WaiverType' /\ StreamInv'
<1> DEFINE e == IF state = "absent" THEN [type |-> "Delete", waiver |-> x]
                ELSE [type |-> "Apply", waiver |-> x, state |-> state]
           n == Len(xstream)
<1>1. /\ waiver' = [waiver EXCEPT ![x] = state] /\ xstream' = Append(xstream, e)
      /\ UNCHANGED <<xpc, live, staging, todo>>
  BY DEF EditWaiver, xVars
<1>2. e \in Events /\ xstream \in Seq(Events) /\ n \in Nat
  BY DEF Events, IInv, XInv, WaiverType
<1>3. /\ xstream' \in Seq(Events) /\ Len(xstream') = n + 1 /\ xstream'[n + 1] = e
      /\ \A i \in 1 .. n : xstream'[i] = xstream[i]
  BY <1>1, <1>2
<1>4. /\ waiver' \in [Waivers -> {"absent", "valid", "rejected"}] /\ waiver'[x] = state
      /\ \A y \in Waivers : y # x => waiver'[y] = waiver[y]
  BY <1>1 DEF IInv, XInv, WaiverType
<1>5. WaiverType'
  BY <1>1, <1>3, <1>4 DEF IInv, XInv, WaiverType
<1>6. e.type \in {"Apply", "Delete"} /\ Tells(e, x)' /\ \A y \in Waivers : About(e, y) <=> y = x
  BY <1>4 DEF Tells, About
<1> HIDE DEF e
<1>7. PICK k \in 0 .. n : Relist(k) /\ \A y \in Waivers : Collected(k, y) \/ Changed(k, y)
  BY DEF IInv, XInv, StreamInv
<1>8. /\ k \in Nat /\ k \in 0 .. n + 1 /\ n + 1 \in k + 1 .. n + 1
      /\ \A i \in 1 .. k : i \in 1 .. n /\ xstream'[i] = xstream[i]
      /\ \A i \in 1 .. k - 1 : i \in 1 .. n /\ xstream'[i] = xstream[i]
      /\ \A i \in k + 1 .. n + 1 : i = n + 1 \/ (i \in k + 1 .. n /\ xstream'[i] = xstream[i])
      /\ \A i \in k + 1 .. n : i \in k + 1 .. n + 1 /\ xstream'[i] = xstream[i]
      /\ \A j \in n + 2 .. n + 1 : FALSE
  BY <1>2, <1>3
<1>9. Relist(k)'
  BY <1>3, <1>6, <1>7, <1>8 DEF Relist
<1>10. Changed(k, x)'
  BY <1>3, <1>6, <1>8 DEF Changed
<1>11. ASSUME NEW y \in Waivers, y # x
       PROVE  Collected(k, y)' \/ Changed(k, y)'
  <2>1. ~About(e, y)
    BY <1>6, <1>11
  <2>2. \A d : Tells(d, y)' <=> Tells(d, y)
    BY <1>4, <1>11 DEF Tells, About
  <2>3. CASE Collected(k, y)
    <3>1. \A i \in k + 1 .. n + 1 : ~About(xstream'[i], y)
      BY <1>3, <1>8, <2>1, <2>3 DEF Collected
    <3>2. k = 0 => (y \in live <=> waiver'[y] = "valid")
      BY <1>4, <1>11, <2>3 DEF Collected
    <3>3. ASSUME k > 0
          PROVE  /\ \A i \in 1 .. k - 1 : About(xstream'[i], y) => Tells(xstream[i], y)'
                 /\ \/ \E i \in 1 .. k - 1 : About(xstream'[i], y)
                    \/ IF xstream'[1].type = "Init" THEN waiver'[y] # "valid"
                       ELSE y \in staging <=> waiver'[y] = "valid"
      <4>1. xstream'[1] = xstream[1]
        BY <1>8, <3>3
      <4> QED
        BY <1>4, <1>8, <1>11, <2>2, <2>3, <3>3, <4>1 DEF Collected
    <3> QED
      BY <1>1, <1>3, <3>1, <3>2, <3>3 DEF Collected, About
  <2>4. CASE Changed(k, y)
    <3>1. PICK i \in k + 1 .. n : /\ Tells(xstream[i], y)
                                  /\ \A j \in i + 1 .. n : ~About(xstream[j], y)
      BY <2>4 DEF Changed
    <3>2. i \in k + 1 .. n + 1 /\ Tells(xstream[i], y)'
      BY <1>8, <2>2, <3>1
    <3>3. \A j \in i + 1 .. n + 1 : ~About(xstream'[j], y)
      <4> SUFFICES ASSUME NEW j \in i + 1 .. n + 1
                   PROVE  ~About(xstream'[j], y)
        OBVIOUS
      <4>1. j = n + 1 \/ (j \in i + 1 .. n /\ j \in k + 1 .. n)
        BY <1>2, <1>8, <3>1
      <4> QED
        BY <1>3, <1>8, <2>1, <3>1, <4>1
    <3> QED
      BY <1>3, <3>2, <3>3 DEF Changed, About
  <2> QED
    BY <1>7, <2>3, <2>4
<1> QED
  BY <1>3, <1>5, <1>8, <1>9, <1>10, <1>11 DEF StreamInv

\* The head of the stream and what is left of it.
LEMMA StreamTail ==
    ASSUME IInv, xstream # <<>>, xstream' = Tail(xstream)
    PROVE  /\ xstream \in Seq(Events) /\ xstream' \in Seq(Events)
           /\ Len(xstream) \in Nat \ {0} /\ Len(xstream') = Len(xstream) - 1
           /\ Head(xstream) = xstream[1] /\ Head(xstream) \in Events
           /\ \A i \in 1 .. Len(xstream') : xstream'[i] = xstream[i + 1]
  BY DEF IInv, XInv, WaiverType

\* Each event leaves the sets right about the waivers that are not heard of again.
LEMMA XTakeStream ==
    ASSUME IInv, XTake
    PROVE  StreamInv'
<1> DEFINE e == Head(xstream)
           n == Len(xstream)
<1>1. xstream # <<>> /\ xstream' = Tail(xstream) /\ waiver' = waiver
  BY DEF XTake
<1>2. /\ xstream \in Seq(Events) /\ n \in Nat \ {0} /\ Len(xstream') = n - 1
      /\ e = xstream[1] /\ e \in Events
      /\ \A i \in 1 .. n - 1 : xstream'[i] = xstream[i + 1]
  BY <1>1, StreamTail
<1>3. /\ e.type \in {"Init", "InitDone", "InitApply", "Apply", "Delete"}
      /\ e.type = "Apply" => live' = SetAfter(live, e) /\ staging' = staging
      /\ e.type = "Delete" => live' = live \ {e.waiver} /\ staging' = staging
      /\ e.type = "Init" => live' = live /\ staging' = {}
      /\ e.type = "InitApply" => live' = live /\ staging' = SetAfter(staging, e)
      /\ e.type = "InitDone" => live' = staging /\ staging' = staging
  BY <1>2, EventFields DEF XTake, Relisted
<1> HIDE DEF e
<1>4. PICK k \in 0 .. n : Relist(k) /\ \A x \in Waivers : Collected(k, x) \/ Changed(k, x)
  BY DEF IInv, XInv, StreamInv
<1>5. \A d, x : Tells(d, x)' <=> Tells(d, x)
  BY <1>1 DEF Tells, About
<1>6. CASE k = 0
  <2>1. e.type \in {"Apply", "Delete"}
    BY <1>2, <1>4, <1>6 DEF Relist
  <2>2. 0 \in 0 .. n - 1 /\ \A i \in 1 .. n - 1 : i + 1 \in 1 .. n
    BY <1>2
  <2>3. Relist(0)'
    BY <1>2, <1>4, <1>6, <2>2 DEF Relist
  <2>4. ASSUME NEW x \in Waivers
        PROVE  Collected(0, x)' \/ Changed(0, x)'
    <3>1. CASE \E i \in 2 .. n : /\ Tells(xstream[i], x)
                                 /\ \A j \in i + 1 .. n : ~About(xstream[j], x)
      <4>1. PICK i \in 2 .. n : /\ Tells(xstream[i], x)
                                /\ \A j \in i + 1 .. n : ~About(xstream[j], x)
        BY <3>1
      <4>2. i - 1 \in 1 .. n - 1 /\ (i - 1) + 1 = i
            /\ \A j \in (i - 1) + 1 .. n - 1 : j \in 1 .. n - 1 /\ j + 1 \in i + 1 .. n
        BY <1>2
      <4>3. xstream'[i - 1] = xstream[i]
        BY <1>2, <4>2
      <4>4. \A j \in (i - 1) + 1 .. n - 1 : ~About(xstream'[j], x)
        BY <1>2, <4>1, <4>2
      <4> QED
        BY <1>2, <1>5, <4>1, <4>2, <4>3, <4>4 DEF Changed, About
    <3>2. CASE ~ \E i \in 2 .. n : /\ Tells(xstream[i], x)
                                   /\ \A j \in i + 1 .. n : ~About(xstream[j], x)
      <4>1. /\ \A i \in 2 .. n : ~About(xstream[i], x)
            /\ (x \in live /\ ~About(xstream[1], x) <=> waiver[x] = "valid" /\ ~About(xstream[1], x))
            /\ About(xstream[1], x) => Tells(xstream[1], x)
        <5>1. CASE Collected(0, x)
          BY <1>2, <5>1 DEF Collected
        <5>2. CASE Changed(0, x)
          <6>1. PICK i \in 1 .. n : /\ Tells(xstream[i], x)
                                    /\ \A j \in i + 1 .. n : ~About(xstream[j], x)
            BY <5>2 DEF Changed
          <6>2. i = 1
            BY <1>2, <3>2, <6>1
          <6> QED
            BY <1>2, <6>1, <6>2 DEF Tells
        <5> QED
          BY <1>4, <1>6, <5>1, <5>2
      <4>2. x \in live' <=> waiver[x] = "valid"
        <5>1. CASE About(e, x)
          BY <1>2, <1>3, <2>1, <4>1, <5>1 DEF Tells, About, SetAfter
        <5>2. CASE ~About(e, x)
          BY <1>2, <1>3, <2>1, <4>1, <5>2 DEF About, SetAfter
        <5> QED
          BY <5>1, <5>2
      <4>3. \A i \in 1 .. n - 1 : ~About(xstream'[i], x)
        <5>1. \A i \in 1 .. n - 1 : i + 1 \in 2 .. n
          BY <1>2
        <5> QED
          BY <1>2, <4>1, <5>1
      <4> QED
        BY <1>1, <1>2, <4>2, <4>3 DEF Collected, About
    <3> QED
      BY <3>1, <3>2
  <2> QED
    BY <1>2, <2>2, <2>3, <2>4 DEF StreamInv

<1>7. CASE k > 0
  <2>1. /\ k \in 1 .. n /\ k - 1 \in 0 .. n - 1 /\ k - 1 \in Nat
        /\ \A i \in 1 .. n - 1 : i + 1 \in 1 .. n
        /\ \A i \in 1 .. (k - 1) - 1 : i \in 1 .. n - 1 /\ i + 1 \in 1 .. k - 1 /\ i + 1 # 1
        /\ \A i \in (k - 1) + 1 .. n - 1 : i \in 1 .. n - 1 /\ i + 1 \in k + 1 .. n
        /\ \A i \in k + 1 .. n : i - 1 \in (k - 1) + 1 .. n - 1 /\ i - 1 \in 1 .. n - 1 /\ (i - 1) + 1 = i
        /\ k > 1 => k - 1 \in 1 .. n - 1 /\ (k - 1) + 1 = k /\ 1 \in 1 .. k - 1
        /\ k > 1 \/ k = 1
    BY <1>2, <1>7
  <2>2. Relist(k - 1)'
    <3>1. k - 1 > 0 => xstream'[k - 1].type = "InitDone"
      <4> SUFFICES ASSUME k - 1 > 0
                   PROVE  xstream'[k - 1] = xstream[k]
        BY <1>4, <1>7 DEF Relist
      <4>1. k > 1
        BY <2>1
      <4> QED
        BY <1>2, <2>1, <4>1
    <3>2. \A i \in 1 .. (k - 1) - 1 : xstream'[i].type \in {"Init", "InitApply"}
                                      /\ (xstream'[i].type = "Init" => i = 1)
      <4> SUFFICES ASSUME NEW i \in 1 .. (k - 1) - 1
                   PROVE  xstream'[i].type \in {"Init", "InitApply"} /\ xstream'[i].type # "Init"
        BY Zenon
      <4>1. xstream'[i] = xstream[i + 1] /\ i + 1 \in 1 .. k - 1 /\ i + 1 # 1
        BY <1>2, <2>1
      <4> QED
        BY <1>4, <4>1, Zenon DEF Relist
    <3>3. \A i \in (k - 1) + 1 .. n - 1 : xstream'[i].type \in {"Apply", "Delete"}
      BY <1>2, <1>4, <2>1 DEF Relist
    <3> QED
      BY <1>2, <3>1, <3>2, <3>3 DEF Relist
  <2>3. ASSUME NEW x \in Waivers, Changed(k, x)
        PROVE  Changed(k - 1, x)'
    <3>1. PICK i \in k + 1 .. n : /\ Tells(xstream[i], x)
                                  /\ \A j \in i + 1 .. n : ~About(xstream[j], x)
      BY <2>3 DEF Changed
    <3>2. xstream'[i - 1] = xstream[i] /\ i - 1 \in (k - 1) + 1 .. n - 1
      BY <1>2, <2>1, <3>1
    <3>3. ASSUME NEW j \in (i - 1) + 1 .. n - 1
          PROVE  ~About(xstream'[j], x)
      <4>1. j + 1 \in i + 1 .. n /\ j \in 1 .. n - 1
        BY <1>2, <2>1, <3>1, <3>3
      <4> QED
        BY <1>2, <3>1, <4>1
    <3> QED
      BY <1>2, <1>5, <3>1, <3>2, <3>3 DEF Changed, About
  <2>4. ASSUME NEW x \in Waivers, Collected(k, x)
        PROVE  Collected(k - 1, x)'
    <3>1. /\ \A i \in k + 1 .. n : ~About(xstream[i], x)
          /\ \A i \in 1 .. k - 1 : About(xstream[i], x) => Tells(xstream[i], x)
          /\ \/ \E i \in 1 .. k - 1 : About(xstream[i], x)
             \/ IF xstream[1].type = "Init" THEN waiver[x] # "valid"
                ELSE x \in staging <=> waiver[x] = "valid"
      BY <1>7, <2>4 DEF Collected
    <3>2. \A i \in (k - 1) + 1 .. n - 1 : ~About(xstream'[i], x)
      BY <1>2, <2>1, <3>1
    <3>3. CASE k = 1
      <4>1. e.type = "InitDone"
        BY <1>2, <1>4, <3>3 DEF Relist
      <4>2. x \in staging <=> waiver[x] = "valid"
        BY <1>2, <3>1, <3>3, <4>1
      <4> QED
        BY <1>1, <1>2, <1>3, <3>2, <3>3, <4>1, <4>2 DEF Collected, About
    <3>4. CASE k > 1
      <4>1. \A i \in 1 .. (k - 1) - 1 : About(xstream'[i], x) => Tells(xstream[i], x)'
        BY <1>2, <1>5, <2>1, <3>1
      <4>2. e.type \in {"Init", "InitApply"}
        BY <1>2, <1>4, <2>1, <3>4 DEF Relist
      <4>3. xstream'[1].type # "Init"
        <5>1. CASE k = 2
          BY <1>2, <1>4, <2>1, <5>1 DEF Relist
        <5>2. CASE k > 2
          <6>1. 2 \in 1 .. k - 1 /\ 1 \in 1 .. n - 1 /\ 1 + 1 = 2
            BY <1>2, <2>1, <5>2
          <6> QED
            BY <1>2, <1>4, <6>1 DEF Relist
        <5> QED
          BY <2>1, <3>4, <5>1, <5>2
      <4>4. ASSUME ~ \E i \in 1 .. (k - 1) - 1 : About(xstream'[i], x)
            PROVE  x \in staging' <=> waiver[x] = "valid"
        <5>1. \A i \in 1 .. k - 1 : i = 1 \/ (i - 1 \in 1 .. (k - 1) - 1 /\ i - 1 \in 1 .. n - 1
                                               /\ (i - 1) + 1 = i)
          BY <1>2, <2>1, <3>4
        <5>2. \A i \in 1 .. k - 1 : About(xstream[i], x) => i = 1
          BY <1>2, <4>4, <5>1
        <5>3. CASE About(e, x)
          <6>1. e.type = "InitApply" /\ Tells(e, x)
            BY <1>2, <2>1, <3>1, <3>4, <4>2, <5>3 DEF About
          <6> QED
            BY <1>3, <6>1 DEF Tells, About, SetAfter
        <5>4. CASE ~About(e, x)
          <6>1. IF xstream[1].type = "Init" THEN waiver[x] # "valid"
                ELSE x \in staging <=> waiver[x] = "valid"
            BY <1>2, <3>1, <5>2, <5>4
          <6>2. CASE e.type = "Init"
            BY <1>2, <1>3, <6>1, <6>2
          <6>3. CASE e.type = "InitApply"
            BY <1>2, <1>3, <5>4, <6>1, <6>3 DEF About, SetAfter
          <6> QED
            BY <4>2, <6>2, <6>3
        <5> QED
          BY <5>3, <5>4
      <4>5. k - 1 # 0 /\ Len(xstream') = n - 1
        BY <1>2, <3>4
      <4> QED
        BY <1>1, <3>2, <4>1, <4>3, <4>4, <4>5 DEF Collected, About
    <3> QED
      BY <2>1, <3>3, <3>4
  <2> QED
    BY <1>2, <1>4, <2>1, <2>2, <2>3, <2>4 DEF StreamInv
<1> QED
  BY <1>2, <1>4, <1>6, <1>7

----------------------------------------------------------------------------
(* The waiver watch: its steps. *)

\* The policy side knows the waiver watch by the Secrets it is about to patch.
LEMMA PolicyFrame ==
    ASSUME PolicyInv, UNCHANGED <<object, secret, stream, task, hit, gone>>,
           todo' \subseteq todo \cup ListTargets, stale' \subseteq Policies
    PROVE  PolicyInv'
<1>1. PolicyType' /\ OwnKind' /\ TaskInv' /\ OrderInv' /\ ReadyIsBacked'
  BY DEF PolicyInv, PolicyType, ListTargets, OwnKind, TaskInv, InHand, OrderInv, ReadyIsBacked
<1>2. Ownership'
  BY DEF PolicyInv, Ownership, ListTargets
<1> QED
  BY <1>1, <1>2 DEF PolicyInv

\* The waiver stream knows the waivers and the two sets only.
LEMMA StreamFrame ==
    ASSUME StreamInv, UNCHANGED <<waiver, xstream, live, staging>>
    PROVE  StreamInv'
  BY DEF StreamInv, Relist, Collected, Changed, Tells, About

\* The waiver watch takes an event.
LEMMA XTakeKeeps ==
    ASSUME IInv, XTake
    PROVE  IInv'
<1> DEFINE e == Head(xstream)
<1>1. /\ xstream # <<>> /\ xstream' = Tail(xstream) /\ xpc \in {"start", "idle"}
      /\ UNCHANGED <<object, waiver, secret, stream, task, todo, stale, hit, gone>>
  BY DEF XTake
<1>2. e \in Events /\ xstream' \in Seq(Events)
  BY <1>1, StreamTail
<1>3. xpc' \in {"status", "list"} /\ live' \subseteq Waivers /\ staging' \subseteq Waivers
  BY <1>2, EventFields DEF XTake, SetAfter, Relisted, IInv, XInv, WaiverType
<1>4. WaiverType'
  BY <1>1, <1>2, <1>3 DEF IInv, XInv, WaiverType
<1>5. ListInv'
  BY <1>3 DEF ListInv
<1>6. PolicyInv'
  BY <1>1, PolicyFrame DEF IInv, PolicyInv, PolicyType
<1> QED
  BY <1>4, <1>5, <1>6, XTakeStream DEF IInv, XInv

\* The waiver's own status says nothing of the Secrets.
LEMMA XStatusKeeps ==
    ASSUME IInv, XStatus
    PROVE  IInv'
<1>1. /\ xpc' = "list" /\ xpc = "status"
      /\ UNCHANGED <<object, waiver, secret, stream, xstream, task, live, staging, todo, stale, hit, gone>>
  BY DEF XStatus, apiVars
<1>2. PolicyInv'
  BY <1>1, PolicyFrame DEF IInv, PolicyInv, PolicyType
<1>3. WaiverType' /\ ListInv'
  BY <1>1 DEF IInv, XInv, WaiverType, ListInv
<1> QED
  BY <1>1, <1>2, <1>3, StreamFrame DEF IInv, XInv

\* The pass over the Secrets begins: each owned one is to be patched.
LEMMA XListKeeps ==
    ASSUME IInv, XList
    PROVE  IInv'
<1>1. /\ todo' = ListTargets /\ xpc' = IF todo' = {} THEN "idle" ELSE "patch"
      /\ UNCHANGED <<object, waiver, secret, stream, xstream, task, live, staging, stale, hit, gone>>
  BY DEF XList, apiVars
<1>2. PolicyInv'
  BY <1>1, PolicyFrame DEF IInv, PolicyInv, PolicyType
<1>3. WaiverType'
  BY <1>1 DEF IInv, XInv, WaiverType
<1>4. ListInv'
  BY <1>1 DEF ListInv, ListTargets
<1> QED
  BY <1>1, <1>2, <1>3, <1>4, StreamFrame DEF IInv, XInv

\* A pass that cannot begin leaves its targets stale.
LEMMA XListFailsKeeps ==
    ASSUME IInv, XListFails
    PROVE  IInv'
<1>1. /\ stale' = stale \cup ListTargets /\ xpc' = "idle" /\ xpc = "list"
      /\ UNCHANGED <<object, waiver, secret, stream, xstream, task, live, staging, todo, hit, gone>>
  BY DEF XListFails, apiVars
<1>2. PolicyInv'
  BY <1>1, PolicyFrame DEF IInv, PolicyInv, PolicyType, ListTargets
<1>3. WaiverType'
  BY <1>1 DEF IInv, XInv, WaiverType
<1>4. ListInv'
  BY <1>1 DEF ListInv, ListTargets
<1> QED
  BY <1>1, <1>2, <1>3, <1>4, StreamFrame DEF IInv, XInv

\* A Secret behind the pass has the list of the set.
LEMMA XPatchKeeps ==
    ASSUME IInv, NEW p \in Policies, XPatch(p)
    PROVE  IInv'
<1>1. /\ xpc = "patch" /\ p \in todo /\ todo' = todo \ {p}
      /\ xpc' = IF todo' = {} THEN "idle" ELSE "patch"
      /\ UNCHANGED <<object, waiver, stream, xstream, task, live, staging, hit, gone>>
  BY DEF XPatch, XPatched
<1>2. WaiverType' /\ StreamInv'
  BY <1>1, StreamFrame DEF IInv, XInv, WaiverType
<1>3. todo' \subseteq Policies
  BY <1>1 DEF IInv, PolicyInv, PolicyType
<1>4. CASE secret[p] = NoSecret
  <2>1. UNCHANGED <<secret, stale>>
    BY <1>4 DEF XPatch
  <2>2. PolicyInv'
    BY <1>1, <2>1, PolicyFrame DEF IInv, PolicyInv, PolicyType
  <2>3. ListInv'
    <3> SUFFICES ASSUME NEW q \in Policies,
                        q \notin todo', secret[q].owner = q, q \notin stale, ~WillAttach(q)
                 PROVE  secret[q].list = Scoped(live, q)
      BY <1>1, <2>1 DEF ListInv, Scoped, WillAttach
    <3>1. q # p
      BY <1>4, PolicyAssumption DEF NoSecret
    <3> QED
      BY <1>1, <3>1 DEF IInv, XInv, ListInv
  <2> QED
    BY <1>2, <2>2, <2>3 DEF IInv, XInv
<1>5. CASE secret[p] # NoSecret
  <2>1. ListLands(p, Scoped(live, p))
    BY <1>5 DEF XPatch
  <2>3. Scoped(live, p) \subseteq Waivers
    BY DEF Scoped, IInv, XInv, WaiverType
  <2>4. ListStep(p, Scoped(live, p))
    BY <1>1, <1>5, <2>1, <2>3 DEF ListStep
  <2>5. /\ secret' \in [Policies -> Secrets] /\ stale' \subseteq Policies
        /\ \A q \in Policies : q # p => secret'[q] = secret[q] /\ (q \in stale' <=> q \in stale)
        /\ secret'[p].list = Scoped(live, p)
    BY <2>4, ListStepSecret DEF IInv
  <2>6. Ownership' /\ ReadyIsBacked' /\ TaskInv' /\ OrderInv'
    BY <1>1, <2>4, ListStepKeeps DEF IInv
  <2>7. PolicyType' /\ OwnKind'
    BY <1>1, <1>3, <2>5 DEF IInv, PolicyInv, PolicyType, OwnKind
  <2>8. ListInv'
    <3> SUFFICES ASSUME NEW q \in Policies,
                        q \notin todo', secret'[q].owner = q, q \notin stale', ~WillAttach(q)
                 PROVE  secret'[q].list = Scoped(live, q)
      BY <1>1 DEF ListInv, Scoped, WillAttach
    <3>1. CASE q = p
      BY <2>5, <3>1
    <3>2. CASE q # p
      BY <1>1, <2>5, <3>2 DEF IInv, XInv, ListInv
    <3> QED
      BY <3>1, <3>2
  <2> QED
    BY <1>2, <2>6, <2>7, <2>8 DEF IInv, XInv, PolicyInv
<1> QED
  BY <1>4, <1>5

\* A Secret that could not be patched is stale.
LEMMA XPatchFailsKeeps ==
    ASSUME IInv, NEW p \in Policies, XPatchFails(p)
    PROVE  IInv'
<1>1. /\ xpc = "patch" /\ p \in todo /\ todo' = todo \ {p}
      /\ xpc' = IF todo' = {} THEN "idle" ELSE "patch"
      /\ stale' = IF secret[p] = NoSecret THEN stale ELSE stale \cup {p}
      /\ UNCHANGED <<object, waiver, secret, stream, xstream, task, live, staging, hit, gone>>
  BY DEF XPatchFails, XPatched
<1>2. WaiverType' /\ StreamInv'
  BY <1>1, StreamFrame DEF IInv, XInv, WaiverType
<1>3. PolicyInv'
  BY <1>1, PolicyFrame DEF IInv, PolicyInv, PolicyType
<1>4. ListInv'
  <2> SUFFICES ASSUME NEW q \in Policies,
                      q \notin todo', secret[q].owner = q, q \notin stale', ~WillAttach(q)
               PROVE  secret[q].list = Scoped(live, q)
    BY <1>1 DEF ListInv, Scoped, WillAttach
  <2>1. q # p
    BY <1>1, PolicyAssumption DEF NoSecret
  <2> QED
    BY <1>1, <2>1 DEF IInv, XInv, ListInv
<1> QED
  BY <1>2, <1>3, <1>4 DEF IInv, XInv

----------------------------------------------------------------------------
(* A list anew, of the waivers and of everything. *)

\* A relist takes the place of the events to come.
LEMMA DesyncKeeps ==
    ASSUME IInv, Desync
    PROVE  IInv'
<1>1. /\ xstream' = XListing
      /\ UNCHANGED <<object, waiver, secret, stream, task, xpc, live, staging, todo, stale, hit, gone>>
  BY DEF Desync, xVars
<1>2. xstream' \in Seq(Events) /\ StreamInv'
  BY <1>1, ListedStreamInv DEF IInv, XInv, WaiverType
<1>3. PolicyInv'
  BY <1>1, PolicyFrame DEF IInv, PolicyInv, PolicyType
<1>4. WaiverType' /\ ListInv'
  BY <1>1, <1>2 DEF IInv, XInv, WaiverType, ListInv, WillAttach, Scoped
<1> QED
  BY <1>2, <1>3, <1>4 DEF IInv, XInv

\* The versions of a list are in order, whatever was written before.
LEMMA ListingOrdered ==
    ASSUME object \in [Policies -> Objects], NEW p \in Policies, NEW lo \in Nat,
           lo <= object[p].generation
    PROVE  Ordered(Listing(Kind[p]), p, lo, object[p].generation)
<1> DEFINE s == Listing(Kind[p])
<1>1. \A i \in 1 .. Len(s) : s[i].object = object[s[i].policy]
  BY ListingGives DEF Watches
<1>2. object[p].generation \in Nat /\ object[p].generation <= object[p].generation
  BY ControllerBounds DEF Objects
<1>3. s \in Seq(Versions) /\ Len(s) \in Nat
  BY ListingGives DEF Watches
<1> HIDE DEF s
<1>4. \A i \in 1 .. Len(s) : s[i].policy = p => s[i].object.generation = object[p].generation
  BY <1>1
<1>5. \A i \in 1 .. Len(s) : \A j \in i .. Len(s) : j \in 1 .. Len(s)
  BY <1>3
<1>6. Ordered(s, p, lo, object[p].generation)
  BY <1>2, <1>4, <1>5 DEF Ordered
<1> QED
  BY <1>6 DEF s

\* A new process lists everything again; its set is empty until then.
LEMMA RestartKeeps ==
    ASSUME IInv, Restart
    PROVE  IInv'
<1>1. /\ stream' = [w \in Watches |-> Listing(w)] /\ task' = [w \in Watches |-> Idle]
      /\ xstream' = XListing /\ xpc' = "start" /\ live' = {} /\ staging' = {} /\ todo' = {}
      /\ UNCHANGED <<object, waiver, secret, stale, hit, gone>>
  BY DEF Restart
<1>2. xstream' \in Seq(Events) /\ StreamInv'
  BY <1>1, ListedStreamInv DEF IInv, XInv, WaiverType
<1>3. WaiverType' /\ ListInv'
  BY <1>1, <1>2 DEF IInv, XInv, WaiverType, ListInv
<1>4. \A w \in Watches : /\ Listing(w) \in Seq(Versions)
                         /\ \A i \in 1 .. Len(Listing(w)) : Kind[Listing(w)[i].policy] = w
  BY ListingGives DEF IInv, PolicyInv, PolicyType
<1>5. \A w \in Watches : stream'[w] = Listing(w) /\ task'[w] = Idle
  BY <1>1
<1>6. PolicyType'
  <2>1. stream' \in [Watches -> Seq(Versions)]
    BY <1>1, <1>4
  <2>2. task' \in [Watches -> Tasks]
    BY <1>1 DEF Tasks
  <2> QED
    BY <1>1, <2>1, <2>2 DEF IInv, PolicyInv, PolicyType
<1>7. OwnKind' /\ TaskInv'
  BY <1>4, <1>5 DEF OwnKind, TaskInv
<1>8. Ownership' /\ ReadyIsBacked'
  BY <1>1 DEF IInv, PolicyInv, Ownership, ReadyIsBacked
<1>9. OrderInv'
  <2> SUFFICES ASSUME NEW q \in Policies
               PROVE  OrderInv!(q)'
    BY DEF OrderInv
  <2>1. /\ secret[q].generation <= object[q].generation /\ object[q].observed <= object[q].generation
        /\ secret[q].generation \in Nat /\ object[q].observed \in Nat
    BY PolicyFacts DEF IInv, PolicyInv, OrderInv
  <2>2. /\ Ordered(Listing(Kind[q]), q, secret[q].generation, object[q].generation)
        /\ Ordered(Listing(Kind[q]), q, object[q].observed, object[q].generation)
    BY <2>1, ListingOrdered DEF IInv, PolicyInv, PolicyType
  <2>3. Kind[q] \in Watches /\ task'[Kind[q]].policy # q
    BY <1>5, PolicyAssumption DEF Watches, Idle
  <2> QED
    BY <1>1, <1>5, <2>1, <2>2, <2>3
<1> QED
  BY <1>2, <1>3, <1>6, <1>7, <1>8, <1>9 DEF IInv, XInv, PolicyInv

----------------------------------------------------------------------------
(* The theorems. *)

\* The first list is true and nothing is published.
LEMMA InitIInv == Init => IInv
<1> SUFFICES ASSUME Init
             PROVE  IInv
  OBVIOUS
<1>1. /\ object \in [Policies -> Objects]
      /\ \A p \in Policies : /\ object[p].generation = 1 /\ object[p].observed = 0
                             /\ object[p].ready = "no"
  <2>1. PICK spec \in [Policies -> Specs] : object = [p \in Policies |-> Fresh(spec[p])]
    BY DEF Init
  <2>2. \A p \in Policies : Fresh(spec[p]) \in Objects
    BY ControllerBounds DEF Fresh, Objects
  <2> QED
    BY <2>1, <2>2 DEF Fresh
<1>2. /\ secret \in [Policies -> Secrets]
      /\ \A p \in Policies : /\ secret[p].owner \in {None, "other", "unscoped"}
                             /\ secret[p].generation = 0
                             /\ secret[p].owner = None => secret[p] = NoSecret
  <2>1. secret \in [Policies -> Foreign]
    BY DEF Init, Foreign
  <2>2. ASSUME NEW p \in Policies
        PROVE  /\ secret[p] \in Secrets /\ secret[p].owner \in {None, "other", "unscoped"}
               /\ secret[p].generation = 0
               /\ secret[p].owner = None => secret[p] = NoSecret
    <3>1. secret[p] \in Foreign
      BY <2>1
    <3> QED
      BY <3>1, ForeignSecrets, PolicyAssumption
  <2> QED
    BY <2>1, <2>2
<1>3. /\ stream = [w \in Watches |-> Listing(w)] /\ task = [w \in Watches |-> Idle]
      /\ todo = {} /\ stale = {} /\ hit = {} /\ gone = {}
      /\ xstream = XListing /\ xpc = "start" /\ live = {} /\ staging = {}
      /\ waiver \in [Waivers -> {"absent", "valid", "rejected"}]
  BY DEF Init
<1>4. \A w \in Watches : /\ Listing(w) \in Seq(Versions)
                         /\ \A i \in 1 .. Len(Listing(w)) : Kind[Listing(w)[i].policy] = w
  BY <1>1, ListingGives
<1>5. PolicyType
  <2>1. stream \in [Watches -> Seq(Versions)] /\ task \in [Watches -> Tasks]
    BY <1>3, <1>4 DEF Tasks
  <2> QED
    BY <1>1, <1>2, <1>3, <2>1 DEF PolicyType
<1>6. OwnKind /\ TaskInv
  BY <1>3, <1>4 DEF OwnKind, TaskInv
<1>7. Ownership /\ ReadyIsBacked
  BY <1>1, <1>2, <1>3, PolicyAssumption DEF Ownership, ReadyIsBacked
<1>8. OrderInv
  <2> SUFFICES ASSUME NEW q \in Policies
               PROVE  OrderInv!(q)
    BY DEF OrderInv
  <2>1. Ordered(Listing(Kind[q]), q, 0, object[q].generation)
    BY <1>1, ListingOrdered
  <2>2. Kind[q] \in Watches /\ task[Kind[q]].policy # q /\ stream[Kind[q]] = Listing(Kind[q])
    BY <1>3, PolicyAssumption DEF Watches, Idle
  <2> QED
    BY <1>1, <1>2, <2>1, <2>2
<1>9. xstream \in Seq(Events) /\ StreamInv
  BY <1>3, FirstStreamInv
<1>10. WaiverType /\ ListInv
  BY <1>3, <1>9 DEF WaiverType, ListInv
<1> QED
  BY <1>5, <1>6, <1>7, <1>8, <1>9, <1>10 DEF IInv, PolicyInv, XInv

\* Steps of the policy watches leave the waiver stream alone.
LEMMA WatchStepKeeps ==
    ASSUME IInv, NEW w \in Watches, WatchStep(w) \/ CallFails(w) \/ AnswerLost(w)
    PROVE  IInv'
<1>1. UNCHANGED <<waiver, xstream, xpc, live, staging, todo>>
  BY DEF WatchStep, Take, Load, Get, Upsert, PatchStatus, Attach, CallFails, AnswerLost, apiVars, xVars
<1>2. WaiverType' /\ StreamInv'
  BY <1>1, StreamFrame DEF IInv, XInv, WaiverType
<1>3. PolicyInv' /\ ListInv'
  BY TakeKeeps, LoadKeeps, GetKeeps, UpsertKeeps, PatchStatusKeeps, AttachKeeps, CallFailsKeeps,
     AnswerLostKeeps DEF WatchStep
<1> QED
  BY <1>2, <1>3 DEF IInv, XInv

\* One lemma per action; the policy side and the waiver side meet in the lists.
LEMMA NextIInv == IInv /\ [Next]_vars => IInv'
<1> SUFFICES ASSUME IInv, [Next]_vars
             PROVE  IInv'
  OBVIOUS
<1>1. CASE \E w \in Watches : WatchStep(w) \/ CallFails(w) \/ AnswerLost(w)
  BY <1>1, WatchStepKeeps
<1>2. CASE XStep
  BY <1>2, XTakeKeeps, XStatusKeeps, XListKeeps, XPatchKeeps DEF XStep
<1>3. CASE \E p \in Policies, spec \in Specs : EditPolicy(p, spec)
  <2>1. PolicyInv' /\ ListInv'
    BY <1>3, EditPolicyKeeps
  <2>2. UNCHANGED <<waiver, xstream, xpc, live, staging, todo>>
    BY <1>3 DEF EditPolicy, xVars
  <2> QED
    BY <2>1, <2>2, StreamFrame DEF IInv, XInv, WaiverType
<1>4. CASE \E x \in Waivers, state \in {"absent", "valid", "rejected"} : EditWaiver(x, state)
  <2>1. WaiverType' /\ StreamInv'
    BY <1>4, EditWaiverKeeps
  <2>2. UNCHANGED <<object, secret, stream, task, xpc, live, todo, stale, hit, gone>>
    BY <1>4 DEF EditWaiver, xVars
  <2>3. PolicyInv'
    BY <2>2, PolicyFrame DEF IInv, PolicyInv, PolicyType
  <2>4. ListInv'
    BY <2>2 DEF IInv, XInv, ListInv, WillAttach, Scoped
  <2> QED
    BY <2>1, <2>3, <2>4 DEF IInv, XInv
<1>5. CASE \E p \in Policies : DeleteSecret(p) \/ TakeSecret(p)
  <2>1. PolicyInv' /\ ListInv'
    BY <1>5, SecretGoesKeeps
  <2>2. UNCHANGED <<waiver, xstream, xpc, live, staging, todo>>
    BY <1>5 DEF DeleteSecret, TakeSecret, xVars
  <2> QED
    BY <2>1, <2>2, StreamFrame DEF IInv, XInv, WaiverType
<1>6. CASE \E p \in Policies : XPatchFails(p)
  BY <1>6, XPatchFailsKeeps
<1>7. CASE XListFails \/ Desync \/ Restart
  BY <1>7, XListFailsKeeps, DesyncKeeps, RestartKeeps
<1>8. CASE UNCHANGED vars
  <2>1. UNCHANGED <<object, secret, stream, task, hit, gone, todo, stale, waiver, xstream, xpc, live,
                    staging>>
    BY <1>8 DEF vars, apiVars, xVars
  <2>2. PolicyInv'
    BY <2>1, PolicyFrame DEF IInv, PolicyInv, PolicyType
  <2> QED
    BY <2>1, <2>2, StreamFrame DEF IInv, XInv, WaiverType, ListInv, WillAttach, Scoped
<1> QED
  BY <1>1, <1>2, <1>3, <1>4, <1>5, <1>6, <1>7, <1>8 DEF Next, Environment

\* The invariant holds in every reachable state.
LEMMA Invariance == Spec => []IInv
  BY InitIInv, NextIInv, PTL DEF Spec

----------------------------------------------------------------------------
(* A Secret that another owner took between a look and the write after it. *)

\* The handler will write the Secret of p whosever it is.
WillWrite(t, p) ==
    /\ t.policy = p
    /\ t.pc = "patch" \/ (t.pc \in {"status", "attach"} /\ t.object.spec \in Good)

\* What a writer holds for its own is its own, or free, or was taken since it looked.
LookInv ==
    /\ blind \subseteq Policies /\ xblind \subseteq Policies
    /\ \A p \in Policies :
          /\ WillWrite(task[Kind[p]], p) => secret[p].owner \in {p, None} \/ p \in blind
          /\ p \in todo => secret[p].owner \in {p, None} \/ p \in xblind

\* No handler gives a Secret to another owner.
LEMMA OwnersStay ==
    ASSUME IInv, NEW w \in Watches, WatchStep(w) \/ CallFails(w) \/ AnswerLost(w), NEW q \in Policies
    PROVE  secret'[q].owner \in {secret[q].owner, q}
<1>1. secret \in [Policies -> Secrets] /\ secret[q] \in Secrets
  BY DEF IInv, PolicyInv, PolicyType
<1>2. CASE UNCHANGED secret
  BY <1>2
<1>3. CASE secret' = [secret EXCEPT ![task[w].policy] = Written(w, @)]
  BY <1>1, <1>3 DEF Written
<1>4. CASE \E p, list : secret' = [secret EXCEPT ![p].list = list]
  BY <1>1, <1>4 DEF Secrets
<1>5. \/ UNCHANGED secret
      \/ secret' = [secret EXCEPT ![task[w].policy] = Written(w, @)]
      \/ \E p, list : secret' = [secret EXCEPT ![p].list = list]
  BY DEF WatchStep, Take, Load, Get, Upsert, PatchStatus, Attach, ListLands, CallFails, AnswerLost,
         apiVars
<1> QED
  BY <1>2, <1>3, <1>4, <1>5

\* Nothing is taken, and whoever comes to write has just written or was to before.
LEMMA LookFrame ==
    ASSUME LookInv, UNCHANGED <<blind, xblind>>, todo' \subseteq todo,
           \A q \in Policies : secret'[q].owner \in {secret[q].owner, q, None},
           \A q \in Policies : WillWrite(task[Kind[q]], q)' =>
                                  WillWrite(task[Kind[q]], q) \/ secret'[q].owner = q
    PROVE  LookInv'
  BY DEF LookInv

\* A handler comes to write by its look or by its own write.
LEMMA WatchStepLooks ==
    ASSUME IInv, LookInv, NEW w \in Watches, WatchStep(w) \/ CallFails(w) \/ AnswerLost(w)
    PROVE  LookInv'
<1>1. /\ UNCHANGED <<xblind, todo>>
      /\ \A q \in Policies : secret'[q].owner \in {secret[q].owner, q, None}
  BY OwnersStay DEF WatchStep, Take, Load, Get, Upsert, PatchStatus, Attach, CallFails, AnswerLost,
                    xVars, looks
<1>2. /\ task \in [Watches -> Tasks] /\ \E u : task' = [task EXCEPT ![w] = u]
      /\ \A v \in Watches : v # w => task'[v] = task[v]
  <2>1. task \in [Watches -> Tasks]
    BY DEF IInv, PolicyInv, PolicyType
  <2>2. \E u : task' = [task EXCEPT ![w] = u]
    BY <2>1 DEF WatchStep, Take, Load, Get, Upsert, PatchStatus, Attach, CallFails, AnswerLost, Return,
                ReturnError, Proceed, Goto
  <2> QED
    BY <2>1, <2>2
<1>3. ASSUME UNCHANGED blind,
             WillWrite(task[w], task[w].policy)' =>
                \/ task'[w].policy = task[w].policy /\ WillWrite(task[w], task[w].policy)
                \/ secret'[task'[w].policy].owner = task'[w].policy
      PROVE  LookInv'
  <2>1. ASSUME NEW q \in Policies, WillWrite(task[Kind[q]], q)'
        PROVE  WillWrite(task[Kind[q]], q) \/ secret'[q].owner = q
    <3>1. CASE Kind[q] = w
      BY <1>3, <2>1, <3>1 DEF WillWrite
    <3>2. CASE Kind[q] # w
      BY <1>2, <2>1, <3>2 DEF WillWrite, Watches
    <3> QED
      BY <3>1, <3>2
  <2> QED
    BY <1>1, <1>3, <2>1, LookFrame
<1>4. ASSUME task'[w] = Idle
      PROVE  ~WillWrite(task[w], task[w].policy)'
  BY <1>4 DEF Idle, WillWrite
<1>5. task' = [task EXCEPT ![w] = Idle] => task'[w] = Idle
  BY <1>2
<1>6. CASE Take(w) \/ Load(w)
  <2>1. /\ UNCHANGED blind
        /\ \E e : \/ task' = [task EXCEPT ![w] = Idle]
                  \/ task' = [task EXCEPT ![w] = [pc |-> "load", policy |-> e.policy,
                                                  object |-> e.object, list |-> {}]]
                  \/ Proceed(w, e)
    BY <1>6 DEF Take, Load, Return, looks
  <2>2. ASSUME NEW e, Proceed(w, e)
        PROVE  \/ task'[w] = Idle
               \/ task'[w].pc = "get"
               \/ task'[w].object.spec \notin Good /\ task'[w].pc # "patch"
    <3>1. task'[w] = IF Planned(e.object) = "idle" THEN Idle
                     ELSE [pc |-> Planned(e.object), policy |-> e.policy, object |-> e.object,
                           list |-> {}]
      BY <1>2, <2>2 DEF Proceed
    <3>2. /\ e.object.spec \in Good => Planned(e.object) = "get"
          /\ Planned(e.object) # "patch"
      BY SpecAssumption DEF Planned
    <3>3. CASE Planned(e.object) = "idle"
      BY <3>1, <3>3
    <3>4. CASE Planned(e.object) # "idle"
      <4>1. task'[w].pc = Planned(e.object) /\ task'[w].object = e.object
        BY <3>1, <3>4
      <4> QED
        BY <3>2, <4>1
    <3> QED
      BY <3>3, <3>4
  <2>3. \/ task'[w] = Idle
        \/ task'[w].pc \in {"load", "get"}
        \/ task'[w].object.spec \notin Good /\ task'[w].pc # "patch"
    BY <1>2, <2>1, <2>2
  <2>4. ~WillWrite(task[w], task[w].policy)'
    BY <1>4, <2>3 DEF WillWrite
  <2> QED
    BY <1>3, <2>1, <2>4
<1>7. CASE Get(w)
  <2> DEFINE p == task[w].policy
  <2>1. /\ task[w] \in [pc : Busy, policy : Policies, object : Objects, list : SUBSET Waivers]
        /\ Kind[p] = w /\ p \in Policies /\ secret' = secret /\ blind' = blind \ {p}
    BY <1>7, BusyTask DEF Get, Calls, IInv, apiVars
  <2>2. \/ task'[w] = Idle
        \/ task'[w] = [task[w] EXCEPT !.pc = "create"]
        \/ task'[w] = [task[w] EXCEPT !.pc = "patch"] /\ secret[p].owner = p
    BY <1>2, <1>7 DEF Get, Goto, ReturnError, Return, MayOverwrite
  <2>3. WillWrite(task[w], p)' => secret'[p].owner = p
    BY <1>4, <2>1, <2>2 DEF WillWrite, Idle
  <2>4. ASSUME NEW q \in Policies, WillWrite(task[Kind[q]], q)'
        PROVE  secret[q].owner \in {q, None} \/ q \in blind'
    <3>1. CASE q = p
      BY <2>1, <2>3, <2>4, <3>1 DEF WillWrite
    <3>2. CASE q # p /\ Kind[q] = w
      BY <2>1, <2>2, <2>4, <3>2, PolicyAssumption DEF WillWrite, Idle
    <3>3. CASE q # p /\ Kind[q] # w
      <4>1. WillWrite(task[Kind[q]], q)
        BY <1>2, <2>4, <3>3 DEF WillWrite, Watches
      <4> QED
        BY <2>1, <3>3, <4>1 DEF LookInv
    <3> QED
      BY <3>1, <3>2, <3>3
  <2> QED
    BY <1>1, <2>1, <2>4 DEF LookInv
<1>8. CASE Upsert(w)
  <2>1. UNCHANGED blind /\ task[w].pc \in {"create", "patch"}
    BY <1>8 DEF Upsert, Calls, looks
  <2>2. /\ task[w] \in [pc : Busy, policy : Policies, object : Objects, list : SUBSET Waivers]
        /\ task[w].policy \in Policies /\ secret \in [Policies -> Secrets]
    BY <2>1, BusyTask DEF IInv, PolicyInv, PolicyType
  <2>3. CASE ~Accepts(w)
    BY <1>3, <1>4, <1>5, <1>8, <2>1, <2>3 DEF Upsert, ReturnError, Return
  <2>4. CASE Accepts(w)
    <3>1. task'[w] = [task[w] EXCEPT !.pc = "status"] /\ secret' = [secret EXCEPT ![task[w].policy] = Written(w, @)]
      BY <1>2, <1>8, <2>4 DEF Upsert, Goto
    <3>2. task'[w].policy = task[w].policy /\ secret'[task[w].policy].owner = task[w].policy
      BY <2>2, <3>1 DEF Written
    <3> QED
      BY <1>3, <2>1, <3>2
  <2> QED
    BY <2>3, <2>4
<1>9. CASE PatchStatus(w)
  <2>1. UNCHANGED blind /\ task[w].pc = "status"
    BY <1>9 DEF PatchStatus, Calls, looks
  <2>2. task[w] \in [pc : Busy, policy : Policies, object : Objects, list : SUBSET Waivers]
    BY <2>1, BusyTask DEF IInv
  <2>3. CASE task[w].object.spec \in Good
    <3>1. task'[w].policy = task[w].policy /\ WillWrite(task[w], task[w].policy)
      BY <1>2, <1>9, <2>1, <2>2, <2>3 DEF PatchStatus, WillWrite
    <3> QED
      BY <1>3, <2>1, <3>1
  <2>4. CASE task[w].object.spec \notin Good
    BY <1>3, <1>4, <1>5, <1>9, <2>1, <2>4 DEF PatchStatus, Return
  <2> QED
    BY <2>3, <2>4
<1>10. CASE Attach(w) \/ CallFails(w) \/ AnswerLost(w)
  BY <1>3, <1>4, <1>5, <1>10 DEF Attach, CallFails, AnswerLost, ReturnError, Return, looks
<1> QED
  BY <1>6, <1>7, <1>8, <1>9, <1>10 DEF WatchStep

\* The waiver watch writes what it listed; whoever takes a Secret is seen by nobody.
LEMMA NextLooks == IInv /\ LookInv /\ [Next]_vars => LookInv'
<1> SUFFICES ASSUME IInv, LookInv, [Next]_vars
             PROVE  LookInv'
  OBVIOUS
<1>1. secret \in [Policies -> Secrets] /\ todo \subseteq Policies
  BY DEF IInv, PolicyInv, PolicyType
<1>2. CASE \E w \in Watches : WatchStep(w) \/ CallFails(w) \/ AnswerLost(w)
  BY <1>2, WatchStepLooks
<1>3. CASE XList
  <2>1. UNCHANGED <<secret, task, blind>> /\ xblind' = {} /\ todo' = ListTargets
    BY <1>3 DEF XList, apiVars
  <2> QED
    BY <2>1 DEF LookInv, ListTargets
<1>4. CASE \E p \in Policies : XPatch(p)
  <2>1. UNCHANGED <<task, blind, xblind>> /\ todo' \subseteq todo
    BY <1>4 DEF XPatch, XPatched, looks
  <2>2. \A q \in Policies : secret'[q].owner = secret[q].owner
    <3>1. UNCHANGED secret \/ \E p, list : secret' = [secret EXCEPT ![p].list = list]
      BY <1>4 DEF XPatch, ListLands
    <3> QED
      BY <1>1, <3>1 DEF Secrets
  <2> QED
    BY <2>1, <2>2, LookFrame
<1>5. CASE \E p \in Policies : DeleteSecret(p)
  <2>1. UNCHANGED <<task, blind, xblind, todo>>
    BY <1>5 DEF DeleteSecret, looks, xVars
  <2>2. \A q \in Policies : secret'[q].owner \in {secret[q].owner, None}
    BY <1>1, <1>5 DEF DeleteSecret, NoSecret
  <2> QED
    BY <2>1, <2>2, LookFrame
<1>6. CASE \E p \in Policies : TakeSecret(p)
  <2>1. PICK p \in Policies : TakeSecret(p)
    BY <1>6
  <2>2. /\ UNCHANGED <<task, todo>> /\ blind' = blind \cup {p} /\ xblind' = xblind \cup {p}
        /\ \A q \in Policies : q # p => secret'[q] = secret[q]
    BY <1>1, <2>1 DEF TakeSecret, xVars
  <2> QED
    BY <2>2 DEF LookInv
<1>7. CASE \/ XTake \/ XStatus \/ XListFails \/ Desync
           \/ \E p \in Policies : XPatchFails(p) \/ \E spec \in Specs : EditPolicy(p, spec)
           \/ \E x \in Waivers, state \in {"absent", "valid", "rejected"} : EditWaiver(x, state)
           \/ UNCHANGED vars
  <2>1. UNCHANGED <<secret, task, blind, xblind>> /\ todo' \subseteq todo
    BY <1>7 DEF XTake, XStatus, XListFails, Desync, XPatchFails, XPatched, EditPolicy, EditWaiver, vars,
                apiVars, xVars, looks
  <2> QED
    BY <2>1, LookFrame
<1>8. CASE Restart
  <2>1. /\ UNCHANGED <<secret, blind, xblind>> /\ todo' = {} /\ task' = [w \in Watches |-> Idle]
    BY <1>8 DEF Restart, looks
  <2>2. \A q \in Policies : ~WillWrite(task[Kind[q]], q)'
    BY <2>1 DEF WillWrite, Idle, Watches
  <2> QED
    BY <2>1, <2>2, LookFrame
<1> QED
  BY <1>2, <1>3, <1>4, <1>5, <1>6, <1>7, <1>8 DEF Next, Environment, XStep

\* So it is in every reachable state.
LEMMA LookInvariance == Spec => []LookInv
<1>1. Init => LookInv
  BY DEF Init, LookInv, WillWrite, Idle, Watches
<1> QED
  BY <1>1, Invariance, NextLooks, PTL DEF Spec

\* Whatever calls fail or lose their answer, whatever is edited, deleted or listed
\* again at whichever await: a status that says ready is backed by the Secret of this
\* policy, the set of the waiver watch is the valid objects once it has heard of them,
\* and the lists are those of the set, but for the ones counted stale.
THEOREM WhatIsPublishedIsTrue == Spec => []PublishedIsTrue
<1>1. IInv /\ LookInv => PublishedIsTrue
  <2> SUFFICES ASSUME IInv, LookInv
               PROVE  PublishedIsTrue
    OBVIOUS
  <2>1. TypeOK
    <3>1. ASSUME NEW p \in Policies
          PROVE  TypeOK!3!(p)
      BY DEF IInv, PolicyInv, PolicyType, Ownership, Secrets
    <3>2. ASSUME NEW w \in Watches
          PROVE  TypeOK!4!(w)
      BY PolicyAssumption DEF IInv, PolicyInv, PolicyType, Tasks, Busy, Idle
    <3> QED
      BY <3>1, <3>2 DEF TypeOK, IInv, LookInv, PolicyInv, PolicyType, Objects, XInv, WaiverType
  <2>2. SetFollowsObjects
    <3> SUFFICES ASSUME xstream = <<>>
                 PROVE  live = Valid
      BY DEF SetFollowsObjects
    <3>1. Len(xstream) = 0
      OBVIOUS
    <3>2. \A x \in Waivers : Collected(0, x) \/ Changed(0, x)
      BY <3>1 DEF IInv, XInv, StreamInv
    <3>3. \A x \in Waivers : x \in live <=> waiver[x] = "valid"
      BY <3>1, <3>2 DEF Collected, Changed
    <3> QED
      BY <3>3 DEF Valid, IInv, XInv, WaiverType
  <2>3. ListsFollowSet
    <3> SUFFICES ASSUME NEW p \in Policies, xpc = "idle", secret[p].owner = p, p \notin stale,
                        ~Attaching(p)
                 PROVE  secret[p].list = Scoped(live, p)
      BY DEF ListsFollowSet, Scoped
    <3>1. ~WillAttach(p)
      BY DEF Attaching, WillAttach
    <3> QED
      BY <3>1 DEF IInv, XInv, ListInv
  <2> QED
    BY <2>1, <2>2, <2>3 DEF PublishedIsTrue, IInv, PolicyInv
<1> QED
  BY <1>1, Invariance, LookInvariance, PTL

\* A Secret of another owner is written only by a handler that had it for its own
\* when it looked, and lost it to that owner since: the patch of upsert_secret and of
\* attach_exceptions behind the get of this event, the patch of persist_exceptions
\* behind its list.  No other step writes one, a create least of all.
THEOREM ForeignSecretsAreSafe == Spec => OthersUntouched
<1> DEFINE Safe == \A p \in Policies :
              secret[p].owner \in {"other", "unscoped"} /\ secret'[p] \notin {secret[p], NoSecret} =>
                  \/ p \in blind /\ task[Kind[p]].policy = p /\ task[Kind[p]].pc \in {"patch", "attach"}
                  \/ p \in xblind /\ p \in todo \ todo'
<1>1. IInv /\ LookInv /\ [Next]_vars => Safe
  <2> SUFFICES ASSUME IInv, LookInv, [Next]_vars, NEW p \in Policies,
                      secret[p].owner \in {"other", "unscoped"},
                      secret'[p] \notin {secret[p], NoSecret}
               PROVE  \/ p \in blind /\ task[Kind[p]].policy = p /\ task[Kind[p]].pc \in {"patch", "attach"}
                      \/ p \in xblind /\ p \in todo \ todo'
    OBVIOUS
  <2>1. /\ secret[p] # NoSecret /\ secret[p].owner \notin {p, None}
        /\ secret \in [Policies -> Secrets]
    BY PolicyAssumption DEF IInv, PolicyInv, PolicyType, NoSecret
  <2>2. WillWrite(task[Kind[p]], p) => p \in blind
    BY <2>1 DEF LookInv
  <2>3. p \in todo => p \in xblind
    BY <2>1 DEF LookInv
  <2>4. CASE \E w \in Watches : WatchStep(w) \/ CallFails(w) \/ AnswerLost(w)
    <3>1. PICK w \in Watches : WatchStep(w) \/ CallFails(w) \/ AnswerLost(w)
      BY <2>4
    <3>2. CASE Upsert(w) \/ AnswerLost(w)
      <4>1. /\ secret' = [secret EXCEPT ![task[w].policy] = Written(w, @)]
            /\ Accepts(w) /\ task[w].pc \in {"create", "patch"}
        BY <2>1, <3>2 DEF Upsert, AnswerLost, Calls
      <4>2. task[w].policy = p
        BY <2>1, <4>1
      <4>3. task[w].pc = "patch"
        BY <2>1, <4>1, <4>2 DEF Accepts, Calls
      <4>4. Kind[p] = w
        BY <4>2, <4>3, BusyTask DEF IInv
      <4> QED
        BY <2>2, <4>2, <4>3, <4>4 DEF WillWrite
    <3>3. CASE Attach(w)
      <4>1. task[w].pc = "attach" /\ task[w].policy = p
        BY <2>1, <3>3 DEF Attach, Calls, ListLands
      <4>2. Kind[p] = w /\ task[w].object.spec \in Good
        BY <4>1, BusyTask DEF IInv, InHand
      <4> QED
        BY <2>2, <4>1, <4>2 DEF WillWrite
    <3>4. CASE Take(w) \/ Load(w) \/ Get(w) \/ PatchStatus(w) \/ CallFails(w)
      BY <3>4 DEF Take, Load, Get, PatchStatus, CallFails, apiVars
    <3> QED
      BY <3>1, <3>2, <3>3, <3>4 DEF WatchStep
  <2>5. CASE \E q \in Policies : XPatch(q)
    <3>1. PICK q \in Policies : XPatch(q)
      BY <2>5
    <3>2. q = p
      BY <2>1, <3>1 DEF XPatch, ListLands
    <3> QED
      BY <2>3, <3>1, <3>2 DEF XPatch, XPatched
  <2>6. CASE XTake \/ XStatus \/ XList \/ XListFails \/ Desync \/ Restart
    BY <2>6 DEF XTake, XStatus, XList, XListFails, Desync, Restart, apiVars
  <2>7. CASE \E q \in Policies : DeleteSecret(q) \/ XPatchFails(q)
    BY <2>1, <2>7 DEF DeleteSecret, XPatchFails
  <2>8. CASE \E q \in Policies : TakeSecret(q)
    BY <2>1, <2>8 DEF TakeSecret
  <2>9. CASE \E q \in Policies, spec \in Specs : EditPolicy(q, spec)
    BY <2>9 DEF EditPolicy
  <2>10. CASE \E x \in Waivers, state \in {"absent", "valid", "rejected"} : EditWaiver(x, state)
    BY <2>10 DEF EditWaiver
  <2>11. CASE UNCHANGED vars
    BY <2>11 DEF vars, apiVars
  <2> QED
    BY <2>4, <2>5, <2>6, <2>7, <2>8, <2>9, <2>10, <2>11 DEF Next, Environment, XStep
<1> QED
  BY <1>1, Invariance, LookInvariance, PTL DEF Spec, OthersUntouched

----------------------------------------------------------------------------
(* The counters of health.rs, and the rule that ends the process. *)

Marks == {"f", "s", "t"}
Counters == [run : Nat, ever_ok : BOOLEAN, age : Int, stuck : BOOLEAN]

Failures(h) == {i \in DOMAIN h : h[i] = "f"}
Worked(h) == \E i \in DOMAIN h : h[i] = "s"

\* The failures of F from lo on are one run: no two neighbours are further apart than
\* the window, and it began after a gap or with the first failure of all.
OneRun(F, lo) ==
    /\ \A i, j \in F : lo <= i /\ i < j /\ (\A x \in F : x <= i \/ x >= j)
                        => j - i - 1 <= TERMINAL_WINDOW
    /\ \/ \A i \in F : i >= lo
       \/ \E p \in F : /\ p < lo /\ lo - p - 1 > TERMINAL_WINDOW
                       /\ \A i \in F : i <= p \/ i >= lo

\* The ticks since the last of n notes that failed, m, as Waits counts them.
AgeAt(n, m) == IF n - m > TERMINAL_WINDOW THEN TERMINAL_WINDOW + 1 ELSE n - m

\* What the counters of a class that never worked say of its past: run is the size of
\* its latest run of failures, and age how long ago that was.
Counted(c, h) ==
    \/ Failures(h) = {} /\ c.run = 0 /\ c.age = NoAge
    \/ \E lo, m \in Failures(h) :
         /\ \A i \in Failures(h) : i <= m
         /\ c.age = AgeAt(Len(h), m)
         /\ OneRun(Failures(h), lo)
         /\ c.run = Cardinality({i \in Failures(h) : i >= lo})

HealthType ==
    /\ class \in [Classes -> Counters]
    /\ past \in [Classes -> Seq(Marks)]
    /\ exited \in BOOLEAN

\* A running process: a class that never worked has had no burst yet.
Running(c, h) ==
    /\ c.ever_ok <=> Worked(h)
    /\ ~Worked(h) => Counted(c, h) /\ c.run < TERMINAL_RUN /\ ~Burst(h)

HealthInv ==
    /\ HealthType
    /\ ~exited => \A k \in Classes : Running(class[k], past[k])
    /\ exited => \E k \in Classes : Burst(past[k]) /\ ~Worked(past[k])

LEMMA FailuresFinite ==
  ASSUME NEW h \in Seq(Marks), NEW S \in SUBSET Failures(h)
  PROVE  IsFiniteSet(S) /\ Cardinality(S) \in Nat /\ S \subseteq 1 .. Len(h)
<1>1. Failures(h) \subseteq 1 .. Len(h)
  BY DEF Failures
<1>2. IsFiniteSet(1 .. Len(h))
  BY FS_Interval
<1>3. IsFiniteSet(S)
  BY <1>1, <1>2, FS_Subset
<1> QED
  BY <1>1, <1>3, FS_CardinalityType

\* Burst, of the failures.
LEMMA BurstOfFailures ==
  ASSUME NEW h
  PROVE  Burst(h) <=>
           \E run \in SUBSET Failures(h) :
             /\ Cardinality(run) = TERMINAL_RUN
             /\ \A i \in Failures(h) :
                   (\E j \in run : j < i) /\ (\E j \in run : j > i) => i \in run
             /\ \A i, j \in run : i < j /\ (\A x \in run : x <= i \/ x >= j)
                                   => j - i - 1 <= TERMINAL_WINDOW
BY DEF Burst, Failures

\* Time passes or an answer comes: the failures are the same.
LEMMA NoFailure ==
  ASSUME NEW h \in Seq(Marks), NEW what \in {"s", "t"}
  PROVE  /\ Append(h, what) \in Seq(Marks) /\ Len(Append(h, what)) = Len(h) + 1
         /\ Failures(Append(h, what)) = Failures(h)
         /\ Worked(Append(h, what)) <=> Worked(h) \/ what = "s"
         /\ Burst(Append(h, what)) <=> Burst(h)
<1> DEFINE g == Append(h, what)
<1>1. /\ g \in Seq(Marks) /\ Len(g) = Len(h) + 1 /\ DOMAIN g = 1 .. Len(h) + 1
      /\ g[Len(h) + 1] = what /\ \A i \in 1 .. Len(h) : g[i] = h[i]
  BY DEF Marks
<1>2. DOMAIN h = 1 .. Len(h) /\ Len(h) \in Nat
  OBVIOUS
<1> HIDE DEF g
<1>3. Failures(g) = Failures(h)
  BY <1>1, <1>2 DEF Failures
<1>4. Worked(g) <=> Worked(h) \/ what = "s"
  BY <1>1, <1>2 DEF Worked
<1>5. Burst(g) <=> Burst(h)
  BY <1>3, BurstOfFailures
<1> QED
  BY <1>1, <1>3, <1>4, <1>5 DEF g

LEMMA OneFailure ==
  ASSUME NEW h \in Seq(Marks)
  PROVE  /\ Append(h, "f") \in Seq(Marks) /\ Len(Append(h, "f")) = Len(h) + 1
         /\ Failures(Append(h, "f")) = Failures(h) \cup {Len(h) + 1}
         /\ Worked(Append(h, "f")) <=> Worked(h)
<1> DEFINE g == Append(h, "f")
<1>1. /\ g \in Seq(Marks) /\ Len(g) = Len(h) + 1 /\ DOMAIN g = 1 .. Len(h) + 1
      /\ g[Len(h) + 1] = "f" /\ \A i \in 1 .. Len(h) : g[i] = h[i]
  BY DEF Marks
<1>2. DOMAIN h = 1 .. Len(h) /\ Len(h) \in Nat
  OBVIOUS
<1> HIDE DEF g
<1>3. Failures(g) = Failures(h) \cup {Len(h) + 1}
  BY <1>1, <1>2 DEF Failures
<1>4. Worked(g) <=> Worked(h)
  BY <1>1, <1>2 DEF Worked
<1> QED
  BY <1>1, <1>3, <1>4 DEF g

\* A failure extends the run it is in the window of, or starts one.
LEMMA RunGrows ==
  ASSUME NEW h \in Seq(Marks), NEW c \in Counters, NEW d \in Counters, Counted(c, h),
         d.age = 0, d.run = IF SameRun(c.age) THEN c.run + 1 ELSE 1
  PROVE  \E lo \in Failures(Append(h, "f")) :
           /\ OneRun(Failures(Append(h, "f")), lo)
           /\ d.run = Cardinality({i \in Failures(Append(h, "f")) : i >= lo})
<1> DEFINE n == Len(h) + 1
           F == Failures(h)
           G == F \cup {n}
<1>1. Failures(Append(h, "f")) = G
  BY OneFailure
<1>2. n \in Nat /\ F \subseteq 1 .. n - 1 /\ n \notin F
  <2>1. Len(h) \in Nat
    OBVIOUS
  <2>2. F \in SUBSET Failures(h)
    OBVIOUS
  <2>3. F \subseteq 1 .. Len(h)
    BY <2>2, FailuresFinite
  <2> QED
    BY <2>1, <2>3
<1> SUFFICES \E lo \in G : OneRun(G, lo) /\ d.run = Cardinality({i \in G : i >= lo})
  BY <1>1
<1> HIDE DEF n
<1>3. ASSUME NEW lo \in G, NEW S, S = {i \in F : i >= lo}
      PROVE  Cardinality({i \in G : i >= lo}) = Cardinality(S) + 1
  <2>1. S \in SUBSET Failures(h)
    BY <1>3
  <2>2. IsFiniteSet(S) /\ n \notin S
    BY <2>1, <1>2, FailuresFinite
  <2>3. {i \in G : i >= lo} = S \cup {n}
    BY <1>2, <1>3
  <2> QED
    BY <2>2, <2>3, FS_AddElement
<1>4. Cardinality({}) = 0
  BY FS_EmptySet
<1>5. CASE F = {}
  <2>1. SameRun(c.age) /\ c.run = 0
    BY <1>5, ControllerHealthAssumption DEF Counted, SameRun, NoAge
  <2>2. OneRun(G, n)
    BY <1>2, <1>5 DEF OneRun
  <2> QED
    BY <1>3, <1>4, <1>5, <2>1, <2>2
<1>6. CASE F # {}
  <2>1. PICK lo \in F, m \in F :
          /\ \A i \in F : i <= m
          /\ c.age = AgeAt(n - 1, m)
          /\ OneRun(F, lo)
          /\ c.run = Cardinality({i \in F : i >= lo})
    BY <1>6 DEF Counted, n
  <2>2. lo \in Nat /\ m \in Nat /\ m < n /\ lo <= m
    BY <1>2, <2>1
  <2>3. SameRun(c.age) <=> n - 1 - m <= TERMINAL_WINDOW
    BY <1>2, <2>1, <2>2, ControllerHealthAssumption DEF SameRun, AgeAt
  <2>4. CASE SameRun(c.age)
    <3>1. ASSUME NEW i \in G, NEW j \in G, lo <= i, i < j, \A x \in G : x <= i \/ x >= j
          PROVE  j - i - 1 <= TERMINAL_WINDOW
      <4>1. CASE j = n
        <5>1. i \in F /\ i = m
          BY <1>2, <2>1, <2>2, <3>1, <4>1
        <5> QED
          BY <1>2, <2>2, <2>3, <2>4, <4>1, <5>1
      <4>2. CASE j # n
        <5>1. j \in F /\ i \in F
          BY <1>2, <3>1, <4>2
        <5> QED
          BY <2>1, <3>1, <5>1 DEF OneRun
      <4> QED
        BY <4>1, <4>2
    <3>2. OneRun(G, lo)
      <4>1. CASE \A i \in F : i >= lo
        BY <1>2, <2>2, <3>1, <4>1 DEF OneRun
      <4>2. CASE ~(\A i \in F : i >= lo)
        <5>1. PICK p \in F : /\ p < lo /\ lo - p - 1 > TERMINAL_WINDOW
                             /\ \A i \in F : i <= p \/ i >= lo
          BY <2>1, <4>2 DEF OneRun
        <5> QED
          BY <1>2, <2>2, <3>1, <5>1 DEF OneRun
      <4> QED
        BY <4>1, <4>2
    <3> QED
      BY <1>3, <2>1, <2>4, <3>2
  <2>5. CASE ~SameRun(c.age)
    <3>1. OneRun(G, n)
      <4>1. m \in G /\ m < n /\ n - m - 1 > TERMINAL_WINDOW /\ \A i \in G : i <= m \/ i >= n
        BY <1>2, <2>1, <2>2, <2>3, <2>5, ControllerHealthAssumption
      <4>2. \A i, j \in G : ~(n <= i /\ i < j)
        BY <1>2
      <4> QED
        BY <4>1, <4>2 DEF OneRun
    <3>2. {i \in F : i >= n} = {}
      BY <1>2
    <3>3. Cardinality({i \in G : i >= n}) = 1
      BY <1>3, <1>4, <3>2
    <3>4. d.run = 1 /\ n \in G
      BY <2>5
    <3> QED
      BY <3>1, <3>3, <3>4
  <2> QED
    BY <2>4, <2>5
<1> QED
  BY <1>5, <1>6

\* A burst that was none before this failure ends with it, and is within its run.
LEMMA BurstIsInTheRun ==
  ASSUME NEW h \in Seq(Marks), ~Burst(h), Burst(Append(h, "f")),
         NEW lo \in Failures(Append(h, "f")), OneRun(Failures(Append(h, "f")), lo)
  PROVE  Cardinality({i \in Failures(Append(h, "f")) : i >= lo}) >= TERMINAL_RUN
<1> DEFINE n == Len(h) + 1
           F == Failures(h)
           G == Failures(Append(h, "f"))
           R == {i \in G : i >= lo}
<1>1. Append(h, "f") \in Seq(Marks) /\ G = F \cup {n}
  BY OneFailure
<1>2. n \in Nat /\ F \subseteq 1 .. n - 1
  BY FailuresFinite
<1>3. PICK B \in SUBSET G :
        /\ Cardinality(B) = TERMINAL_RUN
        /\ \A i \in G : (\E j \in B : j < i) /\ (\E j \in B : j > i) => i \in B
        /\ \A i, j \in B : i < j /\ (\A x \in B : x <= i \/ x >= j)
                              => j - i - 1 <= TERMINAL_WINDOW
  BY BurstOfFailures
<1> HIDE DEF n, G
<1>4. n \in B
  <2> SUFFICES ASSUME n \notin B
               PROVE  FALSE
    OBVIOUS
  <2>1. B \in SUBSET F
    BY <1>1, <1>3
  <2>2. \A i \in F : (\E j \in B : j < i) /\ (\E j \in B : j > i) => i \in B
    BY <1>1, <1>3
  <2>3. B \in SUBSET Failures(h) /\ F = Failures(h)
    BY <2>1
  <2> HIDE DEF F
  <2>4. Burst(h)
    BY <1>3, <2>2, <2>3, BurstOfFailures
  <2> QED
    BY <2>4
<1>5. B \subseteq R
  <2>0. lo \in G /\ G \subseteq Nat
    BY <1>1, <1>2 DEF G
  <2> SUFFICES ASSUME NEW b \in B, b < lo
               PROVE  FALSE
    BY <1>3, <2>0
  <2>1. lo \in G /\ b \in G
    BY <1>3, <2>0
  <2>2. PICK p \in G : /\ p < lo /\ lo - p - 1 > TERMINAL_WINDOW
                       /\ \A i \in G : i <= p \/ i >= lo
    BY <1>1, <1>2, <2>1 DEF OneRun, G
  <2>3. {b, p, lo} \subseteq Nat /\ b <= p /\ p < lo /\ lo <= n
    BY <1>1, <1>2, <2>1, <2>2
  <2>4. p \in B
    BY <1>2, <1>3, <1>4, <2>2, <2>3
  <2>5. lo \in B
    BY <1>2, <1>3, <1>4, <2>1, <2>3
  <2>6. \A x \in B : x <= p \/ x >= lo
    BY <1>3, <2>2
  <2>7. lo - p - 1 <= TERMINAL_WINDOW
    BY <1>3, <2>2, <2>4, <2>5, <2>6
  <2> QED
    BY <2>2, <2>3, <2>7, ControllerHealthAssumption
<1>6. IsFiniteSet(R) /\ Cardinality(R) \in Nat
  BY <1>1, FailuresFinite DEF G
<1>7. Cardinality(B) <= Cardinality(R)
  BY <1>5, <1>6, FS_Subset
<1> QED
  BY <1>3, <1>6, <1>7, ControllerHealthAssumption DEF G

\* A run of that length is a burst.
LEMMA RunIsABurst ==
  ASSUME NEW h \in Seq(Marks), NEW lo \in Failures(h), OneRun(Failures(h), lo),
         Cardinality({i \in Failures(h) : i >= lo}) = TERMINAL_RUN
  PROVE  Burst(h)
<1> DEFINE F == Failures(h)
           R == {i \in F : i >= lo}
<1>1. F \subseteq Nat
  <2>1. F \subseteq 1 .. Len(h)
    BY DEF Failures
  <2>2. Len(h) \in Nat
    OBVIOUS
  <2> QED
    BY <2>1, <2>2
<1>2. \A i \in F : (\E j \in R : j < i) /\ (\E j \in R : j > i) => i \in R
  BY <1>1
<1>3. ASSUME NEW i \in R, NEW j \in R, i < j, \A x \in R : x <= i \/ x >= j
      PROVE  j - i - 1 <= TERMINAL_WINDOW
  <2>1. \A x \in F : x <= i \/ x >= j
    BY <1>1, <1>3
  <2> QED
    BY <1>3, <2>1 DEF OneRun
<1> QED
  BY <1>2, <1>3, BurstOfFailures

\* A class of a running process that fails, at the terminal rule: it ends the process
\* exactly when that was a burst of a class that never worked.
LEMMA ClassFails ==
  ASSUME NEW h \in Seq(Marks), NEW c \in Counters, NEW d \in Counters, Running(c, h),
         d.age = 0, d.ever_ok = c.ever_ok,
         d.run = IF SameRun(c.age) THEN c.run + 1 ELSE 1
  PROVE  IF LongRun(d.run) /\ ~d.ever_ok
         THEN Burst(Append(h, "f")) /\ ~Worked(Append(h, "f"))
         ELSE Running(d, Append(h, "f"))
<1> DEFINE g == Append(h, "f")
           G == Failures(g)
<1>1. g \in Seq(Marks) /\ Len(g) = Len(h) + 1 /\ G = Failures(h) \cup {Len(g)}
      /\ (Worked(g) <=> Worked(h))
  BY OneFailure
<1>2. CASE Worked(h)
  BY <1>1, <1>2 DEF Running
<1>3. CASE ~Worked(h)
  <2>1. Counted(c, h) /\ c.run < TERMINAL_RUN /\ ~Burst(h) /\ ~d.ever_ok
    BY <1>3 DEF Running
  <2>2. PICK lo \in G : OneRun(G, lo) /\ d.run = Cardinality({i \in G : i >= lo})
    BY <2>1, RunGrows
  <2>3. d.run <= TERMINAL_RUN /\ d.run \in Nat
    BY <2>1, ControllerHealthAssumption DEF Counters
  <2>4. CASE LongRun(d.run)
    <3>1. d.run = TERMINAL_RUN
      BY <2>3, <2>4, ControllerHealthAssumption DEF LongRun
    <3>2. Burst(g)
      BY <1>1, <2>2, <3>1, RunIsABurst
    <3> QED
      BY <1>1, <1>3, <2>1, <2>4, <3>2
  <2>5. CASE ~LongRun(d.run)
    <3>1. d.run < TERMINAL_RUN
      BY <2>3, <2>5, ControllerHealthAssumption DEF LongRun
    <3>2. ~Burst(g)
      BY <2>1, <2>2, <2>3, <3>1, BurstIsInTheRun, ControllerHealthAssumption
    <3>3. Failures(h) \subseteq 1 .. Len(h) /\ Len(g) \in Nat
      BY <1>1, FailuresFinite
    <3>4. d.age = AgeAt(Len(g), Len(g))
      BY <3>3, ControllerHealthAssumption DEF AgeAt
    <3>5. \A i \in G : i <= Len(g)
      BY <1>1, <3>3
    <3>6. Len(g) \in G
      BY <1>1
    <3> HIDE DEF g
    <3>7. Counted(d, g)
      BY <2>2, <3>4, <3>5, <3>6 DEF Counted
    <3> QED
      BY <1>1, <1>3, <2>1, <2>5, <3>1, <3>2, <3>7 DEF Running, g
  <2> QED
    BY <2>4, <2>5
<1> QED
  BY <1>2, <1>3

\* A class that has an answer worked.
LEMMA ClassWorks ==
  ASSUME NEW h \in Seq(Marks), NEW c, c.ever_ok
  PROVE  Running(c, Append(h, "s"))
BY NoFailure DEF Running

\* A tick, which the age counts up to past the window.
LEMMA ClassWaits ==
  ASSUME NEW h \in Seq(Marks), NEW c \in Counters, NEW d \in Counters, Running(c, h),
         d.run = c.run, d.ever_ok = c.ever_ok,
         d.age = IF c.age \in {NoAge, TERMINAL_WINDOW + 1} THEN c.age ELSE c.age + 1
  PROVE  Running(d, Append(h, "t"))
<1> DEFINE g == Append(h, "t")
<1>1. g \in Seq(Marks) /\ Len(g) = Len(h) + 1 /\ Failures(g) = Failures(h)
      /\ (Worked(g) <=> Worked(h)) /\ (Burst(g) <=> Burst(h))
  BY NoFailure
<1> HIDE DEF g
<1>2. ASSUME Counted(c, h)
      PROVE  Counted(d, g)
  <2>1. CASE Failures(h) = {}
    BY <1>1, <1>2, <2>1 DEF Counted
  <2>2. CASE Failures(h) # {}
    <3>1. PICK lo \in Failures(h), m \in Failures(h) :
            /\ \A i \in Failures(h) : i <= m
            /\ c.age = AgeAt(Len(h), m)
            /\ OneRun(Failures(h), lo)
            /\ c.run = Cardinality({i \in Failures(h) : i >= lo})
      BY <1>2, <2>2 DEF Counted
    <3>2. m \in 1 .. Len(h) /\ Len(h) \in Nat
      <4>1. Failures(h) \subseteq 1 .. Len(h)
        BY FailuresFinite
      <4> QED
        BY <4>1
    <3>3. d.age = AgeAt(Len(g), m)
      BY <1>1, <3>1, <3>2, ControllerHealthAssumption DEF AgeAt, NoAge
    <3> QED
      BY <1>1, <3>1, <3>3 DEF Counted
  <2> QED
    BY <2>1, <2>2
<1> QED
  BY <1>1, <1>2 DEF Running, g

\* A failure of a class, which note_failure_at counts.
LEMMA FailureStep ==
  ASSUME HealthInv, ~exited, NEW k \in Classes,
         class' = FailedAt(k), Saw(k, "f"), exited' = IsTerminal(FailedAt(k), k)
  PROVE  HealthInv'
<1>1. /\ class \in [Classes -> Counters] /\ past \in [Classes -> Seq(Marks)]
      /\ \A j \in Classes : Running(class[j], past[j])
  BY DEF HealthInv, HealthType
<1> DEFINE c == class[k]
           d == FailedAt(k)[k]
<1>2. /\ d \in Counters /\ d.age = 0 /\ d.ever_ok = c.ever_ok
      /\ d.run = IF SameRun(c.age) THEN c.run + 1 ELSE 1
      /\ class' \in [Classes -> Counters] /\ class'[k] = d
      /\ \A j \in Classes : j # k => class'[j] = class[j]
  <2>1. c \in Counters
    BY <1>1
  <2> DEFINE r == IF SameRun(c.age) THEN c.run + 1 ELSE 1
  <2>2. r \in Nat
    BY <2>1 DEF Counters
  <2>3. class' = [class EXCEPT ![k].age = 0, ![k].run = r] /\ d = class'[k]
    BY DEF FailedAt
  <2> HIDE DEF r
  <2>4. d = [run |-> r, ever_ok |-> c.ever_ok, age |-> 0, stuck |-> c.stuck]
    BY <1>1, <2>1, <2>3 DEF Counters
  <2>5. /\ d \in Counters /\ d.age = 0 /\ d.ever_ok = c.ever_ok /\ d.run = r
    BY <2>1, <2>2, <2>4 DEF Counters
  <2>6. class' = [class EXCEPT ![k] = d]
    BY <1>1, <2>3
  <2> QED
    BY <1>1, <2>3, <2>5, <2>6 DEF r
<1>3. /\ past[k] \in Seq(Marks) /\ Append(past[k], "f") \in Seq(Marks)
      /\ past' \in [Classes -> Seq(Marks)] /\ past'[k] = Append(past[k], "f")
      /\ \A j \in Classes : j # k => past'[j] = past[j]
  BY <1>1, OneFailure DEF Saw
<1>4. exited' = (LongRun(d.run) /\ ~d.ever_ok)
  BY DEF IsTerminal
<1>5. c \in Counters /\ Running(c, past[k])
  BY <1>1
<1> HIDE DEF c, d
<1>6. IF LongRun(d.run) /\ ~d.ever_ok
      THEN Burst(past'[k]) /\ ~Worked(past'[k]) ELSE Running(class'[k], past'[k])
  BY <1>2, <1>3, <1>5, ClassFails
<1>7. HealthType'
  BY <1>2, <1>3, <1>4 DEF HealthType
<1>8. CASE exited'
  BY <1>4, <1>6, <1>7, <1>8 DEF HealthInv
<1>9. CASE ~exited'
  <2>1. \A j \in Classes : Running(class'[j], past'[j])
    BY <1>1, <1>2, <1>3, <1>4, <1>6, <1>9
  <2> QED
    BY <1>7, <1>9, <2>1 DEF HealthInv
<1> QED
  BY <1>8, <1>9

\* Answers in some classes: note_class_success for each.
LEMMA SuccessStep ==
  ASSUME HealthInv, ~exited, UNCHANGED exited, NEW receipt \in SUBSET Classes,
         class' = [k \in Classes |-> IF k \in receipt THEN Succeeded(k)[k] ELSE class[k]],
         past' = [k \in Classes |-> IF k \in receipt THEN Append(past[k], "s") ELSE past[k]]
  PROVE  HealthInv'
<1>1. /\ class \in [Classes -> Counters] /\ past \in [Classes -> Seq(Marks)]
      /\ \A j \in Classes : Running(class[j], past[j])
  BY DEF HealthInv, HealthType
<1>2. ASSUME NEW k \in Classes
      PROVE  Succeeded(k)[k] \in Counters /\ Succeeded(k)[k].ever_ok
  <2>1. class[k] \in Counters
    BY <1>1
  <2>2. Succeeded(k)[k] = [run |-> 0, ever_ok |-> TRUE, age |-> -1, stuck |-> class[k].stuck]
    BY <1>1, <2>1 DEF Succeeded, Counters, NoAge
  <2> QED
    BY <2>1, <2>2 DEF Counters
<1>3. class' \in [Classes -> Counters]
  BY <1>1, <1>2
<1>4. past' \in [Classes -> Seq(Marks)]
  BY <1>1, NoFailure
<1>5. ASSUME NEW k \in Classes
      PROVE  Running(class'[k], past'[k])
  <2>1. CASE k \in receipt
    <3>1. class'[k].ever_ok /\ past'[k] = Append(past[k], "s") /\ past[k] \in Seq(Marks)
      BY <1>1, <1>2, <2>1
    <3> QED
      BY <3>1, ClassWorks
  <2>2. CASE k \notin receipt
    BY <1>1, <2>2
  <2> QED
    BY <2>1, <2>2
<1> QED
  BY <1>3, <1>4, <1>5 DEF HealthInv, HealthType

\* A process that has seen nothing.
LEMMA NewClassRuns == Running(NewClass, <<>>)
<1>1. Failures(<<>>) = {} /\ ~Worked(<<>>)
  BY DEF Failures, Worked
<1>2. ~Burst(<<>>)
  <2> SUFFICES ASSUME Burst(<<>>)
               PROVE  FALSE
    OBVIOUS
  <2>1. Cardinality({}) = TERMINAL_RUN
    BY <1>1, BurstOfFailures
  <2> QED
    BY <2>1, FS_EmptySet, ControllerHealthAssumption
<1> QED
  BY <1>1, <1>2, ControllerHealthAssumption DEF Running, Counted, NewClass

LEMMA NewProcess ==
  ASSUME class' = [k \in Classes |-> NewClass], exited' = FALSE,
         past' = [k \in Classes |-> <<>>]
  PROVE  HealthInv'
<1>1. NewClass \in Counters /\ <<>> \in Seq(Marks)
  BY DEF NewClass, Counters, NoAge
<1> QED
  BY <1>1, NewClassRuns DEF HealthInv, HealthType

LEMMA NewProcessNow ==
  ASSUME class = [k \in Classes |-> NewClass], exited = FALSE,
         past = [k \in Classes |-> <<>>]
  PROVE  HealthInv
<1>1. NewClass \in Counters /\ <<>> \in Seq(Marks)
  BY DEF NewClass, Counters, NoAge
<1> QED
  BY <1>1, NewClassRuns DEF HealthInv, HealthType

LEMMA HealthStep == HealthInv /\ [ControllerNext]_controllerVars => HealthInv'
<1> SUFFICES ASSUME HealthInv, [ControllerNext]_controllerVars
             PROVE  HealthInv'
  OBVIOUS
<1>1. /\ class \in [Classes -> Counters] /\ past \in [Classes -> Seq(Marks)]
      /\ exited \in BOOLEAN
  BY DEF HealthInv, HealthType
<1>2. ASSUME NEW l \in Loops, EventArrives(l)
      PROVE  HealthInv'
  <2>1. ~exited /\ UNCHANGED exited /\ class' = Succeeded(Watch) /\ Saw(Watch, "s")
    BY <1>2 DEF EventArrives
  <2>2. class' = [k \in Classes |-> IF k \in {Watch} THEN Succeeded(k)[k] ELSE class[k]]
    BY <1>1, <2>1 DEF Succeeded
  <2>3. past' = [k \in Classes |-> IF k \in {Watch} THEN Append(past[k], "s") ELSE past[k]]
    BY <1>1, <2>1 DEF Saw
  <2> QED
    BY <2>1, <2>2, <2>3, SuccessStep, ControllerHealthAssumption
<1>3. ASSUME NEW l \in Loops, NEW receipt \in Requested, RequestWorks(l, receipt)
      PROVE  HealthInv'
  BY <1>3, SuccessStep DEF RequestWorks, Requested
<1>4. ASSUME NEW l \in Loops, NEW k \in Classes \ {Watch}, RequestFails(l, k)
      PROVE  HealthInv'
  BY <1>4, FailureStep DEF RequestFails
<1>5. ASSUME NEW l \in Loops, StreamFails(l)
      PROVE  HealthInv'
  BY <1>5, FailureStep, ControllerHealthAssumption DEF StreamFails
<1>6. ASSUME NEW l \in Loops, NEW stuck \in BOOLEAN, Unactionable(l, stuck)
      PROVE  HealthInv'
  <2>1. /\ ~exited /\ UNCHANGED <<exited, past>>
        /\ class' = [class EXCEPT ![ExceptionPublish].stuck = stuck]
    BY <1>6 DEF Unactionable
  <2>2. class' \in [Classes -> Counters]
    BY <1>1, <2>1, ControllerHealthAssumption DEF Counters
  <2>3. \A k \in Classes : /\ class'[k].run = class[k].run /\ class'[k].age = class[k].age
                           /\ class'[k].ever_ok = class[k].ever_ok
    BY <1>1, <2>1, ControllerHealthAssumption DEF Counters
  <2>4. \A k \in Classes : Running(class[k], past[k])
    BY <2>1 DEF HealthInv
  <2>5. \A k \in Classes : Running(class'[k], past[k])
    BY <2>3, <2>4 DEF Running, Counted
  <2> QED
    BY <1>1, <2>1, <2>2, <2>5 DEF HealthInv, HealthType
<1>7. CASE Waits
  <2>1. ~exited /\ UNCHANGED exited
    BY <1>7 DEF Waits
  <2>2. ASSUME NEW k \in Classes
        PROVE  /\ class'[k] \in Counters /\ class'[k].run = class[k].run
               /\ class'[k].ever_ok = class[k].ever_ok
               /\ class'[k].age = IF class[k].age \in {NoAge, TERMINAL_WINDOW + 1}
                                  THEN class[k].age ELSE class[k].age + 1
               /\ past'[k] = Append(past[k], "t") /\ past[k] \in Seq(Marks)
               /\ Append(past[k], "t") \in Seq(Marks)
    <3>1. past'[k] = Append(past[k], "t") /\ past[k] \in Seq(Marks) /\ class[k] \in Counters
      BY <1>1, <1>7 DEF Waits
    <3>2. class'[k] = IF class[k].age \in {NoAge, TERMINAL_WINDOW + 1} THEN class[k]
                      ELSE [class[k] EXCEPT !.age = class[k].age + 1]
      BY <1>1, <1>7 DEF Waits
    <3>3. /\ class'[k] \in Counters /\ class'[k].run = class[k].run
          /\ class'[k].ever_ok = class[k].ever_ok
          /\ class'[k].age = IF class[k].age \in {NoAge, TERMINAL_WINDOW + 1}
                             THEN class[k].age ELSE class[k].age + 1
      BY <3>1, <3>2 DEF Counters
    <3> QED
      BY <3>1, <3>3, NoFailure
  <2>3. class' \in [Classes -> Counters] /\ past' \in [Classes -> Seq(Marks)]
    BY <1>7, <2>2 DEF Waits
  <2>4. ASSUME NEW k \in Classes
        PROVE  Running(class'[k], past'[k])
    <3>1. Running(class[k], past[k]) /\ class[k] \in Counters
      BY <1>1, <2>1 DEF HealthInv
    <3> QED
      BY <2>2, <3>1, ClassWaits
  <2> QED
    BY <1>1, <2>1, <2>3, <2>4 DEF HealthInv, HealthType
<1>8. CASE ControllerRestart
  <2>1. /\ class' = [k \in Classes |-> NewClass] /\ exited' = FALSE
        /\ past' = [k \in Classes |-> <<>>]
    BY <1>8 DEF ControllerRestart
  <2> QED
    BY <2>1, NewProcess
<1>9. CASE UNCHANGED <<class, past, exited>>
  BY <1>9 DEF HealthInv, HealthType
<1> QED
  BY <1>2, <1>3, <1>4, <1>5, <1>6, <1>7, <1>8, <1>9
  DEF ControllerNext, EventEnds, PublishStatus, controllerVars

\* The process ends exactly on a burst of failures of a class that never worked,
\* whatever the order in which the loops note what their requests did, for any length
\* of the run and of the window (note_failure_at, the terminal rule of run_watch).
THEOREM ControllerEndsOnABurst == ControllerHealthSpec => []TerminalIsABurst
<1>1. ControllerInit => HealthInv
  BY NewProcessNow DEF ControllerInit
<1>2. HealthInv => TerminalIsABurst
  <2> SUFFICES ASSUME HealthInv
               PROVE  TerminalIsABurst
    OBVIOUS
  <2>1. exited \in BOOLEAN
    BY DEF HealthInv, HealthType
  <2> QED
    BY <2>1 DEF HealthInv, Running, Worked, TerminalIsABurst
<1> QED
  BY <1>1, <1>2, HealthStep, PTL DEF ControllerHealthSpec
=============================================================================
