--------------------------- MODULE ReactionProofs ---------------------------
(***************************************************************************)
(* Proofs about the container map and the reactions of the agent, for any  *)
(* cgroups, rules, budgets and bounds.                                     *)
(***************************************************************************)
EXTENDS Reaction, TLAPS

----------------------------------------------------------------------------
(* The inductive invariant: the container map. *)

Pods == Resolvable(dir, known)

TreeType ==
    /\ now \in Nat
    /\ dir \in [Cgroups -> {"none", "host", "pod"}]
    /\ known \subseteq Cgroups
    /\ since \in [Cgroups -> Nat]
    /\ \A c \in Cgroups : since[c] <= now

RefresherType ==
    refresher \in [pc : {"scan", "join", "publish", "gone"}, tree : SUBSET Cgroups,
                   started : Nat, resolved_at : Nat \cup {Never}]

\* Every pod that could be resolved one whole refresh before `at` is in S.
Holds(S, at) == \A c \in Pods : since[c] + ScanMax < at => c \in S

\* A scan in progress began at most ScanMax ago, and has every pod of before.
ScanInv ==
    refresher.pc = "join" =>
        /\ refresher.started <= now /\ now - refresher.started <= ScanMax
        /\ \A c \in Pods : since[c] < refresher.started => c \in refresher.tree

\* What was resolved, what is under way and what is in the kernel hold every pod of
\* their time, in this order of age.
MapInv ==
    /\ refresher.resolved_at <= now
    /\ Holds(index, refresher.resolved_at)
    /\ chan = <<>> \/ \E u \in [cgroups : SUBSET Cgroups, at : Nat \cup {Never}] :
                         chan = <<u>> /\ u.at <= refresher.resolved_at /\ Holds(u.cgroups, u.at)
    /\ map \in [synced : BOOLEAN, entries : {map.entries}, error : {map.error},
                at : Nat \cup {Never}]
    /\ map.at <= refresher.resolved_at
    /\ map.synced => Holds(kmap, map.at)
    /\ index \subseteq Cgroups

CMInv == TreeType /\ RefresherType /\ ScanInv /\ MapInv

----------------------------------------------------------------------------
(* The inductive invariant: the pump. *)

Record == [cg : Cgroups, tgid : {"target", "agent"}, in_container : BOOLEAN, agent_self : BOOLEAN]

PumpType ==
    /\ setup \in Setups
    /\ proc \in Cgroups \cup {"gone"}
    /\ queue \in Seq(Record)
    /\ called \in BOOLEAN
    /\ gained \in [Counters -> Nat]
    /\ pump = Idle \/ pump \in [pc : {"check", "kill"}, rec : Record, reused : BOOLEAN]

\* A record that got as far as the look-up is a container's, not the agent's, and
\* counted nowhere yet; after the look-up its process is where it was, or has moved.
TargetInv ==
    /\ pump.pc \in {"check", "kill"} => pump.rec.in_container /\ pump.rec.tgid = "target" /\ called
    /\ pump.pc = "check" => gained = Zero
    /\ pump.pc = "kill" =>
          /\ gained = [Zero EXCEPT !["confirmed"] = 1]
          /\ proc = pump.rec.cg \/ pump.reused

WindowInv == \A c \in DOMAIN unproven : unproven[c].opened \in Int

IInv == CMInv /\ PumpType /\ TargetInv /\ WindowInv /\ EveryReactionCounted /\ SignalHitsItsTarget

----------------------------------------------------------------------------
(* The container map. *)

\* What holds every pod of its time goes on doing so when the tree changes: a pod
\* that can be resolved anew was not one then.
LEMMA TreeChangeKeepsHolds ==
    ASSUME CMInv, NEW d, NEW k, SetTree(d, k), NEW S, NEW at \in Int, at <= now, Holds(S, at)
    PROVE  Holds(S, at)'
<1> SUFFICES ASSUME NEW c \in Pods', since'[c] + ScanMax < at
             PROVE  c \in S
  BY DEF Holds
<1>1. c \in Cgroups /\ c \in Resolvable(d, k)
  BY DEF SetTree, Pods, Resolvable
<1>2. CASE c \in Pods
  <2>1. since'[c] = since[c]
    BY <1>1, <1>2 DEF SetTree, Pods
  <2> QED
    BY <1>2, <2>1 DEF Holds
<1>3. CASE c \notin Pods
  <2>1. since'[c] = now
    BY <1>1, <1>3 DEF SetTree, Pods
  <2> QED
    BY <2>1, ContainerMapAssumption DEF CMInv, TreeType
<1> QED
  BY <1>2, <1>3

\* A change of the tree or of the pods that are known.
LEMMA SetTreeKeeps ==
    ASSUME CMInv, NEW d \in [Cgroups -> {"none", "host", "pod"}], NEW k \in SUBSET Cgroups,
           SetTree(d, k)
    PROVE  CMInv'
<1> USE ContainerMapAssumption
<1>1. UNCHANGED <<now, refresher, index, chan, mapVars>>
  BY DEF SetTree
<1>2. TreeType' /\ RefresherType'
  BY DEF CMInv, TreeType, RefresherType, SetTree
<1>3. ScanInv'
  <2> SUFFICES ASSUME refresher.pc = "join", NEW c \in Pods', since'[c] < refresher.started
               PROVE  c \in refresher.tree
    BY <1>1 DEF CMInv, ScanInv
  <2>1. c \in Cgroups /\ c \in Resolvable(d, k)
    BY DEF SetTree, Pods, Resolvable
  <2>2. CASE c \in Pods
    BY <2>1, <2>2 DEF SetTree, Pods, CMInv, ScanInv
  <2>3. CASE c \notin Pods
    <3>1. since'[c] = now
      BY <2>1, <2>3 DEF SetTree, Pods
    <3> QED
      BY <3>1 DEF CMInv, ScanInv, TreeType, RefresherType
  <2> QED
    BY <2>2, <2>3
<1>4. MapInv'
  <2>1. /\ refresher.resolved_at \in Int /\ refresher.resolved_at <= now
        /\ now \in Int /\ map.at \in Int /\ map.at <= now
    BY DEF CMInv, TreeType, RefresherType, MapInv, Never
  <2>2. Holds(index, refresher.resolved_at)'
    BY <1>1, <2>1, TreeChangeKeepsHolds DEF CMInv, MapInv, Holds
  <2>3. map.synced => Holds(kmap, map.at)'
    BY <1>1, <2>1, TreeChangeKeepsHolds DEF CMInv, MapInv, Holds, mapVars
  <2>4. ASSUME NEW u \in [cgroups : SUBSET Cgroups, at : Nat \cup {Never}],
               u.at <= refresher.resolved_at, Holds(u.cgroups, u.at)
        PROVE  Holds(u.cgroups, u.at)'
    <3>1. u.at \in Int /\ u.at <= now
      BY <2>1, <2>4 DEF Never
    <3> QED
      BY <2>4, <3>1, TreeChangeKeepsHolds DEF Holds
  <2>5. chan' = <<>> \/ \E u \in [cgroups : SUBSET Cgroups, at : Nat \cup {Never}] :
                           chan' = <<u>> /\ u.at <= refresher'.resolved_at /\ Holds(u.cgroups, u.at)'
    BY <1>1, <2>4 DEF CMInv, MapInv
  <2> QED
    BY <1>1, <2>2, <2>3, <2>5 DEF CMInv, MapInv, mapVars, Holds
<1> QED
  BY <1>2, <1>3, <1>4 DEF CMInv

\* What a step that leaves the tree alone keeps.
LEMMA SameTree ==
    ASSUME UNCHANGED treeVars
    PROVE  /\ Pods' = Pods
           /\ \A S, at : Holds(S, at)' <=> Holds(S, at)
  BY DEF treeVars, Pods, Resolvable, Holds

\* Time passes: a scan in progress still ends within its bound.
LEMMA TickKeeps ==
    ASSUME CMInv, Tick
    PROVE  CMInv'
<1> USE ContainerMapAssumption
<1>1. UNCHANGED <<treeVars, refresher, index, chan, mapVars>> /\ now' = now + 1
  BY DEF Tick
<1>2. TreeType' /\ RefresherType'
  BY <1>1 DEF CMInv, TreeType, RefresherType, treeVars
<1>3. ScanInv'
  BY <1>1, SameTree DEF CMInv, TreeType, RefresherType, ScanInv, Tick, treeVars
<1>4. MapInv'
  BY <1>1, SameTree DEF CMInv, TreeType, RefresherType, MapInv, Holds, Pods, treeVars, mapVars, Never
<1> QED
  BY <1>2, <1>3, <1>4 DEF CMInv

\* The refresher: index and stamp move together.
LEMMA ScanTreeKeeps ==
    ASSUME CMInv, ScanTree
    PROVE  CMInv'
<1> USE ContainerMapAssumption
<1>1. UNCHANGED <<now, treeVars, index, chan, mapVars>>
  BY DEF ScanTree
<1>2. /\ refresher'.pc = "join" /\ refresher'.started = now
      /\ refresher'.tree = {c \in Cgroups : dir[c] = "pod"}
      /\ refresher'.resolved_at = refresher.resolved_at
  BY DEF ScanTree, CMInv, RefresherType
<1>3. TreeType' /\ RefresherType'
  BY <1>1 DEF CMInv, TreeType, RefresherType, ScanTree, treeVars
<1>4. ScanInv'
  BY <1>1, <1>2, SameTree DEF CMInv, TreeType, ScanInv, Pods, Resolvable, treeVars
<1>5. MapInv'
  BY <1>1, <1>2 DEF CMInv, MapInv, Holds, Pods, Resolvable, treeVars, mapVars
<1> QED
  BY <1>3, <1>4, <1>5 DEF CMInv

\* A scan that ends has every pod from before it began.
LEMMA JoinKeeps ==
    ASSUME CMInv, Join
    PROVE  CMInv'
<1> USE ContainerMapAssumption
<1>1. UNCHANGED <<now, treeVars, chan, mapVars>> /\ index' = refresher.tree \cap known
  BY DEF Join
<1>2. refresher' = [pc |-> "publish", tree |-> {}, started |-> 0, resolved_at |-> now]
  BY DEF Join, CMInv, RefresherType
<1>3. TreeType' /\ RefresherType'
  <2>1. TreeType'
    BY <1>1 DEF CMInv, TreeType, treeVars
  <2>2. RefresherType'
    BY <1>2 DEF CMInv, TreeType, RefresherType
  <2> QED
    BY <2>1, <2>2
<1>4. Holds(index', now)
  BY <1>1 DEF CMInv, TreeType, RefresherType, ScanInv, Holds, Pods, Resolvable, Join
<1>5. Holds(index, refresher.resolved_at)'
  BY <1>1, <1>2, <1>4 DEF Holds, Pods, Resolvable, treeVars
<1>6. refresher.resolved_at <= now /\ refresher.resolved_at \in Int /\ now \in Int
  BY DEF CMInv, TreeType, RefresherType, MapInv, Never
<1>7. chan' = <<>> \/ \E u \in [cgroups : SUBSET Cgroups, at : Nat \cup {Never}] :
                         chan' = <<u>> /\ u.at <= refresher'.resolved_at /\ Holds(u.cgroups, u.at)'
  BY <1>1, <1>2, <1>6, SameTree DEF CMInv, MapInv, Never
<1>8. map'.at <= refresher'.resolved_at
  BY <1>1, <1>2, <1>6 DEF CMInv, MapInv, mapVars, Never
<1>9. map'.synced => Holds(kmap, map.at)'
  BY <1>1, SameTree DEF CMInv, MapInv, Holds, mapVars
<1>10. MapInv'
  BY <1>1, <1>2, <1>3, <1>5, <1>6, <1>7, <1>8, <1>9 DEF CMInv, MapInv, TreeType, mapVars
<1> QED
  BY <1>2, <1>3, <1>10 DEF CMInv, ScanInv

\* The refresher moves on without a result of its own.
LEMMA RefresherMovesKeeps ==
    ASSUME CMInv, UNCHANGED <<now, treeVars, index, mapVars>>, RefresherType', refresher'.pc # "join",
           refresher'.resolved_at = refresher.resolved_at,
           \/ chan' \in {chan, <<>>}
           \/ chan' = <<[cgroups |-> index, at |-> refresher.resolved_at]>>
    PROVE  CMInv'
<1>1. TreeType' /\ ScanInv'
  BY DEF CMInv, TreeType, ScanInv, treeVars
<1>2. chan' = <<>> \/ \E u \in [cgroups : SUBSET Cgroups, at : Nat \cup {Never}] :
                         chan' = <<u>> /\ u.at <= refresher'.resolved_at /\ Holds(u.cgroups, u.at)'
  <2>1. CASE chan' = <<>>
    BY <2>1
  <2>2. CASE chan' = chan
    BY <2>2, SameTree DEF CMInv, MapInv
  <2>3. CASE chan' = <<[cgroups |-> index, at |-> refresher.resolved_at]>>
    <3> DEFINE u == [cgroups |-> index, at |-> refresher.resolved_at]
    <3>1. u \in [cgroups : SUBSET Cgroups, at : Nat \cup {Never}] /\ u.at <= refresher'.resolved_at
      BY DEF CMInv, MapInv, RefresherType, Never
    <3>2. Holds(u.cgroups, u.at)'
      BY SameTree DEF CMInv, MapInv
    <3> QED
      BY <2>3, <3>1, <3>2
  <2> QED
    BY <2>1, <2>2, <2>3
<1>3. MapInv'
  BY <1>2, SameTree DEF CMInv, MapInv, Holds, mapVars
<1> QED
  BY <1>1, <1>3 DEF CMInv

\* The carrier takes what the channel held.
LEMMA CarryKeeps ==
    ASSUME CMInv, CarryStep \/ CarrierPanics
    PROVE  CMInv'
<1>1. UNCHANGED <<now, treeVars, refresher, index>>
  BY DEF CarryStep, CarryUpdate, CarryFails, PublisherGone, CarrierPanics
<1>2. TreeType' /\ RefresherType' /\ ScanInv'
  BY <1>1, SameTree DEF CMInv, TreeType, RefresherType, ScanInv, treeVars
<1>3. CASE CarryUpdate
  <2>1. PICK u \in [cgroups : SUBSET Cgroups, at : Nat \cup {Never}] :
           chan = <<u>> /\ u.at <= refresher.resolved_at /\ Holds(u.cgroups, u.at)
    BY <1>3 DEF CMInv, MapInv, CarryUpdate
  <2>2. kmap' = u.cgroups /\ map'.at = u.at /\ chan' = <<>>
    BY <1>3, <2>1 DEF CarryUpdate, Synced
  <2>3. map' \in [synced : BOOLEAN, entries : {map'.entries}, error : {map'.error},
                  at : Nat \cup {Never}]
    BY <1>3, <2>1 DEF CarryUpdate, Synced
  <2> QED
    BY <1>1, <1>2, <2>1, <2>2, <2>3, SameTree DEF CMInv, MapInv, Holds
<1>4. CASE CarryFails \/ PublisherGone
  <2>1. ~map'.synced /\ map'.at = map.at /\ chan' = <<>>
    BY <1>4 DEF CMInv, MapInv, CarryFails, PublisherGone, Broken
  <2>2. map' \in [synced : BOOLEAN, entries : {map'.entries}, error : {map'.error},
                  at : Nat \cup {Never}]
    BY <1>4 DEF CMInv, MapInv, CarryFails, PublisherGone, Broken
  <2> QED
    BY <1>1, <1>2, <2>1, <2>2, SameTree DEF CMInv, MapInv, Holds
<1>5. CASE CarrierPanics
  BY <1>1, <1>2, <1>5, SameTree DEF CMInv, MapInv, Holds, CarrierPanics
<1> QED
  BY <1>3, <1>4, <1>5 DEF CarryStep

\* Every step of the node keeps the invariant of the map.
LEMMA NodeStepKeeps ==
    ASSUME CMInv, NodeStep
    PROVE  CMInv'
<1>1. ASSUME NEW c \in Cgroups, NEW kind \in {"host", "pod"}, MakeDir(c, kind)
      PROVE  CMInv'
  BY <1>1, SetTreeKeeps DEF MakeDir, CMInv, TreeType
<1>2. ASSUME NEW c \in Cgroups, RemoveDir(c) \/ PodSeen(c) \/ PodForgotten(c)
      PROVE  CMInv'
  BY <1>2, SetTreeKeeps DEF RemoveDir, PodSeen, PodForgotten, CMInv, TreeType
<1>3. CASE RefreshFails \/ Publish \/ RefresherPanics
  <2>1. RefresherType' /\ refresher'.pc # "join" /\ refresher'.resolved_at = refresher.resolved_at
    <3>1. CASE RefreshFails
      BY <3>1 DEF CMInv, RefresherType, RefreshFails
    <3>2. CASE Publish
      BY <3>2 DEF CMInv, RefresherType, Publish
    <3>3. CASE RefresherPanics
      BY <3>3 DEF CMInv, RefresherType, RefresherPanics
    <3> QED
      BY <1>3, <3>1, <3>2, <3>3
  <2>2. UNCHANGED <<now, treeVars, index, mapVars>>
    BY <1>3 DEF RefreshFails, Publish, RefresherPanics
  <2>3. \/ chan' \in {chan, <<>>}
        \/ chan' = <<[cgroups |-> index, at |-> refresher.resolved_at]>>
    BY <1>3 DEF RefreshFails, Publish, RefresherPanics
  <2> QED
    BY <2>1, <2>2, <2>3, RefresherMovesKeeps
<1> QED
  BY <1>1, <1>2, <1>3, TickKeeps, ScanTreeKeeps, JoinKeeps, CarryKeeps
  DEF NodeStep, RefreshStep

----------------------------------------------------------------------------
(* The pump. *)

\* An idle pump has no record in hand.
LEMMA IdleType == Idle.pc = "idle" /\ Idle.pc \notin {"check", "kill"}
  BY DEF Idle

\* What Count leaves.
LEMMA CountOf ==
    ASSUME NEW before \in [Counters -> Nat], NEW names, Count(before, names)
    PROVE  /\ gained' \in [Counters -> Nat]
           /\ \A k \in Counters : gained'[k] = before[k] + (IF k \in names THEN 1 ELSE 0)
  BY DEF Count

\* The outcomes of Handle that end the record.
LEMMA CountedOnce ==
    ASSUME gained' \in [Counters -> Nat], pump' = Idle, called' \in BOOLEAN,
           NEW names, \A k \in Counters : gained'[k] = IF k \in names THEN 1 ELSE 0,
           \/ ~called' /\ names \in {{}, {"unproven"}}
           \/ called' /\ names \in {{"refused"}, {"role_skipped"}, {"refused", "unprovable"},
                                    {"refused", "stale"}, {"confirmed", "kill"},
                                    {"confirmed", "failed"}}
    PROVE  EveryReactionCounted'
<1>1. /\ gained'["kill"] = IF "kill" \in names THEN 1 ELSE 0
      /\ gained'["refused"] = IF "refused" \in names THEN 1 ELSE 0
      /\ gained'["role_skipped"] = IF "role_skipped" \in names THEN 1 ELSE 0
      /\ gained'["failed"] = IF "failed" \in names THEN 1 ELSE 0
      /\ gained'["confirmed"] = IF "confirmed" \in names THEN 1 ELSE 0
      /\ gained'["stale"] = IF "stale" \in names THEN 1 ELSE 0
      /\ gained'["unprovable"] = IF "unprovable" \in names THEN 1 ELSE 0
  BY DEF Counters
<1> QED
  BY <1>1 DEF EveryReactionCounted

\* The windows after a question are windows.
LEMMA WindowsKeep ==
    ASSUME WindowInv, now \in Int, NEW c
    PROVE  \A x \in DOMAIN WindowFor(c) : WindowFor(c)[x].opened \in Int
<1> DEFINE held == Tracked(unproven, c)
           opened == IF c \in DOMAIN held /\ now - held[c].opened < ProofTtl
                     THEN held[c].opened ELSE now
<1>1. \A x \in DOMAIN held : held[x].opened \in Int
  BY DEF WindowInv, Tracked, evict_unproven
<1>2. WindowFor(c) = [x \in {c} \cup DOMAIN held |->
                        IF x = c THEN [opened |-> opened, seen |-> now] ELSE held[x]]
  BY DEF WindowFor
<1> HIDE DEF held
<1>3. opened \in Int
  BY <1>1
<1> QED
  BY <1>1, <1>2, <1>3

\* A record is judged: it ends here, counted once if it called for a reaction, or goes on.
LEMMA HandleKeeps ==
    ASSUME IInv, Handle
    PROVE  IInv'
<1> USE ContainerMapAssumption
<1>1. UNCHANGED <<cmVars, setup, proc, emitted>> /\ signals' = {} /\ queue # <<>>
  BY DEF Handle
<1>2. CMInv'
  BY <1>1 DEF IInv, CMInv, TreeType, RefresherType, ScanInv, MapInv, Holds, Pods, Resolvable,
     cmVars, treeVars, mapVars
<1> DEFINE rec == Head(queue)
           unknown == rec.cg \notin index
           asked == unknown /\ ~rec.in_container /\ container_map_ready
           windows == IF asked THEN WindowFor(rec.cg) ELSE unproven
<1>3. rec \in Record /\ queue' \in Seq(Record)
  BY <1>1 DEF IInv, PumpType, Handle
<1>4. unproven' = windows
  BY DEF Handle
<1>5. WindowInv'
  BY <1>4, WindowsKeep DEF IInv, WindowInv, CMInv, TreeType
<1>6. PICK rule \in Rules, scope_unproven \in BOOLEAN, provable \in BOOLEAN :
         /\ called' = CallsFor(rule, rec)
         /\ IF ~CallsFor(rule, rec)
            THEN (\E doubt \in {{}, {"unproven"}} : Count(Zero, doubt)) /\ pump' = Idle
            ELSE IF rule.action = "Deny" THEN Count(Zero, {"refused"}) /\ pump' = Idle
            ELSE IF role # "respond" THEN Count(Zero, {"role_skipped"}) /\ pump' = Idle
            ELSE IF RefuseReason(rec, unknown, scope_unproven) \/ rule.action = "Isolate"
            THEN Count(Zero, {"refused"}) /\ pump' = Idle
            ELSE IF ~provable THEN Count(Zero, {"refused", "unprovable"}) /\ pump' = Idle
            ELSE /\ pump' = [pc |-> "check", rec |-> rec, reused |-> FALSE]
                 /\ gained' = Zero
  BY DEF Handle
<1>7. called' \in BOOLEAN
  BY <1>3, <1>6 DEF CallsFor, Matches, Record
<1>8. Zero \in [Counters -> Nat] /\ \A k \in Counters : Zero[k] = 0
  BY DEF Zero
<1> HIDE DEF rec, unknown
<1>9. CASE \E names \in {{}, {"unproven"}} : Count(Zero, names) /\ pump' = Idle /\ ~called'
  <2>1. PICK names \in {{}, {"unproven"}} : Count(Zero, names) /\ pump' = Idle /\ ~called'
    BY <1>9
  <2>2. gained' \in [Counters -> Nat] /\ \A k \in Counters : gained'[k] = IF k \in names THEN 1 ELSE 0
    BY <1>8, <2>1, CountOf
  <2>3. EveryReactionCounted'
    BY <1>7, <2>1, <2>2, CountedOnce
  <2> QED
    BY <1>1, <1>2, <1>3, <1>5, <1>7, <2>1, <2>2, <2>3, IdleType
    DEF IInv, PumpType, TargetInv, SignalHitsItsTarget
<1>10. CASE \E names \in {{"refused"}, {"role_skipped"}, {"refused", "unprovable"}} :
              Count(Zero, names) /\ pump' = Idle /\ called'
  <2>1. PICK names \in {{"refused"}, {"role_skipped"}, {"refused", "unprovable"}} :
           Count(Zero, names) /\ pump' = Idle /\ called'
    BY <1>10
  <2>2. gained' \in [Counters -> Nat] /\ \A k \in Counters : gained'[k] = IF k \in names THEN 1 ELSE 0
    BY <1>8, <2>1, CountOf
  <2>3. EveryReactionCounted'
    BY <1>7, <2>1, <2>2, CountedOnce
  <2> QED
    BY <1>1, <1>2, <1>3, <1>5, <1>7, <2>1, <2>2, <2>3, IdleType
    DEF IInv, PumpType, TargetInv, SignalHitsItsTarget
<1>11. CASE /\ pump' = [pc |-> "check", rec |-> rec, reused |-> FALSE]
            /\ gained' = Zero /\ called' /\ role = "respond"
            /\ ~RefuseReason(rec, unknown, scope_unproven)
  <2>1. rec.in_container /\ rec.tgid = "target"
    BY <1>3, <1>11 DEF RefuseReason, role, RoleAtStart, Record
  <2> QED
    BY <1>1, <1>2, <1>3, <1>5, <1>7, <1>8, <1>11, <2>1
    DEF IInv, PumpType, TargetInv, SignalHitsItsTarget, EveryReactionCounted
<1> QED
  BY <1>6, <1>7, <1>9, <1>10, <1>11

\* The look-up: one that confirms the target leaves the process where it was.
LEMMA CheckTargetKeeps ==
    ASSUME IInv, CheckTarget
    PROVE  IInv'
<1>1. UNCHANGED <<cmVars, setup, proc, emitted, queue, unproven, called, signals>>
  BY DEF CheckTarget
<1>2. CMInv' /\ WindowInv'
  BY <1>1 DEF IInv, WindowInv, CMInv, TreeType, RefresherType, ScanInv, MapInv, Holds, Pods, Resolvable,
     cmVars, treeVars, mapVars
<1>3. /\ pump \in [pc : {"check", "kill"}, rec : Record, reused : BOOLEAN]
      /\ pump.pc = "check" /\ gained = Zero /\ called /\ pump.rec.in_container
      /\ pump.rec.tgid = "target"
  BY IdleType DEF IInv, PumpType, TargetInv, CheckTarget
<1>4. Zero \in [Counters -> Nat] /\ \A k \in Counters : Zero[k] = 0
  BY DEF Zero
<1>5. CASE proc = pump.rec.cg
  <2>1. Count(Zero, {"confirmed"}) /\ pump' = [pump EXCEPT !.pc = "kill"]
    BY <1>3, <1>5 DEF CheckTarget, CgroupOf
  <2>2. gained' \in [Counters -> Nat] /\ gained' = [Zero EXCEPT !["confirmed"] = 1]
    BY <2>1 DEF Count, Zero
  <2> QED
    BY <1>1, <1>2, <1>3, <1>5, <2>1, <2>2
    DEF IInv, PumpType, TargetInv, SignalHitsItsTarget, EveryReactionCounted
<1>6. CASE proc # pump.rec.cg
  <2>1. Count(Zero, {"refused", "stale"}) /\ pump' = Idle
    BY <1>3, <1>6 DEF CheckTarget, CgroupOf
  <2>2. /\ gained' \in [Counters -> Nat]
        /\ \A k \in Counters : gained'[k] = IF k \in {"refused", "stale"} THEN 1 ELSE 0
    BY <1>4, <2>1, CountOf
  <2>3. EveryReactionCounted'
    BY <1>1, <1>3, <2>1, <2>2, CountedOnce DEF IInv, PumpType
  <2> QED
    BY <1>1, <1>2, <2>1, <2>2, <2>3, IdleType DEF IInv, PumpType, TargetInv, SignalHitsItsTarget
<1> QED
  BY <1>5, <1>6

\* The signal: the process is where the look-up found it, or its pid was used again.
LEMMA SignalKeeps ==
    ASSUME IInv, Signal
    PROVE  IInv'
<1>1. UNCHANGED <<cmVars, setup, emitted, queue, unproven, called>> /\ pump' = Idle
  BY DEF Signal
<1>2. CMInv' /\ WindowInv'
  BY <1>1 DEF IInv, WindowInv, CMInv, TreeType, RefresherType, ScanInv, MapInv, Holds, Pods, Resolvable,
     cmVars, treeVars, mapVars
<1>3. /\ pump \in [pc : {"check", "kill"}, rec : Record, reused : BOOLEAN]
      /\ gained = [Zero EXCEPT !["confirmed"] = 1] /\ called /\ pump.rec.in_container
      /\ pump.rec.tgid = "target" /\ (proc = pump.rec.cg \/ pump.reused)
  BY IdleType DEF IInv, PumpType, TargetInv, Signal
<1>4. PICK ok \in BOOLEAN :
         /\ Count(gained, Outcome(ok))
         /\ signals' = IF ~ok THEN {} ELSE {[rec |-> pump.rec, hit |-> CgroupOf(pump.rec),
                                             reused |-> pump.reused]}
         /\ proc' = IF ok /\ pump.rec.tgid = "target" THEN "gone" ELSE proc
  BY DEF Signal
<1>5. SignalHitsItsTarget'
  BY <1>3, <1>4 DEF SignalHitsItsTarget, CgroupOf
<1> DEFINE names == {"confirmed"} \cup Outcome(ok)
<1>6. /\ gained' \in [Counters -> Nat]
      /\ \A k \in Counters : gained'[k] = IF k \in names THEN 1 ELSE 0
  <2>1. gained \in [Counters -> Nat] /\ \A k \in Counters : gained[k] = IF k = "confirmed" THEN 1 ELSE 0
    BY <1>3 DEF Zero
  <2>2. "confirmed" \notin Outcome(ok)
    BY DEF Outcome
  <2> QED
    BY <1>4, <2>1, <2>2, CountOf
<1>7. names \in {{"confirmed", "kill"}, {"confirmed", "failed"}}
  BY DEF Outcome
<1> HIDE DEF names
<1>8. EveryReactionCounted'
  BY <1>1, <1>3, <1>6, <1>7, CountedOnce DEF IInv, PumpType
<1> QED
  BY <1>1, <1>2, <1>4, <1>5, <1>6, <1>8, IdleType DEF IInv, PumpType, TargetInv

\* The process exits or its pid goes to another: the pump's record is marked if it
\* had been looked up.
LEMMA PidMovesKeeps ==
    ASSUME IInv, PidMoves
    PROVE  IInv'
<1>1. UNCHANGED <<now, treeVars, refresher, index, chan, mapVars, setup, queue, agentVars, signals>>
  BY DEF PidMoves
<1>2. CMInv' /\ WindowInv'
  BY <1>1 DEF IInv, WindowInv, CMInv, TreeType, RefresherType, ScanInv, MapInv, Holds, Pods, Resolvable,
     treeVars, mapVars, agentVars
<1>3. proc' \in Cgroups \cup {"gone"}
  BY DEF PidMoves
<1>4. CASE pump.pc = "kill"
  <2>1. pump \in [pc : {"check", "kill"}, rec : Record, reused : BOOLEAN]
    BY <1>4, IdleType DEF IInv, PumpType
  <2>2. pump' = [pump EXCEPT !.reused = TRUE]
    BY <1>4 DEF PidMoves
  <2>3. PumpType' /\ TargetInv'
    BY <1>1, <1>3, <1>4, <2>1, <2>2 DEF IInv, PumpType, TargetInv, agentVars
  <2> QED
    BY <1>1, <1>2, <1>4, <2>1, <2>2, <2>3
    DEF IInv, agentVars, SignalHitsItsTarget, EveryReactionCounted
<1>5. CASE pump.pc # "kill"
  BY <1>1, <1>2, <1>3, <1>5, IdleType
  DEF IInv, PumpType, TargetInv, PidMoves, agentVars, SignalHitsItsTarget, EveryReactionCounted
<1> QED
  BY <1>4, <1>5

\* A new record touches no counter.
LEMMA EmitKeeps ==
    ASSUME IInv, ProcessEmits \/ AgentEmits
    PROVE  IInv'
<1>1. PICK cg \in Cgroups, tgid \in {"target", "agent"} : Emit(cg, tgid)
  BY ContainerMapAssumption DEF ProcessEmits, AgentEmits, IInv, PumpType
<1> DEFINE r == [cg |-> cg, tgid |-> tgid, in_container |-> cg \in kmap,
                 agent_self |-> tgid = "agent" /\ SelfPublished]
<1>2. queue' = Append(queue, r) /\ UNCHANGED <<cmVars, setup, proc, pump, agentVars, signals>>
  BY <1>1 DEF Emit
<1>3. CMInv' /\ WindowInv'
  BY <1>2 DEF IInv, WindowInv, CMInv, TreeType, RefresherType, ScanInv, MapInv, Holds, Pods, Resolvable,
     cmVars, treeVars, mapVars, agentVars
<1>4. r \in Record
  <2>1. SelfPublished \in BOOLEAN
    BY ReactionAssumption DEF IInv, PumpType, SelfPublished
  <2> QED
    BY <1>1, <2>1 DEF Record
<1> HIDE DEF r
<1>5. queue' \in Seq(Record)
  BY <1>2, <1>4 DEF IInv, PumpType
<1> QED
  BY <1>2, <1>3, <1>5
  DEF IInv, PumpType, TargetInv, agentVars, SignalHitsItsTarget, EveryReactionCounted

----------------------------------------------------------------------------
(* The theorems. *)

\* No record, and a map that is not synced.
LEMMA InitIInv == Init => IInv
<1> SUFFICES ASSUME Init
             PROVE  IInv
  OBVIOUS
<1> USE ContainerMapAssumption
<1>1. TreeType
  <2>1. now = 0 /\ known = Cgroups /\ since = [c \in Cgroups |-> 0]
    BY DEF Init, CMInit
  <2>2. dir = [c \in Cgroups |-> IF c = AgentCgroup THEN "pod" ELSE "none"]
    BY DEF Init, CMInit
  <2> QED
    BY <2>1, <2>2 DEF TreeType
<1>2. RefresherType /\ ScanInv
  BY DEF Init, CMInit, RefresherType, ScanInv
<1>3. MapInv
  <2>1. \A S : Holds(S, Never)
    BY <1>1 DEF Holds, Pods, Resolvable, TreeType, Never
  <2>2. refresher.resolved_at = Never /\ map.at = Never
    BY DEF Init, CMInit
  <2>3. Never \in Int /\ Never <= 0
    BY DEF Never
  <2>4. map \in [synced : BOOLEAN, entries : {map.entries}, error : {map.error}, at : Nat \cup {Never}]
    BY DEF Init, CMInit
  <2>5. chan = <<>> /\ index = {} /\ now = 0
    BY DEF Init, CMInit
  <2> HIDE DEF Never
  <2> QED
    BY <2>1, <2>2, <2>3, <2>4, <2>5 DEF MapInv
<1>4. PumpType /\ TargetInv
  <2>1. setup \in Setups /\ proc = AgentCgroup /\ queue = <<>> /\ pump = Idle /\ called = FALSE
    BY DEF Init
  <2>2. gained \in [Counters -> Nat]
    BY DEF Init, Zero
  <2>3. queue \in Seq(Record) /\ proc \in Cgroups
    BY <2>1
  <2>4. called \in BOOLEAN
    BY Zenon DEF Init
  <2>5. PumpType
    BY <2>1, <2>2, <2>3, <2>4 DEF PumpType
  <2>6. TargetInv
    BY <2>1, IdleType DEF TargetInv
  <2> QED
    BY <2>5, <2>6
<1>5. WindowInv
  <2>1. DOMAIN unproven = {}
    BY DEF Init
  <2> QED
    BY <2>1 DEF WindowInv
<1>6. EveryReactionCounted /\ SignalHitsItsTarget
  BY DEF Init, EveryReactionCounted, SignalHitsItsTarget, Zero, Counters
<1> QED
  BY <1>1, <1>2, <1>3, <1>4, <1>5, <1>6 DEF IInv, CMInv

\* Steps of the node and steps of the pump.
LEMMA NextIInv == IInv /\ [Next]_vars => IInv'
<1> SUFFICES ASSUME IInv, [Next]_vars
             PROVE  IInv'
  OBVIOUS
<1>1. CASE UNCHANGED vars
  <2>1. CMInv' /\ WindowInv'
    BY <1>1 DEF IInv, WindowInv, CMInv, TreeType, RefresherType, ScanInv, MapInv, Holds, Pods, Resolvable,
       vars, cmVars, treeVars, mapVars, agentVars
  <2> QED
    BY <1>1, <2>1 DEF IInv, PumpType, TargetInv, SignalHitsItsTarget, EveryReactionCounted, vars, agentVars
<1>2. CASE NodeStep /\ UNCHANGED <<setup, proc, emitted, queue, pump, agentVars, signals>>
  <2>1. CMInv'
    BY <1>2, NodeStepKeeps DEF IInv
  <2> QED
    BY <1>2, <2>1
    DEF IInv, PumpType, TargetInv, WindowInv, SignalHitsItsTarget, EveryReactionCounted, agentVars
<1> QED
  BY <1>1, <1>2, HandleKeeps, CheckTargetKeeps, SignalKeeps, PidMovesKeeps, EmitKeeps
  DEF Next, PumpStep

\* The invariant holds in every reachable state.
LEMMA Invariance == Spec => []IInv
  BY InitIInv, NextIInv, PTL DEF Spec

\* A pod is flagged in the kernel within the budget and one refresh of the moment it
\* can be resolved, or the agent calls its map not ready (container_map_ready).
THEOREM MissingPodShows == Spec => []MissingPodIsVisible
<1>1. IInv => MissingPodIsVisible
  <2> SUFFICES ASSUME IInv, container_map_ready, NEW c \in Pods \ kmap
               PROVE  now < since[c] + SyncBudget + ScanMax
    BY DEF MissingPodIsVisible, Pods
  <2>1. map.synced /\ now - map.at < SyncBudget
    BY DEF container_map_ready, container_map_stale, Within
  <2>2. ~(since[c] + ScanMax < map.at)
    BY <2>1 DEF IInv, CMInv, MapInv, Holds
  <2>3. now \in Int /\ since[c] \in Int /\ map.at \in Int
    BY DEF IInv, CMInv, TreeType, MapInv, Pods, Resolvable, Never
  <2> QED
    BY <2>1, <2>2, <2>3, ContainerMapAssumption
<1> QED
  BY Invariance, <1>1, PTL

\* A signal hits the process that sat in the record's cgroup when it was looked up,
\* and never the agent or a host process (react, respond.rs).
THEOREM SignalsAreAimed == Spec => []SignalHitsItsTarget
<1>1. IInv => SignalHitsItsTarget
  BY DEF IInv
<1> QED
  BY Invariance, <1>1, PTL

\* A record that called for a reaction is counted once, whatever ended it (react).
THEOREM ReactionsAreCounted == Spec => []EveryReactionCounted
<1>1. IInv => EveryReactionCounted
  BY DEF IInv
<1> QED
  BY Invariance, <1>1, PTL

\* A pod that could be resolved a whole refresh before the agent first saw its id
\* unflagged is never held to be the host's (container_unproven).
THEOREM SettledPodIsKnown == Spec => []SettledPodIsNoHost
<1>1. IInv => SettledPodIsNoHost
  <2> SUFFICES ASSUME IInv, NEW c \in DOMAIN unproven, c \notin index,
                      ProvenAfter(unproven[c].opened), c \in Pods,
                      since[c] + ScanMax <= unproven[c].opened
               PROVE  FALSE
    BY DEF SettledPodIsNoHost, Pods
  <2>1. unproven[c].opened \in Int /\ since[c] \in Int /\ map.at \in Int
        /\ refresher.resolved_at \in Int
    BY DEF IInv, WindowInv, CMInv, TreeType, RefresherType, MapInv, Pods, Resolvable, Never
  <2>2. since[c] + ScanMax < refresher.resolved_at
    BY <2>1, ContainerMapAssumption DEF ProvenAfter, IInv, CMInv, MapInv
  <2> QED
    BY <2>2 DEF IInv, CMInv, MapInv, Holds
<1> QED
  BY Invariance, <1>1, PTL
=============================================================================
