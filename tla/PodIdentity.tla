---------------------------- MODULE PodIdentity -----------------------------
(***************************************************************************)
(* The identity of a container (ferrum-k8smeta/src/resolver.rs, index.rs): *)
(* a thread scans the cgroup tree, takes a snapshot of the pod cache with  *)
(* the labels of the namespace cache joined in, and replaces the index     *)
(* that every enforcement decision reads.  The watches go on meanwhile.    *)
(*                                                                         *)
(* Each pod has one container, whose cgroup directory comes and goes       *)
(* independently of the pod object.  The scan and the snapshot are two     *)
(* moments of a refresh; nothing else reads the directories, so one that   *)
(* moves between the two is one that moves after both, and the refresh is  *)
(* one step.  A refresh that fails changes nothing and has no step.  The   *)
(* labels of service accounts are joined in as those of namespaces are,    *)
(* and are left out.                                                       *)
(***************************************************************************)
EXTENDS WatchCache

CONSTANTS
    NamespaceOf,   \* the namespace of each pod
    Starting,      \* a pod whose status does not name its container yet
    Unobserved,    \* labels that are not known
    MaxDirMoves    \* bound: directories that appear or vanish

Pods == Objects["pods"]

ASSUME IdentityAssumption ==
    /\ Streams = {"pods", "namespaces"}
    /\ NamespaceOf \in [Pods -> Objects["namespaces"]]
    /\ Unobserved \notin Values["namespaces"] \cup {Absent}
ASSUME IdentityBounds == MaxDirMoves \in Nat

VARIABLES
    dirs,      \* pods whose container has a cgroup directory
    index,     \* identity of each container in the index, or Absent
    dirMoves

vars == <<watchVars, dirs, index, dirMoves>>
identityVars == <<dirs, index, dirMoves>>

----------------------------------------------------------------------------
\* Faulty variant: whatever the cache still holds counts as observed.
LabelsEvenIfCold(p) ==
    LET held == cache["namespaces"][NamespaceOf[p]]
    IN  IF held # Absent THEN held ELSE Unobserved

\* snapshot: labels are observed from a warm cache that has the namespace.
Labels(p) ==
    LET held == cache["namespaces"][NamespaceOf[p]]
    IN  IF Warm("namespaces") /\ held # Absent THEN held ELSE Unobserved

\* apply: a scanned directory, a known pod and a container it reports.
Joined(p) ==
    LET pod == cache["pods"][p]
    IN  IF p \in dirs /\ pod \notin {Absent, Starting}
          THEN [pod |-> pod, labels |-> Labels(p)]
          ELSE Absent

Init ==
    /\ WatchInit
    /\ dirs \in SUBSET Pods
    /\ index = [p \in Pods |-> Absent]
    /\ dirMoves = 0

\* The runtime makes or removes the cgroup of a container.
MoveDir ==
    /\ dirMoves < MaxDirMoves
    /\ dirMoves' = dirMoves + 1
    /\ \E p \in Pods : dirs' = IF p \in dirs THEN dirs \ {p} ELSE dirs \cup {p}
    /\ UNCHANGED <<watchVars, index>>

\* refresh: the index is replaced.  A snapshot of a cache that is not warm is
\* an error, and keeps the index.
Refresh ==
    /\ Warm("pods")
    /\ index' = [p \in Pods |-> Joined(p)]
    /\ UNCHANGED <<watchVars, dirs, dirMoves>>

Next ==
    \/ \E w \in Streams : WatchStep(w) /\ UNCHANGED identityVars
    \/ MoveDir \/ Refresh

\* Each watch thread and the refresher run; the server sends what a watch
\* asked for, a bookmark if nothing else, and its answers to lists catch up;
\* the hold-down passes.
Fairness ==
    /\ \A w \in Streams :
          /\ WF_vars(ThreadStep(w) /\ UNCHANGED identityVars)
          /\ SF_vars(RelistAt(w, Len(log[w])) /\ UNCHANGED identityVars)
          /\ WF_vars(HolddownPasses(w) /\ UNCHANGED identityVars)
    /\ WF_vars(Refresh)

Spec == Init /\ [][Next]_vars /\ Fairness

----------------------------------------------------------------------------
TypeOK ==
    /\ WatchTypeOK
    /\ dirs \subseteq Pods
    /\ dirMoves \in 0..MaxDirMoves
    /\ index \in [Pods -> {Absent} \cup
                     [pod : Values["pods"] \ {Foreign, Starting},
                      labels : (Values["namespaces"] \ {TooBig}) \cup {Unobserved}]]

\* An identity enters the index only as the API server had it: the pod as it
\* was at the version of the pod cache, and labels that are either those its
\* namespace had at the version of the label cache or said to be unobserved,
\* never labels known to be behind (PodCache::snapshot asks for warmth and not
\* only for an entry).
IdentityWasTrue ==
    [][\A p \in Pods :
          index'[p] # index[p] /\ index'[p] # Absent =>
             /\ index'[p].pod = StateAt("pods", rv["pods"])[p]
             /\ \/ index'[p].labels = Unobserved
                \/ index'[p].labels = StateAt("namespaces", rv["namespaces"])[NamespaceOf[p]]
                \/ "namespaces" \in refused]_vars

\* The index says of p what is so now; of its labels, if they can be held.
Settled(p) ==
    LET pod == Now("pods")[p]
        labels == Now("namespaces")[NamespaceOf[p]]
    IN  IF p \notin dirs \/ pod \in {Absent, Starting, Foreign}
          THEN index[p] = Absent
          ELSE /\ index[p] # Absent
               /\ index[p].pod = pod
               /\ Fits("namespaces", Now("namespaces")) =>
                     index[p].labels = IF labels = Absent THEN Unobserved ELSE labels

\* Whatever failed on the way, once it stops the index comes to name exactly
\* the containers there are, with the pod and the labels they have now: no
\* deleted pod stays, no relist owed is forgotten, no stream waits for a frame
\* that never comes (relist_if_due on every frame).
IndexConverges == <>[](\A p \in Pods : Settled(p))

=============================================================================
