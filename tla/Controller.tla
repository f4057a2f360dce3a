----------------------------- MODULE Controller -----------------------------
(***************************************************************************)
(* The controller (ferrum-controller/src/watch.rs and apply.rs): it        *)
(* compiles and signs each policy object into a Secret, records the        *)
(* outcome in the object's status, and keeps the signed list of waivers in *)
(* every Secret it owns.  One process runs a watch per kind of policy and  *)
(* one for PolicyException objects in one select!: they interleave at      *)
(* every await, and share the set of live waivers.                         *)
(*                                                                         *)
(* A call to the API server is sent in one step and answered in a later    *)
(* one, in which it takes effect; it may fail, and a write whose answer is *)
(* lost may still have landed.  A call under way when the process dies has *)
(* taken effect by then or never does.                                     *)
(*                                                                         *)
(* Abstractions: a bundle is the spec it was compiled from, and so is its  *)
(* digest; a spec compiles or does not.  Each policy has a Secret of its   *)
(* own name, where something else may live: a Secret without the           *)
(* controller's label, or one with no policy label.  (Two policies         *)
(* whose names make one Secret name are not modelled.)                     *)
(* Metrics and health counters are left out, as is the exit they lead to:  *)
(* it is a Restart.  Policies are not deleted (applied_objects hides it),  *)
(* and the API server names every object.                                  *)
(***************************************************************************)
EXTENDS Integers, Sequences, FiniteSets, SequencesExt

CONSTANTS
    Policies,
    Kind,            \* the watch that each policy belongs to
    Good,            \* specs that compile
    Bad,             \* specs that do not
    Waivers,
    Targets,         \* the policies each waiver targets ("other": none here); {} is all
    Preexisting,     \* the waivers there are when the controller first starts
    None,
    MaxGeneration,   \* bound: generations of a policy
    MaxWaiverEdits,  \* bound: changes of PolicyException objects
    MaxFaults,       \* bound: calls that fail, and Secrets deleted or taken by others
    MaxRestarts      \* bound: restarts of the process and of the waiver watch

Specs == Good \cup Bad
Watches == {Kind[p] : p \in Policies}

ASSUME SpecAssumption == Good \cap Bad = {} /\ None \notin Specs
ASSUME PolicyAssumption ==
    /\ IsFiniteSet(Policies)
    /\ None \notin Policies \cup {"other", "unscoped"}
    /\ Policies \cap {"other", "unscoped"} = {}
ASSUME WaiverAssumption ==
    /\ Targets \in [Waivers -> SUBSET (Policies \cup {"other"})]
    /\ Preexisting \subseteq Waivers
    /\ IsFiniteSet(Waivers)
ASSUME ControllerBounds ==
    MaxGeneration # 0 /\ {MaxGeneration, MaxWaiverEdits, MaxFaults, MaxRestarts} \subseteq Nat

VARIABLES
    object,    \* the policy objects: spec, and what status.compile says
    waiver,    \* the PolicyException objects: "absent", "valid" or "rejected"
    secret,    \* the bundle Secret of each policy
    stream,    \* per policy watch: the versions it has yet to deliver
    task,      \* per policy watch: where the handler is, and with what
    xstream,   \* the events that the waiver watch has yet to deliver
    xpc,       \* where its handler is; "start": no event yet
    live,      \* the shared set of live waivers
    staging,   \* the set that a relist is collected in
    todo,      \* the Secrets a publish pass has yet to patch
    relisting, \* history: Init was handled and InitDone was not
    stale,     \* history: Secrets whose last list write failed or was overtaken
    hit,       \* history: policies whose last event failed, or whose Secret went
    gone,      \* history: policies whose Secret was deleted or taken, and not written since
    blind,     \* history: policies whose Secret was taken since their watch looked ...
    xblind,    \* history: ... and since a publish pass listed
    waiverEdits, faults, restarts

apiVars == <<object, waiver, secret, stream, xstream>>
xVars == <<xpc, live, staging, todo, relisting>>
budgets == <<waiverEdits, faults, restarts>>
looks == <<blind, xblind>>
vars == <<apiVars, task, xVars, stale, hit, gone, looks, budgets>>

----------------------------------------------------------------------------
NoSecret == [owner |-> None, spec |-> None, generation |-> 0, list |-> {}]

\* A Secret that is not this policy's: the label says another, or nothing.
Strange(owner) == [NoSecret EXCEPT !.owner = owner]

Idle == [pc |-> "idle", policy |-> None, object |-> None, list |-> {}]

\* What the API server holds of a new policy object.
Fresh(spec) ==
    [generation |-> 1, spec |-> spec, observed |-> 0, ready |-> "no", digest |-> None]

\* exceptions_for_policy.
Scoped(set, p) == {x \in set : Targets[x] = {} \/ p \in Targets[x]}

Valid == {x \in Waivers : waiver[x] = "valid"}

\* What a watch delivers when it lists: every policy object as it is now ...
Listing(w) ==
    SetToSeq({[policy |-> p, object |-> object[p]] : p \in {q \in Policies : Kind[q] = w}})

\* ... and Init, one InitApply per PolicyException object, InitDone.
XListing ==
    LET present == {x \in Waivers : waiver[x] # "absent"}
    IN  <<[type |-> "Init"]>>
        \o SetToSeq({[type |-> "InitApply", waiver |-> x, state |-> waiver[x]] : x \in present})
        \o <<[type |-> "InitDone"]>>

Init ==
    /\ \E spec \in [Policies -> Specs] : object = [p \in Policies |-> Fresh(spec[p])]
    /\ waiver = [x \in Waivers |-> IF x \in Preexisting THEN "valid" ELSE "absent"]
    /\ secret \in [Policies -> {NoSecret, Strange("other"), Strange("unscoped")}]
    /\ stream = [w \in Watches |-> Listing(w)]
    /\ task = [w \in Watches |-> Idle]
    /\ xstream = XListing
    /\ xpc = "start"
    /\ live = {}
    /\ staging = {}
    /\ todo = {}
    /\ relisting = "no"
    /\ stale = {}
    /\ hit = {}
    /\ gone = {}
    /\ blind = {}
    /\ xblind = {}
    /\ waiverEdits = 0 /\ faults = 0 /\ restarts = 0

----------------------------------------------------------------------------
(* Operators. *)

EditPolicy(p, spec) ==
    /\ object[p].generation < MaxGeneration
    /\ spec # object[p].spec
    /\ object' = [object EXCEPT ![p].spec = spec, ![p].generation = @ + 1]
    /\ stream' = [stream EXCEPT ![Kind[p]] = Append(@, [policy |-> p, object |-> object'[p]])]
    /\ UNCHANGED <<gone, looks, waiver, secret, xstream, task, xVars, stale, hit, budgets>>

\* A waiver is created, narrowed to something invalid, or deleted.
EditWaiver(x, state) ==
    /\ waiverEdits < MaxWaiverEdits
    /\ waiverEdits' = waiverEdits + 1
    /\ state # waiver[x]
    /\ waiver' = [waiver EXCEPT ![x] = state]
    /\ xstream' = Append(xstream,
                      IF state = "absent" THEN [type |-> "Delete", waiver |-> x]
                      ELSE [type |-> "Apply", waiver |-> x, state |-> state])
    /\ UNCHANGED <<gone, looks, object, secret, stream, task, xVars, stale, hit, faults, restarts>>

\* Nothing watches Secrets: no event follows.
DeleteSecret(p) ==
    /\ faults < MaxFaults
    /\ faults' = faults + 1
    /\ secret[p] # NoSecret
    /\ secret' = [secret EXCEPT ![p] = NoSecret]
    /\ hit' = hit \cup {p}
    /\ gone' = gone \cup {p}
    /\ stale' = stale \ {p}
    /\ UNCHANGED <<object, waiver, stream, xstream, task, xVars, looks, waiverEdits, restarts>>

\* Somebody else makes a Secret of that name, in place of the policy's if there is one.
TakeSecret(p) ==
    /\ faults < MaxFaults
    /\ faults' = faults + 1
    /\ secret[p].owner \in {p, None}
    /\ secret' = [secret EXCEPT ![p] = Strange("other")]
    /\ hit' = hit \cup {p}
    /\ gone' = gone \cup {p}
    /\ stale' = stale \ {p}
    /\ blind' = blind \cup {p}
    /\ xblind' = xblind \cup {p}
    /\ UNCHANGED <<object, waiver, stream, xstream, task, xVars, waiverEdits, restarts>>

----------------------------------------------------------------------------
(* A policy watch: reconcile_object and reconcile_namespaced_object. *)

Fault == faults < MaxFaults /\ faults' = faults + 1

Calls(w, pc) == task[w].pc = pc

\* The handler returns.
Return(w) == task' = [task EXCEPT ![w] = Idle]

Goto(w, pc) == task' = [task EXCEPT ![w].pc = pc]

\* The handler returns an error: it is counted, and nothing is queued again.
ReturnError(w) ==
    /\ Return(w)
    /\ hit' = hit \cup {task[w].policy}

\* plan_apply: a spec that compiles plans a Secret, any other a status alone,
\* unless failed_status_already_recorded.
Planned(o) ==
    CASE o.spec \in Good -> "get"
      [] o.spec \in Bad /\ o.observed = o.generation /\ o.ready = "no" -> "idle"
      [] OTHER -> "status"

Proceed(w, e) ==
    task' = [task EXCEPT ![w] =
                IF Planned(e.object) = "idle" THEN Idle
                ELSE [pc |-> Planned(e.object), policy |-> e.policy, object |-> e.object,
                      list |-> {}]]

\* The next version of an object: one that says ready is first compared.
Take(w) ==
    /\ Calls(w, "idle")
    /\ stream[w] # <<>>
    /\ LET e == Head(stream[w])
       IN  /\ IF e.object.ready = "yes"
              THEN task' = [task EXCEPT ![w] = [pc |-> "load", policy |-> e.policy,
                                               object |-> e.object, list |-> {}]]
              ELSE Proceed(w, e)
           /\ hit' = hit \ {e.policy}
    /\ stream' = [stream EXCEPT ![w] = Tail(@)]
    /\ UNCHANGED <<gone, looks, object, waiver, secret, xstream, xVars, stale, budgets>>

\* Faulty variant: a bundle of an earlier generation is good enough.
SkipAppliedAnyGeneration(o, s) == o.ready = "yes" /\ s.spec # None /\ s.spec = o.digest

\* should_skip_applied and live_secret_matches.
SkipApplied(o, s) ==
    /\ o.observed = o.generation
    /\ o.ready = "yes"
    /\ s.spec # None
    /\ s.spec = o.digest

\* load_bundle_secret.
Load(w) ==
    /\ Calls(w, "load")
    /\ IF SkipApplied(task[w].object, secret[task[w].policy])
       THEN Return(w) ELSE Proceed(w, task[w])
    /\ UNCHANGED <<gone, looks, apiVars, xVars, stale, hit, budgets>>

\* Faulty variant: whoever owns the Secret.
MayOverwriteAny(s, p) == s # NoSecret

\* ensure_secret_ownership.
MayOverwrite(s, p) == s.owner = p

\* upsert_secret asks for the Secret ...
Get(w) ==
    /\ Calls(w, "get")
    /\ LET p == task[w].policy
       IN  \/ secret[p] = NoSecret /\ Goto(w, "create") /\ UNCHANGED hit
           \/ MayOverwrite(secret[p], p) /\ Goto(w, "patch") /\ UNCHANGED hit
           \/ secret[p] # NoSecret /\ ~MayOverwrite(secret[p], p) /\ ReturnError(w)
    /\ blind' = blind \ {task[w].policy}
    /\ UNCHANGED <<gone, xblind, apiVars, xVars, stale, budgets>>

\* The Secret after a write of the plan.
Written(w, s) ==
    [owner |-> task[w].policy, spec |-> task[w].object.spec,
     generation |-> task[w].object.generation, list |-> s.list]

\* The API server takes a create of a name that is free (else 409) and a patch of a
\* Secret that is there (else 404), whosever it is by now.
Accepts(w) == Calls(w, "create") <=> secret[task[w].policy] = NoSecret

\* ... and creates it, or patches labels, bundle and digest into it (a merge patch
\* with no precondition: the list of waivers stays).
Upsert(w) ==
    /\ Calls(w, "create") \/ Calls(w, "patch")
    /\ LET p == task[w].policy
       IN  IF ~Accepts(w)
           THEN ReturnError(w) /\ UNCHANGED <<secret, gone>>
           ELSE /\ secret' = [secret EXCEPT ![p] = Written(w, @)]
                /\ gone' = gone \ {p}
                /\ Goto(w, "status")
                /\ UNCHANGED hit
    /\ UNCHANGED <<object, waiver, stream, xstream, xVars, stale, looks, budgets>>

\* Faulty variant: the status names the generation the object has by now.
WithStatusCurrent(o, planned) ==
    [o EXCEPT !.observed = o.generation,
              !.ready = IF planned.spec \in Good THEN "yes" ELSE "no",
              !.digest = IF planned.spec \in Good THEN planned.spec ELSE None]

\* The status the plan carries.
WithStatus(o, planned) ==
    [o EXCEPT !.observed = planned.generation,
              !.ready = IF planned.spec \in Good THEN "yes" ELSE "no",
              !.digest = IF planned.spec \in Good THEN planned.spec ELSE None]

\* The status PATCH takes effect; a change of the object is an event.
StatusLands(w) ==
    LET p == task[w].policy
        next == WithStatus(object[p], task[w].object)
    IN  /\ object' = [object EXCEPT ![p] = next]
        /\ stream' = IF next = object[p] THEN stream
                     ELSE [stream EXCEPT ![w] = Append(@, [policy |-> p, object |-> next])]

\* patch_status_dynamic; then attach_exceptions reads the set, with no await
\* between.
PatchStatus(w) ==
    /\ Calls(w, "status")
    /\ StatusLands(w)
    /\ IF task[w].object.spec \in Good
       THEN task' = [task EXCEPT ![w].pc = "attach",
                                 ![w].list = Scoped(live, task[w].policy)]
       ELSE Return(w)
    /\ UNCHANGED <<gone, looks, waiver, secret, xstream, xVars, stale, hit, budgets>>

\* A list reaches a Secret; it may be older than the set is by now.
ListLands(p, list) ==
    /\ secret' = [secret EXCEPT ![p].list = list]
    /\ stale' = IF list = Scoped(live, p) THEN stale \ {p} ELSE stale \cup {p}

\* patch_secret_exceptions of attach_exceptions.
Attach(w) ==
    /\ Calls(w, "attach")
    /\ LET p == task[w].policy
       IN  IF secret[p] = NoSecret
           THEN ReturnError(w) /\ UNCHANGED <<secret, stale>>
           ELSE ListLands(p, task[w].list) /\ Return(w) /\ UNCHANGED hit
    /\ UNCHANGED <<gone, looks, object, waiver, stream, xstream, xVars, budgets>>

\* A call fails without effect; a list that was to be attached never comes.
CallFails(w) ==
    /\ ~Calls(w, "idle")
    /\ Fault
    /\ ReturnError(w)
    /\ stale' = IF task[w].pc \in {"status", "attach"} /\ task[w].object.spec \in Good
                   /\ secret[task[w].policy] # NoSecret
                THEN stale \cup {task[w].policy} ELSE stale
    /\ UNCHANGED <<gone, looks, apiVars, xVars, waiverEdits, restarts>>

\* A write lands and its answer is lost.
AnswerLost(w) ==
    /\ Fault
    /\ ReturnError(w)
    /\ LET p == task[w].policy
       IN  \/ /\ Calls(w, "create") \/ Calls(w, "patch")
              /\ Accepts(w)
              /\ secret' = [secret EXCEPT ![p] = Written(w, @)]
              /\ stale' = IF secret[p].owner = p THEN stale ELSE stale \cup {p}
              /\ gone' = gone \ {p}
              /\ UNCHANGED <<object, stream>>
           \/ /\ Calls(w, "status")
              /\ StatusLands(w)
              /\ stale' = IF task[w].object.spec \in Good /\ secret[p] # NoSecret
                          THEN stale \cup {p} ELSE stale
              /\ UNCHANGED <<secret, gone>>
    /\ UNCHANGED <<waiver, xstream, xVars, looks, waiverEdits, restarts>>

WatchStep(w) ==
    Take(w) \/ Load(w) \/ Get(w) \/ Upsert(w) \/ PatchStatus(w) \/ Attach(w)

----------------------------------------------------------------------------
(* The waiver watch: handle_exception_event. *)

\* apply_exception_object: the set follows the object before its status is
\* patched.
SetAfter(set, e) ==
    IF e.state = "valid" THEN set \cup {e.waiver} ELSE set \ {e.waiver}

\* Faulty variant: what was deleted while the watch was down stays.
RelistedMerges == live \cup staging

\* The set that InitDone puts in place.
Relisted == staging

\* The in-memory set is updated, and then published: always.
XTake ==
    /\ xpc \in {"start", "idle"}
    /\ xstream # <<>>
    /\ xstream' = Tail(xstream)
    /\ LET e == Head(xstream)
       IN  CASE e.type = "Apply" ->
                    live' = SetAfter(live, e) /\ xpc' = "status" /\ UNCHANGED <<staging, relisting>>
             [] e.type = "Delete" ->
                    live' = live \ {e.waiver} /\ xpc' = "list" /\ UNCHANGED <<staging, relisting>>
             [] e.type = "Init" ->
                    staging' = {} /\ relisting' = "yes" /\ xpc' = "list" /\ UNCHANGED live
             [] e.type = "InitApply" ->
                    staging' = SetAfter(staging, e) /\ xpc' = "status" /\ UNCHANGED <<live, relisting>>
             [] e.type = "InitDone" ->
                    live' = Relisted /\ relisting' = "no" /\ xpc' = "list" /\ UNCHANGED staging
    /\ UNCHANGED <<gone, looks, object, waiver, secret, stream, task, todo, stale, hit, budgets>>

\* The status PATCH of the waiver, answered either way.
XStatus ==
    /\ xpc = "status"
    /\ xpc' = "list"
    /\ UNCHANGED <<gone, looks, apiVars, task, live, staging, todo, relisting, stale, hit, budgets>>

\* exception_targets: Secrets with the controller's label, less the unscopable.
ListTargets == {p \in Policies : secret[p].owner = p}

\* persist_exceptions lists the Secrets ...
XList ==
    /\ xpc = "list"
    /\ todo' = ListTargets
    /\ xpc' = IF todo' = {} THEN "idle" ELSE "patch"
    /\ xblind' = {}
    /\ UNCHANGED <<gone, blind, apiVars, task, live, staging, relisting, stale, hit, budgets>>

XPatched(p) ==
    /\ todo' = todo \ {p}
    /\ xpc' = IF todo' = {} THEN "idle" ELSE "patch"
    /\ UNCHANGED <<gone, looks, object, waiver, stream, xstream, task, live, staging, relisting, hit>>

\* ... and patches one after the other; a refusal (a Secret that has gone, too)
\* does not stop the pass.
XPatch(p) ==
    /\ xpc = "patch"
    /\ p \in todo
    /\ IF secret[p] = NoSecret THEN UNCHANGED <<secret, stale>>
                               ELSE ListLands(p, Scoped(live, p))
    /\ XPatched(p)
    /\ UNCHANGED budgets

XPatchFails(p) ==
    /\ xpc = "patch"
    /\ p \in todo
    /\ Fault
    /\ stale' = IF secret[p] = NoSecret THEN stale ELSE stale \cup {p}
    /\ XPatched(p)
    /\ UNCHANGED <<secret, waiverEdits, restarts>>

XListFails ==
    /\ xpc = "list"
    /\ Fault
    /\ xpc' = "idle"
    /\ stale' = stale \cup ListTargets
    /\ UNCHANGED <<gone, looks, apiVars, task, live, staging, todo, relisting, hit, waiverEdits, restarts>>

XStep == XTake \/ XStatus \/ XList \/ \E p \in Policies : XPatch(p)

----------------------------------------------------------------------------
\* The waiver watch lost its place: the events it missed are gone, and it lists
\* again.
Desync ==
    /\ restarts < MaxRestarts
    /\ restarts' = restarts + 1
    /\ xstream' = XListing
    /\ UNCHANGED <<gone, looks, object, waiver, secret, stream, task, xVars, stale, hit, waiverEdits, faults>>

\* The process dies, and a new one lists everything.
Restart ==
    /\ restarts < MaxRestarts
    /\ restarts' = restarts + 1
    /\ stream' = [w \in Watches |-> Listing(w)]
    /\ task' = [w \in Watches |-> Idle]
    /\ xstream' = XListing
    /\ xpc' = "start"
    /\ live' = {}
    /\ staging' = {}
    /\ todo' = {}
    /\ relisting' = "no"
    /\ UNCHANGED <<gone, looks, object, waiver, secret, stale, hit, waiverEdits, faults>>

Environment ==
    \/ \E p \in Policies, spec \in Specs : EditPolicy(p, spec)
    \/ \E x \in Waivers, state \in {"absent", "valid", "rejected"} : EditWaiver(x, state)
    \/ \E p \in Policies : DeleteSecret(p) \/ TakeSecret(p)
    \/ \E w \in Watches : CallFails(w) \/ AnswerLost(w)
    \/ \E p \in Policies : XPatchFails(p)
    \/ XListFails
    \/ Desync
    \/ Restart

Next == (\E w \in Watches : WatchStep(w)) \/ XStep \/ Environment

Spec == Init /\ [][Next]_vars

\* Each watch is polled whenever it can go on: select! is fair, and every call is
\* answered, if only by a timeout.
FairSpec == Spec /\ (\A w \in Watches : WF_vars(WatchStep(w))) /\ WF_vars(XStep)

----------------------------------------------------------------------------
\* The types of the objects, of the handlers' state and of the shared set.
TypeOK ==
    /\ object \in [Policies -> [generation : 1 .. MaxGeneration, spec : Specs,
                                observed : 0 .. MaxGeneration, ready : {"no", "yes"},
                                digest : Good \cup {None}]]
    /\ waiver \in [Waivers -> {"absent", "valid", "rejected"}]
    /\ \A p \in Policies :
          /\ secret[p].owner \in {p, None, "other", "unscoped"}
          /\ secret[p].spec \in Good \cup {None}
          /\ secret[p].list \subseteq Waivers
          /\ secret[p].generation = 0 <=> secret[p].owner # p
    /\ \A w \in Watches :
          /\ task[w].pc \in {"idle", "load", "get", "create", "patch", "status", "attach"}
          /\ task[w].pc = "idle" <=> task[w].policy = None
    /\ xpc \in {"start", "idle", "status", "list", "patch"}
    /\ xpc = "patch" <=> todo # {}
    /\ {live, staging} \subseteq SUBSET Waivers
    /\ UNION {todo, stale, hit, gone, blind, xblind} \subseteq Policies

\* A status that says ready for a generation is backed by a Secret of this
\* policy with that generation's bundle or a later one: the Secret is written
\* first, whatever fails and however edits overtake the handler.
ReadyIsBacked ==
    \A p \in Policies : object[p].ready = "yes" /\ p \notin gone =>
        secret[p].owner = p /\ secret[p].generation >= object[p].observed

\* A Secret that another owner holds under the policy's name, or one without a
\* policy label, is written only by a writer that had it for the policy's own when
\* it last looked: upsert_secret looks and patches, attach_exceptions patches what
\* upsert_secret wrote, persist_exceptions lists and patches, none of them with a
\* precondition.  Outside those windows, and by a create, it is left alone.
OthersUntouched ==
    [][\A p \in Policies :
          secret[p].owner \in {"other", "unscoped"} /\ secret'[p] \notin {secret[p], NoSecret} =>
              \/ p \in blind /\ task[Kind[p]].policy = p /\ task[Kind[p]].pc \in {"patch", "attach"}
              \/ p \in xblind /\ p \in todo \ todo']_<<secret, todo>>

\* When the waiver watch has handled all its events, the shared set is exactly
\* the valid objects: through relists, and deletions that a relist only implies.
SetFollowsObjects == xpc = "idle" /\ xstream = <<>> => live = Valid

\* The policy watch is about to give this Secret its first list.
Attaching(p) == task[Kind[p]].policy = p /\ task[Kind[p]].pc \in {"status", "attach"}

\* Between two events every Secret carries the waivers of the set that target
\* its policy, no more and no less, unless a write of the list failed or
\* attach_exceptions wrote an older one over it: the only window there is.
ListsFollowSet ==
    xpc = "idle" => \A p \in Policies :
        secret[p].owner = p /\ p \notin stale /\ ~Attaching(p) =>
            secret[p].list = {x \in live : Targets[x] = {} \/ p \in Targets[x]}

\* What the cluster is told, the status, the set and the lists, is so.
PublishedIsTrue ==
    /\ TypeOK
    /\ ReadyIsBacked
    /\ SetFollowsObjects
    /\ ListsFollowSet

\* A policy that compiles and stays is published and said to be ready, unless its
\* last event failed (nothing queues it again) or its Secret was deleted or taken.
PolicyIsPublished ==
    \A p \in Policies :
        <>[](object[p].spec \in Good /\ p \notin hit) =>
            <>[](/\ secret[p].owner = p
                 /\ secret[p].spec = object[p].spec
                 /\ object[p].ready = "yes"
                 /\ object[p].observed = object[p].generation)

\* A waiver that is revoked for good leaves every Secret of a policy, with the
\* exceptions of ListsFollowSet.
RevokedIsWithdrawn ==
    \A x \in Waivers, p \in Policies :
        <>[](waiver[x] # "valid") => <>[](secret[p].owner = p /\ x \in secret[p].list => p \in stale)

----------------------------------------------------------------------------
(* What the comments say, and the code does not do. *)

\* "a relist in progress never publishes a partial set - that would be a mass
\* revocation of exceptions that are still in force" (handle_exception_event).
RelistRevokesNothing ==
    [][relisting = "yes" /\ xpc = "patch" /\ task' = task =>
          \A p \in Policies : secret'[p] = NoSecret
              \/ secret[p].list \cap Valid \subseteq secret'[p].list]_secret
=============================================================================
