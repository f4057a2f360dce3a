------------------------------ MODULE Admission ------------------------------
(***************************************************************************)
(* The webhook process: policy state, break-glass (BreakGlass) and serving *)
(* certificate (ServingCert) polled by the threads of one process, and     *)
(* reviews (AdmissionRules) that read what they hold.                      *)
(* ferrum-admission/src/main.rs, cmd_serve, and server.rs, handle, with    *)
(* the mounts of bundle.rs.                                                *)
(*                                                                         *)
(* Two pollers reload the program and the waivers from two mounts; each    *)
(* remembers the stamp of the mount before it reads.  A review runs in a   *)
(* thread of its own and reads the program and the waivers under two locks,*)
(* one after the other.                                                    *)
(*                                                                         *)
(* Abstracted: what a mount holds is the name of a verified program or     *)
(* waiver list, "bad" when verification or parsing refuses it, "absent" or *)
(* "unreadable"; a stamp is the number of the rotation.                    *)
(*                                                                         *)
(* The flags of the process decide which of the three optional threads     *)
(* exist: waivers (--exceptions), break-glass and tls; --cluster-label is  *)
(* not given.  At most MaxMoves moves of the environment (rotations,       *)
(* clock, faults, crashes) happen in a behaviour.                          *)
(***************************************************************************)
EXTENDS AdmissionRules, ServingCert

CONSTANTS
  Program,            \* programs a signed bundle can carry
  WaiverList,         \* lists a signed exceptions.fsig can carry
  NoWaivers,          \* the empty list
  ProgramText, WaiverText, BodyText,   \* what their names stand for
  Labels,                              \* the labels a label cache holds once it has listed
  PolicyName,                          \* --policy-name
  Configurations,                      \* sets of optional features given by the flags
  StartTime,                           \* what the clock says at first
  MaxMoves                             \* bound on moves of the environment

ASSUME AdmissionAssumption ==
  /\ MaxMoves \in Nat /\ StartTime \in 0..MaxTime
  /\ Configurations \subseteq SUBSET {"requests", "bundle", "exceptions", "break-glass", "tls"}

VARIABLES
  bundle,       \* the bundle mount: [holds, stamp]
  waiverMount,  \* the exceptions mount: [holds, stamp]
  program,      \* WebhookState.program
  digest,       \* WebhookState.bundle_digest: {} or {p}
  exceptions,   \* WebhookState.exceptions
  bundleStat,   \* poll_loop's remembered stamp: {} or {MountStat}
  waiverStat,   \* poll_exceptions_loop's
  bundlePoll,   \* reload in progress: [pc, got]
  waiverPoll,
  missed,       \* history: bundle stamps whose read failed
  review        \* the review in flight: [pc, program, exceptions]

whVars == <<bundle, waiverMount, program, digest, exceptions, bundleStat, waiverStat,
            bundlePoll, waiverPoll, missed, review>>

NoPoll == [pc |-> "idle", got |-> "none"]
NoReview == [pc |-> "idle", program |-> "none", exceptions |-> NoWaivers]

-----------------------------------------------------------------------------
\* The process starts only on a bundle it can verify; a bad exceptions file is an
\* empty list.
WaiversFrom(holds) == IF holds \in WaiverList THEN holds ELSE NoWaivers

WebhookInit ==
  /\ \E p \in Program : bundle = [holds |-> p, stamp |-> 0] /\ program = p
  /\ \E w \in WaiverList \cup {"absent"} :
       waiverMount = [holds |-> w, stamp |-> 0] /\ exceptions = WaiversFrom(w)
  /\ digest = {} /\ bundleStat = {} /\ waiverStat = {}
  /\ bundlePoll = NoPoll /\ waiverPoll = NoPoll /\ missed = {}
  /\ review = NoReview

WebhookStart ==
  /\ bundle.holds \in Program /\ program' = bundle.holds
  /\ exceptions' = WaiversFrom(waiverMount.holds)
  /\ digest' = {} /\ bundleStat' = {} /\ waiverStat' = {}
  /\ bundlePoll' = NoPoll /\ waiverPoll' = NoPoll /\ review' = NoReview
  /\ UNCHANGED <<bundle, waiverMount, missed>>

-----------------------------------------------------------------------------
(* The bundle poller.                                                      *)

\* A stat that differs from the remembered one is remembered before the reload.
\* An absent or unreadable mount keeps the last-known-good program.
source_stat == IF bundle.holds \in {"absent", "unreadable"} THEN bundle.holds
               ELSE "present"

\* Faulty variant: the stat tells only that something is mounted.
BundlePollByPresence ==
  /\ bundlePoll.pc = "idle"
  /\ bundleStat # {<<source_stat, 0>>}
  /\ bundleStat' = {<<source_stat, 0>>}
  /\ bundlePoll' = [NoPoll EXCEPT !.pc = IF source_stat = "present" THEN "read" ELSE "idle"]
  /\ UNCHANGED <<bundle, waiverMount, program, digest, exceptions, waiverStat, waiverPoll,
                 missed, review>>

BundlePoll ==
  /\ bundlePoll.pc = "idle"
  /\ bundleStat # {<<source_stat, bundle.stamp>>}
  /\ bundleStat' = {<<source_stat, bundle.stamp>>}
  /\ bundlePoll' = [NoPoll EXCEPT !.pc = IF source_stat = "present" THEN "read" ELSE "idle"]
  /\ UNCHANGED <<bundle, waiverMount, program, digest, exceptions, waiverStat, waiverPoll,
                 missed, review>>

\* try_reload_path: read and verify what the mount holds now.
ReadBundle ==
  /\ bundlePoll.pc = "read"
  /\ bundlePoll' = IF bundle.holds \in Program
                   THEN [pc |-> "install", got |-> bundle.holds] ELSE NoPoll
  /\ UNCHANGED <<bundle, waiverMount, program, digest, exceptions, bundleStat, waiverStat,
                 waiverPoll, missed, review>>

BundleReadFails ==
  /\ bundlePoll.pc = "read"
  /\ bundlePoll' = NoPoll
  /\ missed' = missed \cup {s[2] : s \in bundleStat}
  /\ UNCHANGED <<bundle, waiverMount, program, digest, exceptions, bundleStat, waiverStat,
                 waiverPoll, review>>

\* try_reload_with_digest: the program, then its digest, under two locks.
InstallProgram ==
  /\ bundlePoll.pc = "install"
  /\ program' = bundlePoll.got
  /\ bundlePoll' = [bundlePoll EXCEPT !.pc = "digest"]
  /\ UNCHANGED <<bundle, waiverMount, digest, exceptions, bundleStat, waiverStat, waiverPoll,
                 missed, review>>

InstallDigest ==
  /\ bundlePoll.pc = "digest"
  /\ digest' = {bundlePoll.got}
  /\ bundlePoll' = NoPoll
  /\ UNCHANGED <<bundle, waiverMount, program, exceptions, bundleStat, waiverStat, waiverPoll,
                 missed, review>>

-----------------------------------------------------------------------------
(* The waiver poller: anything but a list that verifies empties the table. *)

stat_one == IF waiverMount.holds \in {"absent", "unreadable"} THEN waiverMount.holds
            ELSE "present"

\* A list that does not verify or parse is reset to the empty one.
try_reload_exceptions(holds) == IF holds \in WaiverList THEN holds ELSE NoWaivers

WaiverPoll ==
  /\ waiverPoll.pc = "idle"
  /\ waiverStat # {<<stat_one, waiverMount.stamp>>}
  /\ waiverStat' = {<<stat_one, waiverMount.stamp>>}
  /\ IF stat_one = "absent" THEN exceptions' = NoWaivers /\ UNCHANGED waiverPoll
     ELSE waiverPoll' = [NoPoll EXCEPT !.pc = "read"] /\ UNCHANGED exceptions
  /\ UNCHANGED <<bundle, waiverMount, program, digest, bundleStat, bundlePoll, missed, review>>

\* try_reload_exceptions_path, a failing read included.
ReadWaivers(fails) ==
  /\ waiverPoll.pc = "read"
  /\ waiverPoll' = NoPoll
  /\ exceptions' = IF fails THEN NoWaivers ELSE try_reload_exceptions(waiverMount.holds)
  /\ UNCHANGED <<bundle, waiverMount, program, digest, bundleStat, waiverStat, bundlePoll,
                 missed, review>>

BundleStep == BundlePoll \/ ReadBundle \/ InstallProgram \/ InstallDigest
WaiverStep == WaiverPoll \/ ReadWaivers(FALSE)

-----------------------------------------------------------------------------
(* One review: handle reads the program, then the waivers.                 *)

\* A request arrives; the first thing its thread does with shared state is to read
\* the program.
ReadProgram ==
  /\ review.pc = "idle"
  /\ review' = [NoReview EXCEPT !.pc = "exceptions", !.program = program]
  /\ UNCHANGED <<bundle, waiverMount, program, digest, exceptions, bundleStat, waiverStat,
                 bundlePoll, waiverPoll, missed>>

ReadExceptions ==
  /\ review.pc = "exceptions"
  /\ review' = [review EXCEPT !.pc = "decide", !.exceptions = exceptions]
  /\ UNCHANGED <<bundle, waiverMount, program, digest, exceptions, bundleStat, waiverStat,
                 bundlePoll, waiverPoll, missed>>

-----------------------------------------------------------------------------
(* The environment.                                                        *)

RotateBundle ==
  /\ \E h \in Program \cup {"bad", "absent", "unreadable"} :
       h # bundle.holds /\ bundle' = [holds |-> h, stamp |-> bundle.stamp + 1]
  /\ UNCHANGED <<waiverMount, program, digest, exceptions, bundleStat, waiverStat, bundlePoll,
                 waiverPoll, missed, review>>

RotateWaivers ==
  /\ \E h \in WaiverList \cup {"bad", "absent", "unreadable"} :
       h # waiverMount.holds /\ waiverMount' = [holds |-> h, stamp |-> waiverMount.stamp + 1]
  /\ UNCHANGED <<bundle, program, digest, exceptions, bundleStat, waiverStat, bundlePoll,
                 waiverPoll, missed, review>>

-----------------------------------------------------------------------------
(* The process.                                                            *)

VARIABLES
  flags,    \* the features this process was started with; "bundle" when its
            \* bundle is edited, "requests" when the API server calls it
  moves     \* moves of the environment so far

vars == <<clock, bgVars, tlsVars, whVars, flags, moves>>
fixed == <<flags, moves>>

\* labels.rs: the states of a label cache, from the worst to the best.
LabelWarmth == {"Cold", "RelistPending", "Stale", "Warm"}
warmth_rank == [Cold |-> 0, RelistPending |-> 1, Stale |-> 2, Warm |-> 3]
worse_of(a, b) == IF warmth_rank[a] <= warmth_rank[b] THEN a ELSE b

\* What a cache answers: nothing before its first list, and from then on what it
\* holds, whether or not that is known to be behind.
cache_labels(warmth, held) == IF warmth = "Cold" THEN [k \in DOMAIN held |-> {}] ELSE held

\* Without --apiserver nothing is known and nothing ever will be.
StaticLabels ==
  [warm |-> FALSE, cluster |-> {},
   namespace |-> cache_labels("Cold", Labels.namespace),
   service_account |-> cache_labels("Cold", Labels.service_account)]

\* With it there are two caches, and the source is as warm as the worse of them.
WatchedLabels(namespaces, accounts) ==
  [warm |-> worse_of(namespaces, accounts) = "Warm", cluster |-> {},
   namespace |-> cache_labels(namespaces, Labels.namespace),
   service_account |-> cache_labels(accounts, Labels.service_account)]

label_source == {StaticLabels} \cup {WatchedLabels(n, a) : n \in LabelWarmth, a \in LabelWarmth}

ReviewConfig(labels) ==
  [policy_name |-> PolicyName, policy_namespace |-> "", labels |-> labels]

Init ==
  /\ clock = StartTime /\ moves = 0
  /\ flags \in Configurations
  /\ BreakGlassInit /\ ServingCertInit /\ WebhookInit
  /\ "tls" \in flags \/ served = CHOOSE p \in Pair : Usable(p, StartTime)
  /\ "exceptions" \in flags \/ waiverMount.holds = "absent"

\* handle: the grant is looked up after program and waivers, at the time the
\* decision is made for.
GrantInForce(now) == {g \in active : covers(g, now)}

\* What handle answers to a body, given a source of labels.
AnswerTo(body, labels) ==
  handle_with(ReviewConfig(labels), BodyText[body], {ProgramText[review.program]},
              WaiverText[review.exceptions],
              {[expires_at |-> ExpiresAt[g]] : g \in GrantInForce(clock)}, clock)

\* The listener accepts once the first break-glass poll is over.
Serve ==
  /\ proc = "up" /\ "requests" \in flags
  /\ ReadProgram \/ ReadExceptions
  /\ UNCHANGED <<clock, bgVars, tlsVars, fixed>>

\* The decision is made and sent; the state keeps counters only.
Decide ==
  /\ proc = "up" /\ review.pc = "decide"
  /\ review' = NoReview
  /\ UNCHANGED <<clock, bgVars, tlsVars, bundle, waiverMount, program, digest, exceptions,
                 bundleStat, waiverStat, bundlePoll, waiverPoll, missed, fixed>>

BreakGlassStep ==
  /\ PollerStep
  /\ "break-glass" \in flags \/ proc = "starting"
  /\ UNCHANGED <<tlsVars, whVars, fixed>>
ReloadStep ==
  /\ proc \in {"starting", "up"}
  /\ BundleStep \/ ("exceptions" \in flags /\ WaiverStep)
  /\ UNCHANGED <<clock, bgVars, tlsVars, fixed>>
CertStep ==
  /\ proc \in {"starting", "up"} /\ "tls" \in flags /\ TlsStep
  /\ UNCHANGED <<bgVars, whVars, fixed>>

\* cmd_serve: bundle, certificate and journal must all load, or the process exits
\* and is started again.
Start ==
  /\ Arm /\ TlsLoad /\ WebhookStart
  /\ UNCHANGED <<fixed>>

Environment ==
  /\ moves < MaxMoves /\ moves' = moves + 1 /\ UNCHANGED flags
  /\ \/ SetClock /\ UNCHANGED <<bgVars, tlsVars, whVars>>
     \/ /\ "break-glass" \in flags /\ (RotateGrant \/ RecordFails)
        /\ UNCHANGED <<tlsVars, whVars>>
     \/ /\ "tls" \in flags /\ (RotatePair \/ TlsReadFails)
        /\ UNCHANGED <<bgVars, whVars>>
     \/ /\ "exceptions" \in flags /\ (RotateWaivers \/ ReadWaivers(TRUE))
        /\ UNCHANGED <<clock, bgVars, tlsVars>>
     \/ /\ "bundle" \in flags /\ (RotateBundle \/ BundleReadFails)
        /\ UNCHANGED <<clock, bgVars, tlsVars>>
     \/ /\ Crash /\ review' = NoReview
        /\ UNCHANGED <<tlsVars, bundle, waiverMount, program, digest, exceptions, bundleStat,
                       waiverStat, bundlePoll, waiverPoll, missed>>

Next == Serve \/ Decide \/ BreakGlassStep \/ ReloadStep \/ CertStep \/ Start
        \/ Environment

\* Each poller is a thread that sleeps and runs again; the kubelet restarts the
\* process.  Nothing is assumed of requests or of the environment.
Fairness == WF_vars(BreakGlassStep) /\ WF_vars(ReloadStep) /\ WF_vars(CertStep) /\ WF_vars(Start)

Spec == Init /\ [][Next]_vars /\ Fairness

-----------------------------------------------------------------------------
(* Properties.                                                             *)

Up == proc = "up"

\* A waiver of the list counts for this policy at this time.
Waived(rule) ==
  \E w \in WaiverText[review.exceptions] : exception_applies(w, "", PolicyName, rule, clock)

\* review.rs and eval.rs: an object that breaks a rule of an enforcing policy is
\* let in only under a waiver that is live and approved for that very rule, or
\* under a grant whose window is open and whose activation is on durable record.
\* BodyText[b].breaks says, per program, which rules the object breaks; it is
\* written down beside the object and not computed by the rules of the model.
AdmittedIsJustified ==
  (Up /\ review.pc = "decide") =>
    \A b \in DOMAIN BodyText : \A labels \in label_source :
      LET answer == AnswerTo(b, labels) IN
      answer.allowed =>
        \/ /\ answer.why = "break-glass"
           /\ \E g \in active : g \in Recorded /\ covers(g, clock)
        \/ /\ answer.why = "policy"
           /\ \A rule \in BodyText[b].breaks[review.program] : Waived(rule)

\* The policy is in force for this subject.
Enforces(prog, subject) ==
  prog.mode = "Enforce" /\ ~prog.disabled /\ program_applies(prog, subject) # "no"

\* What is written down beside an object is found in it by the rules, under a policy in
\* force for it: what a theorem about AdmittedIsJustified needs to know of an instance.
BreaksAreHits ==
  (Up /\ review.pc = "decide") =>
    \A b \in DOMAIN BodyText : \A labels \in label_source :
      LET prog == ProgramText[review.program]
          subject == subject_of(ReviewConfig(labels), BodyText[b], prog)
      IN  AnswerTo(b, labels).why = "policy" =>
            \A rule \in BodyText[b].breaks[review.program] :
              Enforces(prog, subject) /\ rule \in collect_hits(prog, subject)

\* server.rs, poll_loop: a bundle that stays mounted and verifies is enforced in the
\* end, unless a read of exactly that rotation failed: its stamp was remembered
\* first, so nothing retries it.
GoodBundleIsEnforced ==
  \A p \in Program :
    (Up /\ bundle.holds = p) ~> (program = p \/ bundle.holds # p \/ bundle.stamp \in missed \/ ~Up)

\* server.rs, poll_exceptions_loop: a waiver list that left the mount, is unreadable
\* or does not verify leaves the table, even when reads fail.
WithdrawnListIsDropped ==
  \A w \in WaiverList \ {NoWaivers} :
    (Up /\ exceptions = w /\ waiverMount.holds # w)
      ~> (exceptions # w \/ waiverMount.holds = w \/ ~Up)

\* A suspension or a waiver whose signed source is gone is over.
WithdrawnEnds == WithdrawnGrantEnds /\ WithdrawnListIsDropped

\* serving_cert.rs, poll_loop: a pair that stays mounted, that reload has no reason
\* to refuse and that no failing read kept out is the one served in the end.
GoodPairIsServed ==
  \A p \in Pair :
    (Up /\ tlsMount.cert = p /\ tlsMount.key = p /\ ~expires_within_days(p, MaxTime))
      ~> \/ served = p \/ ~Up
         \/ tlsMount.cert # p \/ tlsMount.key # p
         \/ ~Replaces(p, p)
         \/ tlsMount.stamp \in tlsMissed

=============================================================================
