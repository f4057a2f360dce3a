# Ferrum: TLA+ models, model checking and proofs

Ferrum enforces signed runtime policy on Kubernetes nodes. A **controller** compiles and signs policy
objects into Secrets; on each node an **agent** verifies them, publishes the part the kernel can decide
into BPF maps, decides the rest in user space, reacts and exports what it decided; an **admission webhook**
applies the same bundles to API requests; a **CLI** signs, verifies and lints. This directory models the
parts whose correctness depends on interleavings, failures, crashes and clocks, and the parts that two or
more programs must compute alike.

Paths below are relative to `src/crates/`. Every definition that stands for code is listed with its lines
under `map` in `PROJECT.json`; definitions keep the names of the functions they model where TLA+ allows it.

## 1. Inventory

| component | state it keeps | operations | what is hard | what makes it correct |
|---|---|---|---|---|
| agent, kernel publish (`ferrum-agent/src/lib.rs` 48-167, 1366-1450; `ferrum-ebpf/src/kernel.rs`) | `ferrum_rules` (slots), `ferrum_selected` (cgroup ids), digest published, unsynced reason | republish: retire rules, move pods, write rules; clear after a failure | dozens of separate map writes, each may fail; the pod index moves at any time | no exec refused outside the selected pods; never two policies in the map; the status tells the truth; convergence |
| agent, policy mount and last-known-good (`lib.rs` 2207-2377, 2914-3022, `source.rs`; `ferrum-ebpf/src/loader.rs`) | last good bundle, degraded reasons, poll stamps, snapshots behind `..data` | restore, stat, read, verify, install, persist, clean up | rotation between stat and read; crash between two file operations; failed persist | the snapshot is whole; a healthy node is durable; a restart never goes back; a stable bundle is taken |
| agent, clock floor and waivers (`clock.rs`, `lib.rs` 2152-2205, 2951-2970; `ferrum-policy/src/eval.rs`) | monotonic floor, file `observed-time`, waiver table | reading, flush, signed anchor, boot, reload | the wall clock may be moved to anything; flushes fail | an expired waiver stays expired; no floor in the future; the table follows the Secret, also when the key is gone or unreadable |
| agent, record pipeline and export queue (`main.rs` 524-645, `ring.rs`, `pump.rs`; `ferrum-export/src/queue.rs`) | kernel ring, channel, `RwLock<Agent>`, bounded queue, loss totals | drain, send, decide, emit, write, close | three threads, bounded buffers and a lock that prefers writers; threads that die | no record unaccounted for; no deadlock; losses reported |
| agent, container map and response (`lib.rs` handle_event, react; `respond.rs`; `main.rs` spawn_cgroup_refresh) | `ferrum_cgroups`, index, proofs and their windows, reaction counters | scan, join, carry, judge, look up, signal | stalled scans, a channel of one, ids and pids used again | a container is flagged or the node says so; a signal goes to its target; every reaction counted |
| agent, status (`status.rs`, `metrics.rs`, `degraded_reasons_at`) | what every reason reads, last status written | mark, tick, commit, scrape | written outside the lock; the write and its failure are news | status settles on the state |
| controller, reconcile (`ferrum-controller/src/watch.rs`, `apply.rs`, `lib.rs`) | policy objects and status, bundle Secrets, live waivers, relist staging | two policy watches, one waiver watch | handlers interleave at every await; calls fail, or land and lose their answer; restarts | ready is backed by a Secret; a foreign Secret is left alone by whoever sees that it is foreign; lists follow the waivers |
| controller, health (`health.rs`) | failure runs per class, changed flag, status file | note success or failure, terminal exit, publish | several classes in one process | a dead class is not hidden, a live one not ended; the file settles |
| pod identity (`ferrum-k8smeta`) | pod cache, label caches, relist debt and warmth, cgroup index | watch frames, relist, reconnect, refresh | unreadable frames, 410, stale lists, refused labels | a warm cache has no hole; an identity is what the API server had; the index converges |
| admission webhook (`ferrum-admission`) | program, exceptions, label caches | review, two pollers | reload against a review that reads under two locks | what is admitted is justified; a mounted bundle is enforced; a withdrawn list is dropped |
| serving certificate (`serving_cert.rs`) | pair in use, stamps | poll, two reads, swap, roll back | the pair rotates between the reads | a good pair is served in the end, a bad one never replaces it |
| break-glass (`ferrum-breakglass`, `ferrum-admission/src/break_glass.rs`) | hash-chained journal, grant in force | poll, record, lift | journal first, then effect; fsync fails after the write | no suspension without a durable record; a withdrawn grant ends |
| sinks (`ferrum-export/src/file.rs`, `fanout.rs`; `ferrum-siem`) | files, torn flag; connection, quiet period | write, rotate, fan out, reconnect | crash mid-line, a rotation cut short, a peer that comes and goes | records never glue within a process, and across one only behind a torn line it died with; the oldest go first; one quiet period per outage |
| policy path (`ferrum-policy`, `ferrum-compiler`, `ferrum-crypto`, `ferrum-ebpf`, `ferrum-ebpf-progs`, the envelope readers) | none across calls | validate, encode, sign, read, decode, match three times | one format in four hands, one decision in three | only signed bytes load; planes agree; matchers agree as far as they read the same; nothing under-enforced but what is said |
| install (`ferrum-cli/src/lint_deploy.rs`, the three `main.rs`, `ferrum-ebpf/src/kernel.rs` attach, `btf.rs`) | hooks, pins, processes | lint, start, attach, pin | the lint, kubelet and the programs read one field three ways; attach fails half-way | a linted Pod starts and enforces; the agent says the truth about its hooks |
| metrics library, WASM, test kit, API types | none | I/O and data | | their unit tests |

How they interact: the controller's Secret (`Controller`, with the bytes of `Envelope`) reaches agent and
webhook as a kubelet volume (`LkgStore`, `Waivers`, `Admission`); the poller installs policy under the agent's
write guard, the ring thread publishes it under a read guard (`LkgStore`'s `mem` is `KernelPublish`'s
`digest`); the refresher feeds the index that `KernelPublish`, `ContainerMap` and `Reaction` read without a
common lock; the pump decides under a read guard and hands events to `ExportQueue`, whose writer calls
`Fanout`. The hazards, each at its line with the properties that would catch it, are in `PROJECT.json`.

## 2. Modules

| module | models | composed in |
|---|---|---|
| `KernelPublish` | one republish of the two kernel maps, map entry by map entry | `KernelPublishProofs` |
| `LkgStore` | startup, poll tick, install and persist, file operation by file operation | `LkgStoreProofs` |
| `Waivers` | the monotonic floor and its file; the waiver table over it | `WaiversProofs` |
| `ExportQueue`, `Pipeline` | `QueueSink`; ring, channel, pump, poller and the lock over it | `PipelineProofs` |
| `Controller` | both policy watches, the waiver watch, Secrets and status | `ControllerProofs` |
| `WatchCache`, `PodIdentity` | the list-and-watch threads; the refresh of the cgroup index from two of them | `PodIdentityProofs` |
| `AdmissionRules` | what one review decides and patches | `Admission` |
| `BreakGlass` (with the wall clock), `ServingCert`, `Admission` | the three pollers of the webhook, the state they keep and the reviews | `AdmissionProofs` |
| `Suspension` | abstract: what break-glass promises | refined by `BreakGlass` |
| `PolicyRules`, `Wire`, `Envelope` | validation; the signed bytes, written once and read twice; the envelope, its writers and readers | `PolicyPath`, `WaiversProofs` |
| `RuntimeRules`, `ExecHook` | evaluator, kernel slots and prefilter; tracepoint, record and LSM hook | `PolicyPath`, `WaiversProofs` |
| `ContainerMap`, `Reaction` | how a record gets its container flag; what is done about it | `ReactionProofs` |
| `SyslogSink`, `Fanout` | the SIEM connection; the node's own record and the fan-out to both | `PipelineProofs` |
| `NodeHealth`, `ControllerHealth` | the agent's and the controller's status | `MCHealth`; `ControllerProofs` |
| `DeployLint`, `WebhookPki`, `Attach`, `Deploy` | lint rules; `gen-webhook-pki` and rotation with it; hooks and pins; argv and files of three programs | `Deploy` |

`MC*` modules give the constants of a module for TLC where a cfg cannot. Each module's header names its
abstractions. The ones that matter most:

* **KernelPublish.** A rule is the digest of its policy. The ring thread holds a read guard for a whole
  republish, so `digest` changes only between two of them, while `index` changes at any step. `asked` is a
  history variable: what each policy has asked for since it last took the rules over.
* **LkgStore.** A bundle is its digest and one of three kinds: installs whole, installs only at restore and
  without its dead rules, refused. A stamp is the number of the rotation. Each `write`, `rename` and
  directory removal is a step before which the process may die.
* **Waivers.** Time is `0 .. MaxTime`; the environment moves the wall clock to any of them at any
  step, loses or edits the file while the agent is down, and rotates the Secret to a list, damaged bytes, an unreadable
  file or none. `loadedAs` is a history variable: what a stat would have answered of the file that was last loaded.
* **Pipeline, ExportQueue.** A record is its number. A guard that spans a blocking call is held over steps.
  std's RwLock refuses readers while a writer waits, as on Linux, the behaviour under which a guard over a
  blocking send deadlocks.
* **Controller.** A call is sent in one step and takes effect in a later one; it may fail, or land and be
  answered by an error. At any moment another owner may make a Secret of the policy's name, or take over the one that
  is there; a create of a taken name and a patch of a free one are refused. `blind` and `xblind` are history variables:
  the Secrets taken since the handler of the policy, or the waiver watch, last looked. The two policy kinds run the same
  handler, a watch each.
* **WatchCache, PodIdentity.** A stream is its log of changes, a `resourceVersion` a position in it, and a
  list may be answered from any past state. Time is two thresholds, each crossed in a step of its own.
* **Admission.** A mount holds a name (of a program, a list, a pair, a grant), or nothing usable; names are
  given their text by the constants. A review reads program, waivers and grant in three steps, between which
  the pollers run. The labels a review sees come from any source the flags can build, in any warmth.
  `BodyText[b].breaks` says beside each object which rules it breaks, so that the property compares the
  rules of the code with a statement made apart from them.
* **BreakGlass.** A hash is a number no other entry has, a line is an entry or garbled. A failed write leaves
  part of a line, all of it, or all of it unsynced.
* **PolicyPath.** A text is a sequence of few letters; an integer is one cell of a buffer, and the lengths
  (`PATH_LEN`, `KPATH_LEN`, `U16_MAX` ...) are constants, small in the instance, so that every buffer can be
  exactly full and one past it. The masks of the hook keep the width of their subtractions. A syscall has two paths, the
  argument the tracepoint reads and the `filename` of the binprm the hook reads (rewritten in between, or below a
  directory descriptor), and a set of reads that succeed: the syscall number (else there is no record), the comm of the record and
  of the hook (neither flagged when lost), the user and the kernel copy of the path.
* **ContainerMap, Reaction.** Time is ticks; a scan and its join are two steps. A record is judged, looked up
  and signalled in three steps, between which pids move.
* **Fanout.** `untidy` is a history variable: the processes that died with `torn` set. A file is a sequence of whole lines, stubs and newlines; an emit is one step with every
  outcome the filesystem may give it.
* **NodeHealth.** A reason is its id and what its text adds; a timed reason has a number of ticks left.
* **Deploy.** A tree is its documents, a path the sequence of its names. Kubelet is modelled from what the
  programs find in their containers, apart from how the lint resolves the same fields.
* **WebhookPki.** A certificate is the record of what is compared (subject, issuer, names, lifetime, purpose) and the key
  that signed it; every file that `gen-webhook-pki` writes is a step that may fail; between two runs the operator applies, moves
  the key, or removes the Secret, the configuration, or all but the key. A Secret remembers the configuration its run was `shown`. What the API server trusts is stated apart from what the code verifies.

## 3. Runs

`cd tla; tlc -workers 2 -config X.cfg M`. The run's cfg has the name of its module. An invariant with parts
is their conjunction; the parts are named in the module, each with its comment.

| run (module) | property | what it says |
|---|---|---|
| `kernel_publish` (`MCKernelPublish`) | `KernelIsSafe` | `TypeOK`, `OnlySelectedRefused`, `OnePolicyInRules`, `SyncedMeansPublished` |
| | `EventuallyConverges` | once map writes stop failing, the maps hold the policy in force |
| `lkg_store` (`LkgStore`) | `StoreIsSafe` | `TypeOK`, `SnapshotIsWhole`, `HealthyIsDurable`, `PartialIsFlagged`, `RestartKeepsPolicy` |
| | `MountIsFollowed` | `StableBundleIsTaken`, `UnreadableIsReported` |
| `waivers` (`MCWaivers`) | `ExpiryHolds` | `TypeOK`, `ExpiredStaysExpired`, `FlushedExpiryIsDurable`, `FloorNotInFuture`, `UnflushedIsBounded` |
| | `TableFollowsSecret` | whatever the Secret became, the table is the list in it, or empty and said to be dropped, but for two races |
| `pipeline` (`Pipeline`) | `NothingLostUnseen` | `TypeOK`, `EveryRecordCounted`, `WrittenInOrder`, `LossIsReported` |
| | `PathAlwaysDrains` | no record is stuck |
| `controller` (`MCController`) | `PublishedIsTrue` | `TypeOK`, `ReadyIsBacked`, `SetFollowsObjects`, `ListsFollowSet` |
| | `OthersUntouched` | a Secret of another owner is written only by a handler that lost it between its look and its write |
| | `PolicyIsPublished`, `RevokedIsWithdrawn` | what compiles is published; what is revoked leaves the lists |
| `pod_identity` (`MCPodIdentity`) | `WarmHasNoHole`, `IdentityWasTrue`, `IndexConverges` | as in the inventory |
| `admission` (`MCAdmission`) | `AdmittedIsJustified` | an object that breaks a rule gets in under a live waiver for that rule or a recorded grant only |
| | `RefinesSuspension` | `BreakGlass` implements `Suspension` |
| | `WithdrawnEnds` | a grant that left its mount or was replaced, and a list that left its mount, end |
| | `GoodBundleIsEnforced`, `GoodPairIsServed` | what stays mounted and is good takes effect |
| `policy_path` (`MCPolicyPath`) | `OnlySignedPolicyLoads`, `PlanesAgree`, `AcceptedPolicyLoads` | the bytes: signed under the pin, read alike, read back as written |
| | `KernelRefusesRightly` (`KernelRefusesOnlyDecided`, `KernelRefusesWhatItHolds`), `PrefilterHidesNothing`, `NothingUnderEnforced` | the matchers: hook, evaluator and prefilter on one exec, and what each could not read |
| `reaction` (`MCReaction`) | `MissingPodIsVisible`, `SettledPodIsNoHost` | a container is flagged or the map is called not ready; a settled pod is never held to be the host |
| | `SignalHitsItsTarget`, `EveryReactionCounted` | signal and counters |
| `export` (`Fanout`) | `RecordsNeverGlue`, `OldestGoFirst`, `OneWindowPerOutage` | as in the inventory |
| `health` (`MCHealth`) | `TerminalIsABurst` | the controller exits exactly after a burst of a class that never worked |
| | `AgentStatusSettles`, `ControllerStatusSettles` | the file comes to say what the state is |
| `deploy` (`MCDeploy`) | `LintedPodStarts`, `LintedPodEnforces`, `AttachIsTrue` | as in the inventory |
| | `IssuedPairIsTrusted` | the Secret and the configuration of one directory belong together, the cluster trusts the leaf it serves, unless the rotation was shown another configuration; the lint accepts what a run has just written |

Each property has a mutant in `PROJECT.json`: a plausible bug in the code it watches, under which TLC finds
it violated.

**Bounds, and why they are enough** (distinct states in parentheses).

* `kernel_publish` (14,274): three policies, two kinds of pod, two cgroups, two slots, a selected map of one
  entry: a republish that fails, a second that fails and a third; a half-written set; a set that does not
  fit. Failures and reloads are unbounded.
* `lkg_store` (519,707): two whole bundles, one with dead rules, one refused; two rotations, one failing file
  operation, two crashes: a crash and a fault in one persist and a second crash in the recovery.
* `waivers` (7,853,235): five times, a waiver that expires early and one late, times below, within and above
  every threshold; two rotations, so that a file comes and goes within one tick, and one crash. Moves of the clock and failing flushes are unbounded.
* `pipeline` (307,155): three records and every buffer of size one, so that each can be full while each
  thread holds a record; one thread may die.
* `controller` (820,280): one policy with two compiling specs and one that does not, two generations, two
  waivers; one failing call, deleted or taken Secret, one restart or relist. Watches share nothing but the live set.
* `pod_identity` (389,201): one pod and its namespace, two changes in each stream and two failures between
  them; one cgroup directory that moves. A hole needs one object.
* `admission` (153,910): two programs, a waiver list and an empty one, two overlapping grants, four pairs
  (longer lived, with more names, expiring, of another issuer), four objects; two moves of the environment.
  Three sets of flags, since the pollers share only the clock and the process: bundle and waivers against
  reviews, break-glass against reviews, the certificate alone. Waivers and break-glass in one set hold as well, but
  take longer than a run should; `NothingGetsInUnjustified` covers every set of flags. The clock starts at 1 (`StartTime`), where both grants
  are in their window, so that one replaces the other in two moves. A race needs one rotation between two reads
  and one fault, crash or second rotation.
* `policy_path` (283,412): paths of up to four letters with buffers of two to four, unpaired `execve`,
  non-UTF-8 paths, a path rewritten or put below a directory, each read failing or not; policies in families, each varying what one part of the
  path looks at; a mount as written, damaged, of another key, older, or JSON. Pure functions, so a behaviour
  is one policy, one Secret, one mount and one syscall.
* `reaction` (1,737,671): the agent's cgroup and one id that changes hands, one process and its pid, two
  records, a proof that lives two ticks; a tracked set of one, so that eviction happens.
* `export` (2,000,729): four events, files of three pieces, two rotated files, one crash, a peer that
  goes and returns twice within four ticks.
* `health` (536,525): four ways a node is started, two marks and one fault; two failure classes and two
  loops, a terminal run of two within a window of one, four notes, one failing write, one restart.
* `deploy` (616,773): a right install and families that vary it where lint and programs read one field;
  nodes that differ in what can be hooked and pinned; two starts, two pin calls. `gen-webhook-pki` into two directories,
  with three runs, a date that moves, a CA and a key of either directory, a configuration given or missing, any write failing: a CA, a second one with its
  key beside the first's certificate, and a rotation. The two directories are symmetric.

**Fairness.** `KernelPublish`: weak fairness of the ring thread, which loops and takes no lock that is held
across a wait. `LkgStore`: weak fairness of the agent's own steps; the poller ticks for ever and the kubelet
restarts a dead process. `Pipeline`: weak fairness of each thread, strong fairness of the steps that take a
read guard, since a reader turned away for a waiting writer is admitted when the writer is done and the poller
sleeps between ticks. `Controller`: weak fairness of every watch, as `select!` polls each and every call is
answered, if only by a timeout. `PodIdentity`: weak fairness of each watch thread (the API server sends a
bookmark on a quiet stream), of the hold-down and of the refresher; strong fairness of a list answered from the
current state, as a server's cache catches up. `Admission`: weak fairness of each poller, which loops with a
sleep, and of the start, which the kubelet repeats. `MCHealth`: weak fairness of the status loop and of the
interval timer, of time, and of each event's handler reaching its end. Nowhere is there fairness for faults,
crashes, rotations, edits or panics. `Waivers`, `PolicyPath`, `Reaction`, `Fanout` and `Deploy` check safety and
need none.

**What a property leaves open** is in its statement and comment: `StableBundleIsTaken`, `GoodBundleIsEnforced` and
`GoodPairIsServed` except a rotation whose own read or persist failed (the stamp is remembered first, so nothing
retries it); `PolicyIsPublished` a policy whose last event failed (nothing queues it again); `ListsFollowSet` and
`RevokedIsWithdrawn` the Secrets whose list write failed or was overtaken by `attach_exceptions`; `WarmHasNoHole` a
label cache that refused a change (the refusal ends the stream without a debt); `TableFollowsSecret` a file that is
absent or unreadable when the poller remembers that very answer and the last load met another (it went between the startup
load and the first tick, or came between a stat and its read and went again); `OthersUntouched` the window between look
and patch, the patch having no precondition; `RecordsNeverGlue` one record behind the torn line of a process that died
before it ended that line; `IssuedPairIsTrusted` an operator who shows the rotation a configuration that is not the applied one; `SignalHitsItsTarget` a pid used again between look-up and signal;
`KernelRefusesOnlyDecided` rules over a path or comm that hook and record
read differently; `NothingUnderEnforced` a rule over a comm when the name could not be read, and an Allow over a path
against the default; `PlanesAgree` a JSON Secret.

**Deadlock** is checked except where the system may stop: the controller without further edits, bounded
environments (`admission`, `export`, `reaction`, `health`) and runs that end with a decision (`policy_path`, `deploy`).

## 4. What the code does and its comments deny

Each module states such a claim under "What the comments say, and the code does not do". None is part of a
run; added to the cfg of the run of its module, TLC finds it violated.

| module, property | source | what happens |
|---|---|---|
| `KernelPublish`, `FailureLeavesRulesOff` | `ferrum-agent/src/lib.rs:62,79,416` | a selected set over the map's capacity (`kernel.rs:91`) fails the republish before the rules are retired; they stay on while the status says they were cleared |
| `Waivers`, `VanishedClearsWaivers` | `lib.rs:2805,2892` | the default stamp already says absent, so an exceptions file that vanishes between the startup load and the first tick is never noticed |
| `Waivers`, `SignedAnchorHolds` | `clock.rs:9,133` | with the clock moved back, the exception that should hold the floor is refused as valid for too long, by that same clock |
| `Pipeline`, `AcceptedIsFlushed` | `ferrum-export/src/queue.rs:53,76` | an event accepted between the writer's last `try_recv` and the drop of its receiver is lost uncounted |
| `Controller`, `RelistRevokesNothing` | `ferrum-controller/src/watch.rs:397,453` | after a restart, each event of the first relist publishes the still empty set of waivers |
| `SyslogSink`, `NothingWithinBackoff` | `ferrum-siem/src/sink.rs:72,216` | a connect that fails leaves no retry time: the next event tries again at once |
| `Reaction`, `ProvenIsHost` | `lib.rs:1605` | a scan that ends after the question was asked may have walked the tree, or met a pod snapshot, from before the container |
| `PolicyPath`, `LossNeverWeakens` | `ferrum-ebpf/src/eval.rs:354` | every rule naming a path applies to a path nobody saw, one that allows too: it replaces a default of Audit, and the record of the syscall is not audited |
| `PolicyPath`, `KernelNeverLooser` | `ferrum-ebpf-progs/src/lib.rs:157-163` | of an `execveat` below a directory descriptor the kernel side is called "never the looser": a prefix pattern without a leading slash matches the relative path of the record and not the kernel's `/dev/fd/<n>/<path>` |
| `BreakGlass`, `SuspensionIsReadable` | `ferrum-breakglass/src/journal.rs:302` | an entry written whole whose fsync failed is followed by one with its number: the chain does not verify from there on, though the record is there |

Further differences, met while modelling and stated in the comments of the definitions concerned:

* A failing `bpf_get_current_comm` leaves an empty name and sets no flag (`ferrum-ebpf-progs/src/main.rs:295-297`): rules
  that name a comm miss such a record in silence, unlike one whose path was lost.
* "so records never glue together" (`ferrum-export/src/file.rs:130-132`) holds within a process; `torn` is not on disk, so a
  process killed in mid-record, or between two events after a failed write, leaves a stub that swallows the first record
  of the next.
* `upsert_secret` "refuses to overwrite a Secret whose labels name a different owner" (`ferrum-controller/src/apply.rs:28-29`, 73):
  it looks and then patches without a precondition; a Secret that changes hands in between is merged into.
* A journal whose chain does not verify keeps a restarted webhook from starting until the file is moved away.
* `add_nested` (`ferrum-admission/src/review.rs:411`) asks the original object whether a parent exists: two mutations of a
  container without a `securityContext` each add one, and the second replaces the first.
* An unpaired `execve` rule also refuses `execveat` in the kernel, which sees an exec and not its syscall; a path that is
  not UTF-8 reaches the evaluator cut at the first such byte, without a flag.
* A path called truncated is said to mark the decision `path_unknown` (`ferrum-ebpf/src/event.rs:176-178`): a rule whose
  suffix or prefix is found in the head that arrived decides without the mark, and one whose prefix is not does not apply.
* A JSON Secret saved as `bundle.fsig` is taken by the webhook and refused by the agent.
* `live_secret_matches` (`apply.rs:319-343`) looks neither at a missing digest nor at the embedded key.
* The rollout check compares ABI versions with `>=` (`ferrum-controller/src/lib.rs:134`), the agent with `==`
  (`ferrum-ebpf/src/envelope.rs:29`).
* The failure class `Watch` is shared by three watches: a success of one hides that another never worked.
* The event context of a record and the status it is exported with are written without a common lock
  (`ferrum-export/src/file.rs:33-35` speaks of one).
* The lint mixes the containers of one Pod in FD021; it reads a decimal mode as octal digits; `ns-<ns>-<policy>` is
  ambiguous where names hold dashes; `--seed-file` and `--bpf-elf` under no mount pass; the controller refuses
  `--flag=value`, which the lint accepts.
* `pin_at` forgets the links it did not reach when one fails; only tests call it, as they alone mark the control plane
  down and up.

## 5. Refinement

`BreakGlass` is shown to implement `Suspension` (`RefinesSuspension`): `suspended` is the grant in force, `recorded`
the grants whose activation lies in the synced part of the file. Every step of the poller, of the filesystem, of
the clock and of a crash is a step of `Suspension` or a stutter: one grant at a time, on record before it takes
effect, records never lost.

## 6. Proofs

`tlapm M.tla` for each of the eight modules `*Proofs.tla`. Each takes its component's assumptions on the constants and
nothing else, and shows `Spec => []IInv` for an inductive invariant `IInv` with one lemma per action; the invariants were
checked by TLC before they were proved. A theorem of this table states the property of a run for every value of the
constants.

| module | theorem | statement |
|---|---|---|
| `KernelPublishProofs` | `KernelSafe` | `Spec => []KernelIsSafe`; its parts `TypeCorrect`, `NoForeignRefusal`, `NeverMixed`, `SyncedIsTrue` |
| | `NoNeedlessGap` | `Spec => UnchangedPolicyKeepsRules`: no slot is written while the maps hold the policy in force |
| `PodIdentityProofs` | `TypeCorrect`, `NoHole` | `Spec => []TypeOK`, `Spec => []WarmHasNoHole` |
| | `IdentityTrue` | `Spec => IdentityWasTrue` |
| `WaiversProofs` | `ExpiryIsMonotonic` | `Spec => []ExpiryHolds` |
| | `TableIsTheSecrets` | `Spec => []TableFollowsSecret` |
| | `OnlySignedBundlesRun` | `PolicySpec => []OnlySignedPolicyLoads` |
| | `PrefilterIsInvisible` | `PolicySpec => [](LoadedIsWellFormed => PrefilterHidesNothing)` |
| | `LossOverEnforces` | `PolicySpec => [](LoadedIsWellFormed => NothingUnderEnforced)` |
| `LkgStoreProofs` | `StoreSafety` | `Spec => []StoreIsSafe` |
| `AdmissionProofs` | `BreakGlassImplementsSuspension` | `Spec => RefinesSuspension` |
| | `SuspensionIsOnRecord`, `GrantedIsOnRecord` | `Spec => [](active \subseteq Recorded)`, `Spec => []LetInByRecord` |
| | `AdmittedIsWaived` | `Spec => []LetInByWaiver` |
| | `NothingGetsInUnjustified` | `Spec => [](BreaksAreHits => AdmittedIsJustified)` |
| `ReactionProofs` | `MissingPodShows` | `Spec => []MissingPodIsVisible` |
| | `SignalsAreAimed`, `ReactionsAreCounted` | `Spec => []SignalHitsItsTarget`, `Spec => []EveryReactionCounted` |
| | `SettledPodIsKnown` | `Spec => []SettledPodIsNoHost` |
| `ControllerProofs` | `WhatIsPublishedIsTrue` | `Spec => []PublishedIsTrue` |
| | `ForeignSecretsAreSafe` | `Spec => OthersUntouched` |
| | `ControllerEndsOnABurst` | `ControllerHealthSpec => []TerminalIsABurst` |
| `PipelineProofs` | `RecordsAreAccountedFor` | `Spec => []NothingLostUnseen` |
| | `OutageCostsOneWindow` | `FanoutSpec => []OneWindowPerOutage` |
| | `RecordsKeepTheirLines`, `OldestAreLostFirst` | `FanoutSpec => []RecordsNeverGlue`, `FanoutSpec => []OldestGoFirst` |

**KernelPublish.** *Assumptions*: `DigestAssumption`, `IndexAssumption` (the cgroups are a finite set), `SlotAssumption`
(at least one slot, and a compiled set fits its map, which `compile_kernel_rules` ensures by refusing one that does not).
*Argument.* None of the properties is inductive. That the rules of a selected policy refuse only in pods it
asked for depends on the selected set lying within what the policy *in the map* asked for (`Covered`), in
every half-way state. It is kept because the selected set grows only in phase `selected`, when the map is
either empty or holds the policy that is asking; that is a fact about the phases (`Phases`): `retire` empties
a prefix, `selected` under a new policy starts from an empty map, `rules` has written a prefix of exactly one
policy, `clear` holds at most that policy. Between two republishes `InForce` ties the map to the digest
remembered as published, and `Remembered` says that a digest is remembered only while nothing is unsynced:
the failure path forgets it, so the next tick starts over with `retire`. `NoPolicyYet` covers the time before the
first bundle.

**PodIdentity.** *Assumptions*: `StreamAssumption` and `WatchBounds` of `WatchCache` (the marker values are distinct, and
pods have no ceiling), `IdentityAssumption` and `IdentityBounds` of `PodIdentity` (two streams, every pod has a namespace).
*Argument.* `WarmHasNoHole` is not inductive, because warmth comes and goes without the cache changing: a frame makes
a stale cache fresh again, so the cache must be whole while it is stale too. `Whole` therefore drops freshness and
keeps only what no frame restores: a completed list, no debt, no refused object. An event keeps it if it is the
event *after* the version of the cache, which is `InStep` (a stream without a debt has `pos = rv`: an unreadable
frame moves one and not the other, but raises the debt), and if an event changes one object only, which is a fact
about the log (`Chained`). A list discharges the debt and makes the cache whole by itself; a refused list leaves
`listed` false. `StepIsLocal` shows that the other streams do not move. `IdentityTrue` follows: only a refresh changes the
index, and it reads warm caches.

**Waivers.** *Assumptions*: `TimeAssumption`, `WaiverAssumption` (the day limit and the persist step are positive, the
skew is any number of ticks). *Argument.* Expiry is a matter of the floor alone, so the invariant says what the floor
knows: it is at least every reading given out (`highest`) and every value flushed, at most the skew past the latest wall
clock, and the file holds what was last flushed unless a flush is said to have failed (`FloorInv`). That it is less than
a step past the disk holds only between two ticks (`StepInv`): within one the flush is still to come. For the table, the
stamp is remembered before the read, so a rotation between the two leaves a table newer than its stamp. A stamp of a file
that is there belongs to one rotation, so remembering the current one means that the file was loaded; "absent" and
"unreadable" belong to any number of them, and say something of the table only if the file last loaded gave that same
answer (`loadedAs`). `TableInv` says so for each stamp in play; where it says nothing is the exception of the property.

**LkgStore.** *Assumptions*: `BundleAssumption` (the three kinds of bundle are disjoint), `BoundAssumption`. *Argument.* A
snapshot is whole because the directory that `..data` names is never the one being written: `PersistInv` ties each phase
of `persist_fsig` to what the new directory holds by then and says it is named only after both files are in it. `mem` is
ahead of the disk exactly in these phases (`DurableInv` has `resolve`, `read`, `install` and `idle`, not `persist`). That a
restart does not go back needs a history: what was last reported healthy, and the bundles taken since. `ReportedInv`
says that the disk holds one of them, before and after a crash alike.

**Admission, break-glass.** *Assumptions*: `BreakGlassAssumption`, with those of the other threads unused. *Argument.*
`Suspension` has three steps, and each step of the webhook is shown to be one of them or a stutter (`SuspStep`), beside an
invariant of the journal and the poller. The core is a lemma about one append (`WriteKeepsTexts`): whatever part of it
reaches the file, no text leaves a line, and no line that was there gains another text than its own. So a failed append
that ran into a flushed line takes no activation out of it, and adds none unless the poller holds that grant; a flush may
put several activations on record at once, those of earlier failed appends too, which is why `Suspension` records a *set*.
`ActiveInv` says that nothing is in force while an activation is being written, and that a grant about to come into force
is on record. From `Suspension` it follows that what is in force stays on record, and from the shape of `handle_with` that
a review lets in nothing without asking the policy unless such a grant covers its time (`LetInByRecord`): the half of
`AdmittedIsJustified` that is about break-glass.

**Admission, waivers.** *Assumptions*: none on programs, objects, waivers or labels. *Argument.* A review is a function of
what its three reads found, so `LetInByWaiver` needs no history; what it needs is what the evaluator does with several
hits. `admit` gives every hit the action Deny, and `evaluate` answers with the strongest of those no waiver covers: if
that is to allow, none is left. The lemmas follow a review from `handle_with` over
`subject_of` and `admit` to `decision_response`. `AdmittedIsJustified` speaks of `breaks`, which an instance writes beside
each object; what links the two is `BreaksAreHits`: what is written is found by the rules, on an object the policy
applies to. It is the hypothesis of `NothingGetsInUnjustified`; added to `MCAdmission.cfg` as an invariant, it holds there.

**Reaction.** *Assumptions*: `ContainerMapAssumption`, `ReactionAssumption` (budget, window and size of the tracked set are
positive). *Argument.* What the refresher resolved, what waits in the channel and what the kernel holds are three sets
with three times. Each holds every pod that could be resolved a whole scan before its time (`Holds`), and the times are
in this order of age (`MapInv`); a scan in progress began at most `ScanMax` ago (`ScanInv`). A change of the tree keeps all
three, as a pod that becomes resolvable does so now. The map is called ready only while its time is within the budget,
which gives `MissingPodIsVisible`; a proof is accepted only if the map's time is past the question, which gives
`SettledPodIsNoHost`. For the pump, `TargetInv` carries what was checked before the look-up to the signal, and the
counters with it.

**Controller.** *Assumptions*: `SpecAssumption`, `PolicyAssumption`, `WaiverAssumption` (policies and waivers are finite
sets, markers are none of them), `ControllerBounds`. *Argument.* A status is written in a later call than the Secret it
speaks of, so `TaskInv` says of each call under way what the earlier ones found; it survives the other watches because
only the one watch of a policy gives its name a Secret (`OwnKind`, `Ownership`). Ready is never claimed for an older
object because versions come in the order of their generations, and neither Secret nor status is ahead of what is still
to come (`OrderInv`). For the waiver watch the invariant is about the events not yet taken: for some `k` the stream is the
rest of a relist that ends at `k`, then changes, and of each waiver either the last change to come is true, or none comes
and the staging or live set is right already (`StreamInv`). A list is that of the set outside a pass and behind one, but
for those counted stale and those about to be attached (`ListInv`). For ownership, `LookInv` says of every handler that is on
its way to a write that the Secret is its own, free, or was taken since it looked; a create of a taken name is refused, so
only the patches remain.

**Pipeline.** *Assumptions*: `QueueAssumption`, `PipelineAssumption` (each buffer holds at least one record). *Argument.*
`EveryRecordCounted` speaks of the size of a set, `InFlight`, which is not the sum of the sizes of its parts unless no
record is in two places. The invariant says more: read from the sink back to the kernel, the records are in increasing
order (`Sorted`). So the parts are disjoint, the size is their sum (`InFlightSize`), and what is written next is larger
than all that was written. Each move of a record then takes one from one summand and gives it to another (`Counted`). For
the reports, the pump is the only thread that causes a loss of the queue, so a loss not yet in the agent's total belongs
to the record the pump has in hand; the poller that marks the same total with an older reading cannot lower it
(`Reported`).

**Fanout, SyslogSink.** *Assumptions*: `FileSinkAssumption`, `SyslogAssumption` (a file takes at least one byte, the quiet
period is not zero). *Argument.* For the peer, `SyslogInv` says where the sink is once the peer, back up, has refused an
event: in the quiet period that this event was held back by, which ends within `BACKOFF` of it, or connected to the peer
that is alive; no other state can cost a further event. For the file, the properties follow from the states of the
sink *between two operations* (`SinkOk`): a stub of this process at the end of the active file is always known (`torn`), one of an earlier process is of one that
died with `torn` set (`Excused`) and lies behind all else it wrote (`LivesInOrder`), a
handle is on the active file and never takes it for empty when it is not, and the files read from the highest number down
are in the order of events with nothing younger missing (`FilesInOrder`, `KeepsLater`). Each outcome of a write keeps
this, and so does each place a rotation can stop at: a shift renames from the highest number down, so a cut leaves a gap
in the numbers and never two files in the wrong order.

**ControllerHealth.** *Assumptions*: `ControllerHealthAssumption`. *Argument.* The code keeps a run length and the age of the
last failure; the property speaks of the whole past. `Counted` ties the two: of a class that never worked, `run` is the size
of the latest run of failures, which began after a gap longer than the window or with the first failure of all (`OneRun`),
and `age` the ticks since its last, cut off past the window. A failure adds to that run or begins a new one, and a burst of
`TERMINAL_RUN` neighbours exists in the past exactly when the latest run has that size, as no earlier one reached it while
the process ran.

**PolicyPath.** *Assumptions*: `RuntimeRulesAssumption` (the lengths of the buffers and the longest patterns as `event.rs`
asserts them), `CallsAssumption` (a syscall the tracepoints hook, a path and a name without NUL, a name that fits `comm`).
*Argument, signing.* `SignedInv`: every envelope of the Secret is one a writer made, and what is mounted came from it
unchanged, damaged in one part, older, of another key, or signed by that key in the context of break-glass; the lemmas go through the parts (`DamageIsSeen`): an envelope
that passes a reader carries a payload that the pinned key signed in the context of bundles. *Prefilter and loss.*
`EnteredInv` only says that a syscall is judged under a loaded policy; the rest is about one decision. What arrives is the
text itself if it was readable and fits, and otherwise a head that is flagged (`TextReadsBack`, `PathlessEvent`,
`EventPath`). A rule that hits the whole text therefore hits what arrived, and the hits of the record are those of the
whole syscall and some that name a path, rules over a comm aside if the name was lost (`LossOnlyAdds`); the strongest of more hits is not weaker, and the
cap of mode and labels keeps the order (`StrongestHit`, `CapKeepsOrder`). A record that the image hides is of a
syscall that no rule widened the image by, which such a rule does not match (`WidenedOrMissed`), or of a process that every
rule excludes, under a default of Allow (`NoHit`). Both theorems take `LoadedIsWellFormed`, the rules are
whole and can fire: a part of `AcceptedPolicyLoads`, which TLC checks, since what a decoder returns is a matter of
induction over its input.

**Operators.** Lemmas proved once and cited: the least element of a set of naturals and the maximum of a bounded set,
from well-foundedness (`WaiversProofs`); `SetToSeq` of a finite set (`ControllerProofs`); taking the head of an increasing
sequence and appending to it, and the size of its set (`PipelineProofs`).

**Only model-checked.**

* Every liveness property, since fairness is out of the prover's reach: `EventuallyConverges`, `MountIsFollowed`,
  `PathAlwaysDrains`, `PolicyIsPublished`, `RevokedIsWithdrawn`, `IndexConverges`, `WithdrawnEnds`, `GoodBundleIsEnforced`,
  `GoodPairIsServed`, `AgentStatusSettles`, `ControllerStatusSettles`.
* `PlanesAgree` and `AcceptedPolicyLoads`, with `LoadedIsWellFormed`: what the decoders return is a fold over their input,
  and induction over data is out of reach. `KernelRefusesRightly`: the hook's verdict is a fold over the slots. A behaviour
  there is one step, so the families of inputs are what counts.
* `LintedPodStarts`, `LintedPodEnforces`, `IssuedPairIsTrusted`: they range over families of trees, and over texts compared
  piece by piece.
* `AttachIsTrue`: attaching walks a list of hooks with `SelectSeq`, recursive over the list. For all values it also needs
  facts of the node that no code checks: that one agent runs on it, and that a field of the kernel's type information of
  the right shape is the one the kernel uses.

## 7. Not modelled

* JSON, YAML, HTTP, TLS, X.509, ELF and BTF as bytes: what they parse to is a record of the facts the code reads.
* Signatures as mathematics: a signature is the record of what it was made of.
* A power loss that loses unsynced pages, except in the break-glass journal, the one file that is synced.
* Rates and real time: the writer reads its stop flag only after a quiet tick, and the drain loops while the ring
  holds records; under a stream without pause `close` does not return and drops are reported late.
* List items without a name or uid: the API server stores none. `filter_map` (`ferrum-k8smeta/src/watch.rs:55`) would leave
  such an item out of the cache and count the relist as done.
* A write that is still under way when the controller dies lands before the new process starts, or never.
* Policies that are deleted (the watch hides it) and two policies whose names make one Secret name.
* Of `k8smeta`: the HTTP client, the parsing of cgroup paths and mount tables.
* The formats of the SIEM (`cef.rs`, `ecs.rs`, `rfc5424.rs`) and the text of events, reasons, metrics and messages.
* CLI commands that only read, print or generate (`validate`, `compile`); the WASM host, an interpreter
  whose verdict is a function of the request; `ferrum-metrics`; `ferrum-testkit`.
* The BPF verifier and helpers, the kernel's own hooks, kubelet and API server: external, modelled from how the code
  uses them.

## 8. Plan

Done: all components whose state or decisions another component relies on are modelled; proved are the safety of the
agent's maps, store, clock, pipeline and reactions, of both sinks, of pod identity, of the controller and its health, of
break-glass, of what a review lets in, of what is signed, and of prefilter and evaluator. What could follow:

1. `Attach` with sets of hooks ordered by their index instead of lists, which would open `AttachIsTrue` to proof.
2. `Wire` with one recursive function per decoder instead of folds: with the least-element lemma of `WaiversProofs` an
   induction by least counterexample would give `LoadedIsWellFormed`.
3. `ferrum-k8smeta`: the parsing of cgroup paths; `ferrum-crypto/src/x509.rs` as a decoder.
