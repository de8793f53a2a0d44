# AegisGate Rampart: specifications, model checking and proofs

Rampart is a local HTTPS proxy between a user and AI services.  It intercepts
the hosts it is configured to, scans requests and responses for personal data,
secrets, injections and the like, writes what it finds to an audit log, and in
block mode refuses the exchange.  This directory specifies, checks and proves
the parts of it in which order, failure and concurrency decide whether it is
correct.  All paths below are relative to the root of the repository; "the
code" is the Go source without its tests.

## 1. The system

| Part | Code | State | Operations | What makes it correct |
|---|---|---|---|---|
| Policy and configuration | `pkg/config`, `pkg/proxy` | mode, targets, block section | load, reload, decide | only what some policy asks for is blocked, only what some policy allows is released |
| Interception proxy | `pkg/proxy/proxy.go` | `cfg`, `targets`, `stats`, one goroutine per exchange | CONNECT (intercept or tunnel), plain HTTP, `/detect`, `/stats` and probes, `ReloadConfig` | verdict before effect, audit before effect, counters that add up, no exchange stuck |
| Audit log | `internal/auditlog/auditlog.go` | file, backups, mutex | `Log`, `rotate`, `Close`, reopening at start | acknowledged entries survive rotation, failures and crashes |
| Encrypted audit log | `internal/auditlog/encryption.go` | the same with a second mutex | `Log`, `Close`, `DecryptFile` | the same, and entries can be decrypted |
| Anonymized metrics | `internal/metrics/anonymized.go` | queue, timer, uploads | record, timer, `Flush`, `Close` | nothing lost or sent twice, batches bounded, partial batches sent |
| Process | `cmd/rampart/main.go`, `daemon.go`, `internal/tray` | context, server, signal goroutine, tray | start, signal, shutdown, quit, exit | a signal ends the process, requests in flight are drained, detections are audited to the end |
| Audit search | `internal/auditlog/search.go`, `audit_cmd.go` | none | search by pages, statistics | the pages hold every match once |
| Certificates | `internal/certinit`, `internal/certificate` | four files, cache of certificates | ensure, load, generate, evict | certificate and key match after any crash, cache bounded, no self-deadlock |
| Detection | `pkg/detector`, `internal/detectors`, `internal/response` | tables of expressions, guard's flags | scan, redact, limit tokens | flags restored, windows respected |
| ML detection | `internal/ml` | cache, drift and latency windows | detect, record | bounds of cache and windows, counters |
| IOC puller, Lens receiver | `pkg/iocpull`, `pkg/lenscorrelation` | cache and its date; events | pull, receive | newest answer wins |
| Forwarder, webhooks | `internal/platformforward`, `internal/webhook` | goroutines in flight, list of hooks | forward, heartbeat, send, add, remove | every enabled hook notified once |
| Language server | `internal/lsp` | documents, timers | open, change, exit | diagnostics of the newest version stay |
| PID file | `cmd/rampart/daemon.go`, `main.go` | `rampart.pid` | start, stop, status | one daemon, and the file names it |
| Webhook commands | `cmd/rampart/webhook_cmd.go` | `webhooks.json` | list, add, remove, enable, test | no saved edit is lost, the file can be read |
| Tools | `internal/integrity`, `verify`, `updater`, `autostart`, `catrust`, `scanner` | files | one pass each | sequential, mostly I/O |

How they interact: the handlers of the proxy call the detector, then the audit
log, the encrypted log, the metrics collector and the forwarder, all from the
goroutine of the exchange; `ReloadConfig`, `/stats` and the daemon's poller run
beside them on the same `Proxy`; `Shutdown` and the goroutine that `Start`
leaves behind stop the server while exchanges are in flight.

What is hard here: the policy is read without its lock while it is replaced;
the audit entry is written before the decision it should report; rotation is a
sequence of file operations of which each may fail and the process may die
between any two; two goroutines shut the server down while `main` returns; the
metrics timer, full batches and two flushes compete for one queue; the commands
and the daemons of one user meet in files that nothing locks; webhooks are sent
from a slice that others edit; requests infer at once on one pair of tensors;
the language server answers from goroutines that overtake each other; texts are
cut by positions that earlier cuts have moved.  The list, with lines and the
properties that cover each, is in `PROJECT.json` under `hazards`.

## 2. Modules

| Module | Models | Lines to read beside it |
|---|---|---|
| `BlockPolicy` | `shouldBlock`'s conditions, severities, `isTargetDomain`, the configuration | `proxy.go:661-682`, `974-1036`, `config.go:18-76` |
| `Firewall` | no code: what the proxy promises, as a state machine of phases and policies | |
| `Proxy` | the pipeline of an exchange, one action per step between two points where another goroutine can act | `proxy.go:430-1158`, `1349-1449` |
| `MCProxy` | payloads, hosts and configurations for TLC | |
| `ProxyProofs` | theorems about `Proxy` | |
| `AuditLog` | `Log`, `rotate`, `copyFile`, `Close`, `NewWithPath`, failing system calls, the end of the process, power loss | `auditlog.go:97-212` |
| `Journal` | no code: what an audit log promises, without files and rotation | |
| `MCAuditLog`, `AuditLogProofs` | sets of faults for TLC; theorems | |
| `MetricsCollector` | the collector | `anonymized.go:85-319` |
| `Lifecycle` | `Start`, `Shutdown`, signal handlers, tray, exit, composed with the collector | `proxy.go:287-417`, `main.go:206-295`, `daemon.go:48-83`, `tray.go:122-146` |
| `LifecycleProofs` | theorems about the collector and about the composition | |
| `CertFiles` | `EnsureCerts`, `Save`, `LoadCAFromFiles` in several processes | `certinit.go:110-298`, `certificate.go:58-283` |
| `CertManager` | the manager's cache, CA and lock | `certificate.go:33-349` |
| `IOCPull` | the puller, its cache and the platform | `pull.go:35-340` |
| `LensCorrelation` | signals, detections, correlation, pruning | `receiver.go:28-410` |
| `Webhook` | `Send` beside `AddWebhook` and `RemoveWebhook` | `webhook.go:27-247` |
| `HookFile` | the `rampart webhook` commands and their file | `webhook_cmd.go:19-286` |
| `LanguageServer` | read loop, debounce timer, detecting goroutines | `lsp/server.go:60-299`, `lsp/handler.go:86-251` |
| `EncryptedLog` | sealing, writing, closing, decrypting | `encryption.go:55-369`, `decrypt_audit.go:25-53` |
| `AuditSearch` | reading a query page by page while the log grows | `search.go:21-246`, `audit_cmd.go:39-176` |
| `DaemonPID` | daemons, other processes and the PID file | `daemon.go:28-140`, `main.go:269-295` |
| `ThreatModel` | the shared tensors, loading, the shadow log | `ml/detector.go:51-222`, `detector_onnx_methods.go:19-206`, `calibration.go:102-156` |
| `ScoreCache` | the cache of scores and its workers | `latency.go:33-408` |
| `DriftMonitor` | baseline, bins, history | `drift.go:86-487` |
| `ResponseGuard` | the verdict, strict mode, the token limiter | `guard.go:28-404`, `token_limiter.go:14-135` |
| `Redaction` | `RedactPII`, `MaskSecrets`, `Redact` | `pii_scanner.go:113-479`, `secret_detector.go:115-480`, `redactor.go:72-213` |
| `Normalize` | the variants of a text that are scanned | `normalize.go:28-361` |
| `Detector` | guard, model and detectors over all variants | `pkg/detector/detector.go:66-264` |
| `Selection` | the loop that keeps some elements of a slice, which several of these modules use | `search.go:79-107` |
| `MCComponents` | one of the seventeen components from `CertFiles` on at a time | |
| `SelectionProofs` | induction over numbers and sequences, and lemmas about `Select` | |
| `FilesProofs` | theorems about `CertFiles`, `CertManager`, `HookFile`, `DaemonPID`, `AuditSearch`, `EncryptedLog` | |
| `PlatformProofs` | theorems about `IOCPull`, `LensCorrelation`, `Webhook` | |
| `DetectionProofs` | theorems about `Detector`, `ThreatModel`, `ScoreCache`, `DriftMonitor`, `ResponseGuard`, `Redaction`, `LanguageServer`, `Normalize` | |
| `ComponentsProofs` | theorems about `MCComponents`: composition, types, properties | |

### Proxy and Firewall

`pc[c]` is the place of exchange `c` in its handler, `target`, `payload` and
`dir` are the local variables the handler keeps, `cfg` is `p.cfg` together with
`p.targets`.  `shouldBlock` is two steps, `ReadMode` and `ReadBlock`, because it
reads `p.cfg` twice without `p.mu`; whatever is done under one acquisition of
`p.mu` is one step.  A payload is a model value; `Findings` gives the results
that the detector returns for it.  (`Detect` has an error result but cannot
fail: `ResponseGuard.Scan`, its only source, never returns one.)  `window[c]` is
a history variable: the configurations in force since `c` took up the payload it
handles.  It makes "forbidden" precise while the policy changes: a payload is
forbidden if *every* policy of its window blocks it.  `Firewall` states the same
for five phases instead of sixteen places, and `ImplementsFirewall` is the
refinement (`PhaseOf` maps places to phases).

Abstractions: the plain and the encrypted log are one (`Audit` succeeds or not);
printing, notifications, forwarding and metrics are left out here (nothing in
the handlers reads them); `CategoryCounts` and latency figures are left out; an
answer is a reply whether or not the client is still there to read it.  Open
tunnels end the exchange in the model.

### AuditLog

Lines are records of the call, its time stamp, where in the file the line ends in
bytes, whether it is whole (nothing torn in front of it) and whether it is safely on
the disk; `torn` counts the bytes of an unfinished line at the end of the file, and
`LineSize` gives each call the length of its line.  A clock in
seconds names the backups as `rotate` does.  `faults` is chosen at the start:
which system calls may fail, whether power may fail, and whether the file can
fill up within a second ("fast").  Renames are atomic and durable; a process
killed in the middle of `copyFile` is `CopyFails` followed by `Kill`.  Without
"fast" the clock ticks at every entry, so that two rotations are at least a
second apart.

`Journal` is the abstract specification of the log: a call of `Log` stores its
entry in one step, is then told so, or is refused and its entry never turns up;
only `Crash` and `Lose` take entries away.  `ImplementsJournal` is the refinement.
An entry is stored (`Stored`) once its line is in the current file or in a backup;
that it is not appended to a torn one, and so can be parsed, is `AckedKept`'s.  A call is "called" at every place between its first step and its
return (`StateOf`).  The journal is `lossless` where `Sound` holds, that is with
faults that the code is meant to survive, and then an acknowledged entry stays;
it is `steady` where `Reliable` holds, and then a call is refused only after
`Close`.  Every step of `rotate` and `copyFile` is a stutter under `Sound`: a reader
of all the files cannot tell where a rotation has got to.  `EncryptedLog` and
`AuditSearch` take a rotation as one step; in `EncryptedLog` this step has every
outcome that the failing calls of `rotate` and `copyFile` can leave.

### MetricsCollector and Lifecycle

Each operation of the collector holds `mu` throughout and is one step; timer
callback, uploads, and the gap in `Flush` between handing over the batch and
cancelling the context are steps of their own.  `Lifecycle` composes it with the
process: `pc["signal"]` is the goroutine that handles the signal (in the
foreground it calls `Shutdown`, in the daemon it only cancels), `pc["start"]`
the one that `Start` leaves behind.  `http.Server` is modelled by its contract:
`Serve` returns as soon as `Shutdown` begins, `Shutdown` waits for connections
that have not been hijacked.  `p.server` is written by `Start` and read by
`Shutdown` with no synchronisation, so `Shutdown` may find nil also later
(`StopServer`).  A request records at most one metric; the debug server and its
shutdown are left out; choosing Quit is one step, although it both stops the tray
and cancels the context.

### The components that share no state

The remaining modules model workers that do not touch each other's state.  Each
is a specification of its own (`Init`, `Next` and `Spec` with a prefix, a type
invariant, one or two properties), and `MCComponents` runs them in one TLC run:
`running` is chosen at the start, the named component takes all the steps, and
the others stay in one of their initial states.  The state space is the sum of
theirs and not the product; nothing is lost, since no step of one reads what
another writes.

*Files of the user.*  In `CertFiles` a certificate or key file is the number of the
generation that wrote it, so that a pair matches when the numbers do; each write
is a step and a process may die between any two.  `DaemonPID` has daemons that
pass through "look for another", "write the file" and "run", the system's table
of PIDs, in which the number of a process that is gone is given to another one,
and a file that is missing, partly written or names a PID.  In `HookFile` a
command loads, edits and saves; saving truncates first.  None of these files has
a lock, so the properties say precisely up to what overlap they hold
(`startsOverlapped`, `raced` and `overlapped` are history variables for it).

*Caches and lists.*  `CertManager` holds its mutex throughout each method, so each
is a step, except the one that calls itself under the lock and never returns.
`IOCPull` dates each list by its publication; `lastUpdated` is read before the
request and written after the cache, in steps of their own.  `ScoreCache` keeps
the list in the order of its keys and a history of uses, from which the property
computes what must be cached.  `LensCorrelation` and `DriftMonitor` are sequential
under one mutex; what is hard there is the order of pruning, and the edges of bins.
The code computes with `float64`, and an edge in two ways: by a multiplication
(`drift.go:455`, compared at `:287`) and by a division (`:463`).  `DriftMonitor` has exact
numbers, but a baseline is set with a choice, for each inner edge, of whether the
computed bound is above the value on it and whether the quotient is rounded down: the
code's two ways may then disagree for exactly the values on that edge.

*Concurrent callers.*  `Webhook` models Go's slices: an array, a length, a capacity,
and a header taken by `Send`; `RemoveWebhook` shifts the elements one by one in
the array that a sender walks.  `ThreatModel` has one input and one output tensor
and requests that fill, run and read in three steps; a flush of its shadow log may fail
after any number of lines, or within one, and be tried again.  `LanguageServer` keeps the
goroutines as a bag of things to do, with the debounce timer they set and stop.
`EncryptedLog` has the two mutexes as the places where a `Close` may come in.
Rotation is one step with an outcome for each call that can fail: the file is moved and
opened again or not, copied and not truncated, or copied in part or not at all, and then
the logger stays closed.  A backup is named by the second and replaces one of that name;
`crowded` remembers that a rotation began in a second in which one had emptied the file.
The cipher opens a line with the key that sealed it.

*Algorithms.*  `Redaction` works on cells of a text and ranges of matches; where the
code replaces by value, the cells hold letters, so that a value may occur several times,
within another one, and where nothing was matched.
`Normalize` on short words over an alphabet that has one entry of each table of
the code, `Detector` on what arbitrary detectors find in arbitrary variants,
`ResponseGuard` on arbitrary verdicts of the scanners with the limiter's windows
in whole minutes, and with the cut of long responses before their tokens are counted.
Each is checked against a definition that says what the result
should be (`Replaced`, the hidden phrase, the set of findings, the sum over
every window).

## 3. Runs

All bounds are in the `.cfg` files or the MC modules.

| Run | Bounds | Shows |
|---|---|---|
| `proxy` | 2 exchanges of any kind, 1 reload, 2 hosts (a target and an internal one), 3 payloads, 2 configurations | type, `NoForbiddenRelease`, `BlockOnlyOnPolicy`, `AuditedBeforeEffect`, `StatsAgree`, refinement of `Firewall`, `NeverStalls` |
| `auditlog` | 4 calls with lines of 2 and 3 bytes, a limit of 2 bytes, 1 crash, four sets of faults; about 600,000 states | type, `AckedKept`, `Chronological`, `SizeBounded`, refinement of `Journal`, `Returns` |
| `lifecycle` | 2 requests, batches of 2, both styles | type, `SentOnce`, `BatchesBounded`, `EntriesLostOnlyInShutdown`, `SignalEndsProcess`, `ArmedTimerSends`, `TimerDiesIdle` |
| `components` | see below; about 620,000 states | the type invariants and 19 properties of the seventeen components |
| `proxy_block_response`, `proxy_audit_flag`, `auditlog_persists`, `auditlog_continues`, `lifecycle_drain`, `metrics_timer`, `threat_model_score`, `mask_secrets` | as above, or smaller | one documented claim each that the code does not keep (section 5) |

What `components` checks, with the bounds of `MCComponents.cfg`:

| Component | Bounds | Property |
|---|---|---|
| `CertFiles` | 2 processes, 2 generations, a user who removes `ca.key` | `LoneStartCanSign`: a proxy that is up signs with a key that fits the certificate on disk, whatever crashes came before |
| `CertManager` | 4 hosts, a cache of 2, 2 CAs | `CertCacheSound`: bounded, and signed by the present CA |
| `IOCPull` | 2 pullers, time 3 | `UnchangedIsCurrent`: "not modified" means that the cache has the platform's list; `NeverOlder` |
| `LensCorrelation` | 2 domains, a window of 1, lists of 2, time 2 | `RecentKept`: what is within the window is there to be correlated |
| `Webhook` | 3 hooks, 1 sender, 2 removals | `SendReachesAll`: a hook that stays is called exactly once unless one in front of it was removed meanwhile, and at most once more for each that was in front |
| `HookFile` | 2 commands, 2 hooks | `EditsKept`: until two overlap the file has all saved edits and can be read |
| `LanguageServer` | 3 versions | `NewestPublished`: in the end the newest text was answered for, and no answer bears a version newer than its text |
| `EncryptedLog` | 2 passphrases, 2 processes, 3 entries, 2 seconds, a rotation before every entry but the first of a file | `AckedDecrypts`: unless a second is crowded, acknowledged entries are in a file and decrypt, up to a broken line before them |
| `AuditSearch` | pages of 2, 5 entries | `PagesComplete`: the pages hold all matches once unless the log rotates |
| `DaemonPID` | 3 daemons, 3 PIDs | `FileNamesDaemon`: the daemon that runs is the only one and the file names it, unless two looked at once |
| `ThreatModel` | 2 callers, 1 load, 2 failing flushes | `LoneScore`: a request that infers alone gets its own score; `ShadowLogKept`: no prediction is lost but to the half line before it, and each is logged once and once more per failure at most |
| `ScoreCache` | 3 keys, room for 2, 2 workers, 3 uses | `RecentlyUsedCached`: the cache has the keys used last, in their order |
| `DriftMonitor` | 2 bins, the values 0, 1/2 and 1, samples of up to 3, any rounding at the edge, a history of 1 | `SameDataNoDrift`: the baseline's own data are no drift, up to the values on an edge |
| `ResponseGuard` | 1 client, 3 minutes, 4 scans, responses of up to 4 tokens cut to 3 | `WithinRate`: no window of time exceeds the limits, whatever is cleaned out |
| `Redaction` | 3 cells of 2 letters, 2 matches, short and long masks | `RedactedExactly`: by position exactly the matches are replaced; by value no value is left |
| `Normalize` | phrases of up to 5 characters, 2 disguises, words of 2 letters of which the first is decoded by itself | `PhraseRecovered`: some variant is the phrase that was hidden |
| `Detector` | 2 variants, 2 matches | `EachFindingOnce`: the summary has every finding once and counts right |

Why the bounds are enough to be interesting: exchanges share only the
configuration, the counters and the audit log, and two of them with a reload
exercise every pair of steps; the two configurations are such that the mode of
one with the block section of the other blocks a payload that neither blocks.
Four calls with lines of two and three bytes and a limit of two bytes rotate up to
twice, once with a crash in between.
Two requests fill one batch of two or leave a partial one, and a batch timer, two
flushes and two shutdowns run beside them.  In `components`, every cache and list
is smaller than the number of things that want to be in it, every file has two
writers, every clock passes a window and goes on, and texts hold two ranges that
may be apart, touch, overlap or be equal.  The theorems of section 4 remove the
bounds for the safety properties they cover.

`CHECK_DEADLOCK FALSE` is set everywhere: each model may come to rest (all
exchanges answered, all calls returned, the process gone, all metrics sent).

Fairness.  `Proxy`: weak fairness of `Decide(c)`, the steps of an exchange between
taking something in and writing something out, which Go's scheduler gives; none for
clients and upstream, and none for the steps that write to them (hijack, block, forward,
reply): the server has no write deadline (`proxy.go:297-302`) and a hijacked connection
none at all, so that a peer which does not read holds the handler.  `NeverStalls` lets
an exchange wait at these places.  Audit log, terminal and notifier are assumed to
take what is written to them.  `AuditLog`: weak fairness of each call's steps; the mutex is free whenever no call is inside, and
a waiting call is enabled again and again only finitely often before it is its
turn, as calls are finitely many.  `Lifecycle`: weak fairness of the steps of
`Start`, of the two goroutines and of the return of `main`, of the timer and
its callback; none for requests, uploads or the timeout of `Shutdown` — a
process ends although no request ever does.

## 4. Proofs

TLAPS proves, for every value of the constants that satisfies the named
assumptions of the modules, a theorem for each safety property that the passing
runs check, and both refinements.  The assumptions say no more than that sets have the right type and, where something is counted or a
greatest element taken, are finite (`FindableFinite`, `HooksAssumption`); that
bounds are numbers and limits positive (`GuardAssumption`, `DriftAssumption`,
`RedactionAssumption` and their like); that there is a passphrase
(`PassphrasesAssumption`); and that markers are no members of what they mark (the
missing file is no PID, `None` no caller).

The core:

* `TypeCorrect`, `LogTypeCorrect`, `CollectorTypeCorrect`,
  `LifecycleTypeCorrect`: the type invariants.
* `ReleasesSafe`, `BlocksJustified`.  `NoForbiddenRelease` is not inductive: it
  looks at places where a decision has taken effect, and must know that the
  decision was right when it was taken.  `PolicyInv` adds, per exchange, what
  each place implies (`AtRest`: nothing decided before the arrival; `InPlace`:
  which kinds and targets reach which place; `Decided`: after the mode was read,
  a policy of the window blocks; on the way out, one lets the payload pass;
  `Ended`).  It survives a reload because windows only grow.
* `AuditComesFirst`, from `PolicyInv` and `AuditInv` (after the audit step of a
  direction there is a record of that direction), since records only grow.
* `Implements`: `Spec => ImplementsFirewall`, step by step: each action maps to
  a step of `Firewall` or to a stutter, using `PolicyInv` for the guards and
  `DirInv` (the direction is the request's until upstream answers) for the
  phases.
* `EntriesKept`.  The invariant `KeptInv`, under `Sound`, says that a backup
  with the current second's name holds nothing that the current file lacks
  (so replacing it is harmless), that a file about to be truncated is in a
  backup, and that every acknowledged entry is in a file, flushed where power may
  fail.  It needs the mutex, proved first (`MutexHolds`).
* `RotationsTolerated`, from `OpenInv`: a logger nobody closed has its file
  closed only while some call is rotating it.
* `IsJournal`: `Spec => ImplementsJournal`.  A write maps to `Store`, `Close` to
  `Shut`, a power failure or the end of the process to `Crash`; a step of a
  rotation maps to a stutter, or to `Lose` when the faults allow losses.  For the
  stutter the set `Stored` must stay as it is: `KeptInv` says that what a step of the
  rotation overwrites or truncates is in another file, and `WholeInv` (under `Clean`
  no file has a torn line) that what a copy brings is what it read.  `FreshInv` has
  the guards of `Store` and `Refuse`: the entry of a call is in no file before its
  write, and in none after its error.  `OpenInv` gives `steady => shut`.
* `MetricsSentOnce`, `BatchesStayBounded`: inductive with the type invariant;
  the lemmas are about the accounts that one hand-over or one upload changes.
* `UsesCollector`: `Spec` of `Lifecycle` implies `CollectorSpec`, so
  `ProcessSentOnce` and `ProcessBatchesBounded` are corollaries.
* `LossOnlyInShutdown`, from `ClosedByShutdown` (the log is closed only by
  the steps that follow a signal in the foreground).
* `StatsAlwaysAgree`.  The counters are compared with cardinalities of sets of
  exchanges.  `NewInv` says that an exchange has no record of a direction before
  that direction's audit step, so that each such step adds one; `CountInv` gives
  each counter its set; `StepCounts` says what a step of one exchange adds to the
  counters and to the sets alike, and `OneMoves` that a set which changes in one
  element changes its cardinality by one.
* `SizeStaysBounded`, from `SizeInv` (a call about to write has seen a file of no more
  bytes than the limit, or has just opened an empty one; the lines end where the next
  begins, unfinished ones included), as long as copying and truncating work, for lines
  of any lengths.  `TimesStayOrdered`, from `ChronoInv` (no line of the current file is later
  than the stamp of the call that writes next, none of a backup later than its
  name), with lemmas on what a power failure leaves of a sequence.
* `TimerStopsIdle`: with `StepsCollect`, a step of the process that ends the batch
  timer is the callback's, which sets it again unless the queue is empty.

Files of the user and other systems (`FilesProofs`, `PlatformProofs`):

* `CacheStaysSound`, from `ManagerInv`: the bound is one for the cached hosts
  (the CA is kept apart), and the CA of each certificate is known with its host.
* `UnchangedAlwaysCurrent`, `CacheNeverOlder`, from `PullInv`: while pulls do not
  cross, `lastUpdated` dates the cached list except between the two writes, and
  the list a pull has received is no older than the cached one.
* `EditsAlwaysKept`, from `HookFileInv`: until two commands overlap, the one that
  runs works on a copy of what the commands before it intended.
* `FileAlwaysNamesDaemon`, from `PIDInv`: each daemon has a PID of its own, one
  daemon at most has looked for others and not given up, and the file names
  it from the moment it has written it.
* `LoneStartSigns`, from `CertFilesInv`: a start that is alone finds, through every
  crash before it and whatever was removed, either files it replaces or a pair whose
  parts it accepts; certificates of older pairs expire earlier (`AgesOrdered`), and
  `LoneInv` says for each place of `EnsureCerts` which of the four files are written.
* `RecentStaysKept`, from `LensInv`: both lists are cut at the same length, but only
  one is pruned by age as well; counted from the end, a detection within the window is
  found in it at least as near (`FoundFromEnd`).
* `SendReachesThem`, from `WebhookInv`.  A call walks an array in which hooks only move
  to the front, one place for each removal in front of them; `Shape` and `Hole` say
  where a removal under way has left a hook twice or overwritten one, `LiveOnce` that
  every hook of the list is in it once, and `CallInv` that a hook still to be met lies
  between the place it had and that place less the removals counted so far.

The readers of the log (`FilesProofs` too):

* `PagesAlwaysComplete`, from `SearchInv`: the pages so far are the matches up to
  `offset`.  It rests on `SelectPrefix`: what is selected from the beginning of a file
  begins what is selected from all of it, so that a log which grows does not move a
  match to another page.
* `AckedAlwaysDecrypts`, from `EncInv`: an acknowledged entry is in a file, sealed with
  the salt its process read.  Rotation empties the file only when a backup has all of
  it, and as long as no second is crowded, the backup that it replaces has nothing that
  the current file lacks: it can only be what a rotation left that failed.

Detection (`DetectionProofs`):

* `FindingsReportedOnce`, from `DetectorInv`: after every variant the findings are
  those whose keys were seen, once each (`OnceEach`).
* `LoneScoreHolds`, from `TensorInv`: as long as nobody shared the tensors with a
  caller, they hold its text from the copy on and its result from the run on.
  `ShadowLogStaysKept`, from `ShadowInv`: the occurrences of a prediction in buffer and
  file together are none before it is done, then one, and at most one more for each
  flush that failed half-way; and once it has left the buffer, a flush that did not fail
  has written its whole line.
* `CacheKeepsRecent`, from `CacheInv`: the list is sorted by the last use of its keys in
  the history of uses, and full as soon as a key that was used is missing
  (`MostRecent`).
* `RateIsKept`, from `GuardInv`: what the limiter has forgotten no later window counts
  (`ForgetsExpired`), so what it counts when it admits a response bounds every window
  that ends now or later.
* `NewestGetsPublished`, from `ServerInv`: for the stored text there is an answer, or a
  timer or a goroutine under way that will read it (`UnderWay`), and nothing is ahead
  of what was stored (`NoneAhead`).
* `SameDataIsNoDrift`, from `DriftInv`: each count is the sum of the observations of the
  values that lie in its bin, by the bounds `findBin` compares with; and by the
  arithmetic of the division a value that is on no edge lies between the bounds of the
  bin that `buildDistribution` computed for it, the last bin including its upper bound.
  Added up below an edge, the two counts differ by the values on that edge at most.
* `RedactsExactly`, from `RedactionInv`.  While matches are left, the text is
  what `Replaced` says of those done (`Progress`).  A match that overlaps none of them
  is whole in that text, and where it was as long as only matches behind it were
  replaced (`CutIsExact`); by position, matches go last first, so that this is always so.  Nothing is
  claimed there of matches that overlap, of which section 5 shows what may happen.  By
  value (`ValuesInv`), a pass leaves no occurrence of its value, and later ones bring none back, as
  masks hold no characters of values and what is left keeps its order.
* `PhraseAlwaysRecovered`, from `DisguiseInv`, which says per kind of disguise what
  undoes it.  `StillSays`: once the zero-width characters are out and the tables
  applied, every dot has a letter beside it, and without the dots and with each run of
  blanks made one the text is the phrase; the lemmas say how one inserted or replaced
  character changes the positions that each pass keeps, and these positions, in their
  order, are what the pass returns.  `WordRotated`: the word that was decoded is among
  the first `maxSliding`.  Without this bound, which the run had too few words to show
  and the proof needed, the property is false, as the code leaves later words alone;
  the model's disguise now has it.

The composition (`ComponentsProofs`):

* `RunsEveryComponent`: the specification of `MCComponents` implies each of the
  seventeen specifications, so that each theorem above is one about the run:
  `ComponentsSafe` states all the properties that `components` checks, for every
  value of the constants.
* `ComponentsTypesHold`: all seventeen type invariants.  Nine are part of the
  invariants above; the other eight need the bounds that the types state:
  `WebhookBounds` (no array is longer than `Capacity`), `SearchBounds` (`offset` and
  the file never pass the entries written), `CacheBounds` (only calls that were under
  way when `MaxUses` was reached exceed it), `OnePort` (one daemon at most has the port).  The proof changed the
  model where a bound held only for the instance: `Len(uses)` was bounded by two more
  than `MaxUses`, which is the number of workers in the run, and `MaxRemovals` and
  `MaxUses` were not assumed to be numbers.

Induction over data is done with sets: the library's induction theorems take a
predicate as a parameter, which the provers cannot instantiate, but that `<` is
well-founded on `Nat` is a fact about sets.  From it `SelectionProofs` has `Least`,
`Induction` and `SequenceInduction`, whose hypothesis is that a *set* holds 0 and the
successors, or the empty sequence and what appending gives.  Recursive functions over
finite domains (`Select`, `Sum`, `ReplacedTo`) are shown to exist with them, and then
to satisfy their equations; this is why these operators are written as functions.

Only model-checked: the liveness properties (`NeverStalls`, `Returns`,
`SignalEndsProcess`, `ArmedTimerSends`), as the prover does not handle `ENABLED` and
fairness.

## 5. Where the code departs from what the repository says

1. `block_response` is documented (`pkg/config/config.go:71-75`,
   `README.md:242`) and never read (`proxy_block_response`).
2. The audit entry is written before the blocking decision and carries the
   guard's flag, so `rampart audit --blocked` and the totals of `audit stats`
   miss what was blocked (`proxy_audit_flag`).
3. Backups are named by the second; a second rotation within it replaces the
   first backup and its entries (`auditlog_persists`).
4. After a rotation in which both rename and copy fail, "just continue writing
   to the current file" writes to a closed file, for good
   (`auditlog_continues`).
5. "Drain in-flight connections" does not happen in the foreground: `Serve`
   returns when `Shutdown` begins, and `main` returns with it
   (`lifecycle_drain`).
6. `BatchTimeout` is "the maximum time to wait before sending a partial batch"
   only until the timer has expired once on an empty queue (`metrics_timer`).
7. `Detect` "analyzes text ... and returns a ThreatScore" (`ml/detector.go:83`),
   but requests share the tensors and hold the lock only for reading: one may get
   the score of another's text (`threat_model_score`).
8. `MaskSecrets` "masks all secrets in the text" (`secret_detector.go:442`); where
   matches overlap, the second cut uses positions that the first has moved
   (`mask_secrets`).

Not shown by a run, as the model does what the code does and there is nothing
left for it to violate:

* `EnsureCerts` overwrites invalid and incomplete certificates
  (`certinit.go:140`), which `certinit.go:112-114` says it does not.
* The reload on SIGHUP passes the file where `config.Load` wants its directory
  (`main.go:234`): it never reads the file (`CHANGELOG.md:431`).
* No heuristic fallback follows when the model cannot be loaded
  (`pkg/detector/detector.go:99`).
* `ResetUsage` of the guard clears a map that nothing fills
  (`guard.go:392-407`).
* `Redact` looks for the mask of a secret instead of the secret and replaces
  nothing (`redactor.go:190`).
* Severities are accepted in any case (`receiver.go:403`) and compared in lower
  case (`receiver.go:290`).

Found on the way, with no sentence in the repository that says otherwise, or none
that a model could be held to:

* `GetStats` hands out a copy that shares the `CategoryCounts` map
  (`proxy.go:423`); encoding it for `/stats` while `auditLogEntry` writes to it is
  a concurrent map read and write, which ends a Go process.
* The guard's strict mode decides only the guard's own verdict
  (`pkg/detector/detector.go:47`); the truncation it records is not passed on.
* `RedactPIIOnly` switches the shared configuration for the time of the call and
  does not restore `RedactPassword` and `RedactToken` (`redactor.go:287-291`); the
  redactor's audit list is never written.
* `NormalizeText` is not idempotent, although its comment says so; a second pass
  can find what the first has put together.
* A daemon that cannot get its port goes on without a proxy.
* One decision may take the mode of one configuration and the thresholds of the next
  (`proxy.go:978`): `BlockOnlyOnPolicy` and `Firewall` allow for it, and a payload is
  blocked that neither configuration blocks.
* `redactPII` replaces each value wherever the text has it (`redactor.go:164`), also
  inside another value: of "a@b.co, xa@b.com" it leaves "[REDACTED], x[REDACTED]m".
* `buildDistribution` and `findBin` round an edge differently: of the values 0, 0.7*3
  and 7.0 in ten bins the second is put into bin 2 (`drift.go:463`) and found in bin 3
  (`drift.go:287`).
* A flush of the shadow log that ends within a line leaves half of it, and the next
  flush glues its first line to it (`calibration.go:149`): that prediction cannot be
  read, and each retry writes the first ones again.
* Two rotations of the encrypted log within a second lose acknowledged entries as those
  of the plain log do: it uses the same `rotate`.
* `Send` may miss a webhook or call it twice while another is removed.  One removal
  may make it miss several: a bound of one miss per removal holds for the three hooks
  of the run and fails for five, which the attempt to prove it showed.  Two
  `rampart webhook` commands at once lose an edit; two first starts at once can mix
  their certificate files; two daemons started at once may both run.

## 6. Not modelled

* The figures `/stats` shows beside the counters (`CategoryCounts`, latencies, the
  Lens statistics): nothing decides on them.  The bytes of tunnels and their
  half-closing: the proxy promises nothing about them but to copy.
* SIGHUP: as it never gets to read the file, `ReloadConfig` of module `Proxy` stands
  for the caller the code intends.
* The platform forwarder: one POST per detection, without retry or state between
  calls; its heartbeat loop is used nowhere.
* The regular expressions of the detectors, the compliance reports, the
  adversarial and evasion test texts, and the arithmetic of the network and of its
  calibration: data or real numbers.  The models take their verdicts as given.
* Cryptography: a signature or a cipher is a number that fits or does not.  The
  encryption of key files is one pass over one file.
* Trust stores, autostart, notifications, the tray's figures, presets, secure
  memory, the enterprise gate, checksum and signature tools, the updater, the batch
  scanner: a sequential pass of I/O each, with no state between calls, or calls of
  the operating system.
* Drift values below zero, for which the fallback of `findBin` has other bins, and
  baselines so narrow that rounding exceeds the width of a bin.
* A clock that is set back, and with it backups whose names go back.
* A mask that holds a value, or gives one with the text beside it: masks have no
  characters of values in `Redaction`.
* The bytes of a response: the cut to 64 KB is one in tokens (`MaxScanned`).
* Steps finer than those described in section 2: rotation is one step in
  `EncryptedLog` and `AuditSearch`; a method under one mutex is one step
  everywhere.
