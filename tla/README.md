# TLA+ verification of trustcard

trustcard gates MCP servers. It records what tools a server publishes, decides
whether a change to them is compatible, keeps a trust state per server, lets or
refuses calls, and keeps a signed-off *enforcement manifest* per gated server up
to date. Around that core it pins servers and publishers, signs manifests, writes
receipts and evidence, and scans and probes servers for CI. This directory models
that code in TLA+, checks the models with TLC on small instances, and proves the
most important properties with TLAPS for every value of the constants.

- [Parts of the system](#parts-of-the-system)
- [Modules](#modules) and [how they correspond to the code](#how-actions-correspond-to-the-code)
- [Runs](#runs)
- [Bounds](#bounds) and [fairness](#fairness)
- [Proofs](#proofs)
- [Where the code falls short of its documents](#where-the-code-falls-short-of-its-documents)
- [Abstractions](#abstractions) and [what is not modelled](#what-is-not-modelled)

To check: `tlc -config <Run>.cfg <Module>` (the module of each run is in
`PROJECT.json`) and `tlapm <Module>Proofs.tla`.

## Parts of the system

`PROJECT.json` lists every component with its sources and status, and every hazard
with the line where it bites and the properties that would catch it.

| Part | State | Operations | Hard because | Correct when |
|---|---|---|---|---|
| Differ, `lib/diff.js` | none | `diffTool`, `diffToolsets` | findings are folded by rank in the order the rules run; bounds have two directions | a compatible revision breaks no caller; no finding hides another |
| Trust store, `lib/trust.js` | a record per server: state, pin, last observation, history | observe, pin, evaluate, suspect, revoke, approve | several sessions share a record; REVOKED is sticky | an incompatible change revokes until approval |
| Trust session, `lib/session.js`, over the stdio client, `lib/client.js`, and the wrapper, `lib/middleware.js` | observation, binding, pending requests, listeners | connect, refresh, call, close, list_changed | answers, timeouts and announcements interleave with every `await`; refreshes overlap | the pin follows the observation; announced changes are seen |
| Guard, `lib/guard.js` | call counts | authorizeCall, recordReceipt | the decision is before the `await`, the answer after it | no call after drift; the ceiling holds |
| Enforcement manifest, `lib/manifest.js` | a file | build, diff, renew, preserve, checkCall | three ways to make a new one from an old one | no rewrite loosens a human decision |
| Fleet writers, `lib/fleet.js`, `lib/renewal.js` | the file, its lock, backups | renew, reapprove, watch; proxies auto-update | processes race for one file and die in between; the operator writes it without the lock | automatic writers replace only what they compared; the file stays fresh |
| Stdio proxy, `bin/mcp-proxy.js` | manifest in memory, drift set, two pending tables | one callback per line of either pipe | a call waits for its token while a listing changes the policy | forwarded calls fit the current policy; one answer per request |
| HTTP proxy, `bin/mcp-http-proxy.js`, with receipts, `lib/receipts.js` | the same, a receipt chain and its file | one handler per POST | POSTs interleave over policy, drift set and chain; a receipt write may fail | receipts form one chain, each of an authorized call that is still open |
| Tokens, `lib/auth.js` | introspection cache | validate | calls race to fill the cache; answers come late | a revocation takes effect in bounded time |
| Evidence store, `lib/evidence-store.js` | a file of lines per day, an index | append, appendBatch, flush, load, rebuild, query, verify | torn lines, a stale index, two processes | a lookup never lies; loss does not go unnoticed |
| Pin store, `lib/pin.js`, and provenance, `lib/provenance.js` | one JSON file; a signed manifest | pin, unpin, fingerprint, verify; build, sign | processes share a temporary file; legacy keys migrate; the manifest is edited | pins are not lost silently; what passes was signed |
| Scan and health checks, `bin/mcp-trustcard.js`, `lib/checks.js` | a queue, results | probe, score, report | workers share a queue; servers stay silent or exit at any moment | CI does not pass on a server that never answered; every entry has a card; the scan ends |
| Behaviour probes, `lib/behavior.js` | a reference, a report | generate, observe, compare | answers and stderr come late or never | a pass missed nothing it looks for |

The *session* side and the *manifest* side are two gates over the same idea. A
program that embeds the library has *server -> client -> session (differ, trust
store) -> guard -> program*; they interact by calls and callbacks on one thread.
A program that is wrapped has *client -> proxy -> server*, and the proxy shares the
manifest file with the fleet commands and the operator, and asks `lib/auth.js` about
tokens. The two sides share only `lib/identity.js` (what a contract is). The
*commands* side has processes that share files: the pin file, the publisher's
manifest, the evidence directory.

## Modules

| Module | Models | State and actions |
|---|---|---|
| `ChangeLevel` | `maxLevel`, `isCompatible` (diff.js), the fold over the notes of a diff | operators; an unranked level erases the one before it, as in the code |
| `ToolDiff` | `diffTool`, `diffSchema`, `diffEnum`, `validateArgs` | operators over schemas whose keywords are those the rules distinguish, or `validateArgs` reads; `DiffSchema` is a recursive function over pairs of `Schemas`, `Valid` over schemas and values |
| `ToolContract` | one tool under automatic re-pinning | `pinned`, `observed`; `Publish`, `Repin` |
| `ToolsetDiff` | `diffToolsets`, `toolsetDigest` | operators, with `ToolLevel` (what `diffTool` says) as a parameter |
| `TrustStore` | `lib/trust.js` | functions from a record to a record, one per operation |
| `TrustSession` | session, client, middleware, guard, server, owner | one action per piece of code between two `await`s |
| `ManifestPolicy` | the manifest and the ways to make one; `checkCall` | operators |
| `PolicyRegister` | abstract: the file as a register that is replaced by comparing first | `Edit`, `Compare`, `Replace`, `Abandon` |
| `Fleet` | renewer, reapprover, auto-updating proxy, operator, `atomicWriteJson` step by step, crashes | one action per file-system step |
| `StdioProxy` | `bin/mcp-proxy.js` | one action per callback, split by outcome |
| `LineFile` | files of JSON lines under whole, torn and failed appends | operators |
| `ReceiptChain` | `lib/receipts.js`: append, resume, verify | operators |
| `AuditLog` | abstract: a log of authorized calls that are open | `Authorize`, `Record`, `Close` |
| `HttpProxy` | `bin/mcp-http-proxy.js` | one action per piece of a handler between two `await`s |
| `Introspection` | `validate` and its cache (auth.js), the provider | one action per piece between two `await`s |
| `EvidenceStore` | `lib/evidence-store.js` | processes that open, append, flush, rebuild |
| `NoValue` | the null of `Provenance`, `Scorecard` and `Probes` | a constant |
| `Provenance` | `buildManifest`, `signManifest`, `verifyManifest`, `bindingConsistency` | operators |
| `PinStore` | the operations of `lib/pin.js` on its data | operators |
| `Pins` | the commands pin, unpin, fingerprint, verify, manifest, sign | one action per piece of a command between file-system steps and probes |
| `Scorecard` | the checks of `lib/checks.js` and their credit | operators from an observation to a card and a score |
| `Scan` | `scan --batch --parallel`, `runHealthcheck`, `runRemoteHealthcheck` | workers and servers, one action per awaited step |
| `Probes` | the generator, planting of canaries, comparator and summary of `lib/behavior.js` | operators |
| `Behavior` | a reference run and a compared run over the stdio client | one action per callback |
| `MC*` | instances for TLC | values of the constants, restrictions of the initial states |
| `*Proofs` | theorems | see [Proofs](#proofs) |

`TrustSession` EXTENDS `TrustStore` EXTENDS `ToolsetDiff`, which takes the per-tool level
as a constant, so that what is proved of the session holds for every differ;
`MCTrustSession` gives that constant the value `ToolDiff` computes, so the runs check the
two together. `Fleet`, `StdioProxy` and
`HttpProxy` EXTEND `ManifestPolicy`; `HttpProxy` also `ReceiptChain`, which like
`EvidenceStore` EXTENDS `LineFile`. `Pins` EXTENDS `PinStore` EXTENDS `Provenance`;
`Scan` EXTENDS `Scorecard`; `Behavior` EXTENDS `Probes`.

Two detailed modules are shown to implement an abstract one. `Fleet` implements
`PolicyRegister` with `policy <- file` and `base` mapped to what the process between its
comparison and its rename has compared (`AtomicRegister`; checked and proved).
`HttpProxy` implements `AuditLog` with `authorized` mapped to the calls that were
forwarded, each with the manifest that admitted it, `open` to those of them whose handler
is not over, and `log` to the whole lines of the receipt file (`ReceiptsAreAudit`; checked
and proved).

## How actions correspond to the code

JavaScript runs one callback to its next `await`; an action is one such piece.

**Session.** `wire` is the server's stdout, `ready` the microtask queue.
`DeliverResponse` is one line handled by the client's reader: it settles the promise,
and the code after the `await` is `ResumeConnect`, `ResumeRefresh`, `ResumeEnumerate`
or `ResumeCall`, later. Between the two the owner (`Pin`, `Approve`, `ManualRevoke`,
`Close`, `Call`, ...) or further lines of the same chunk may run. `task[i]` says what
id `i` is awaited for; the timer of a pending request is `Timeout`. A rejected refresh
nobody awaits ends the process (`phase = "crashed"`), as an unhandled rejection does
in Node.

**Fleet.** `StartRenewal` and `StartReapproval` read the file, `Renew` and `Reapprove`
compute the next manifest from the listing, then `Lock`, `Compare`, `Save` (the backup),
`Rename` and `Unlock` are `atomicWriteJson`. `LockTaken`, `ChangedMeanwhile`,
`Unreachable` and `RefuseRenewal` are its failures. `Crash` leaves the lock file
behind, as the code does. `OperatorEdits`, `GenManifestOpens` and `GenManifest` are
writes without the lock, at any moment: an editor's, and the two halves of gen-manifest,
which empties the file (`file = NONE`: no reader can parse it) before it fills it. `raced`
is a ghost: the operator wrote after the writer in the critical section had compared.

**Stdio proxy.** `Call`, `TokenValidated`, `ValidationFails` and `Ask` are
`handleClientMessage` up to and after its one `await`; `ClientReplies` its first branch.
`Responded`, `ListedStrictly`, `ListedUpdating`, `Listed` and `ServerRequests` are the
branches of `handleServerMessage`. `stage` and `request` are `pendingServer` together
with the continuations that wait for a token; `relayed` is `pendingClient`. The `catch`
of the automatic update is `Listed`: everything an update changes, it changes after the
file is written.

**HTTP proxy.** `stage[i]` is where the handler of POST `i` is: waiting for its token,
for the upstream's response, for the next event of its stream, past its response, or
over. `under[i]` is `callManifest`, captured at the decision. `Response` is an answer that
uses up the POST's id; `Passing` is an event with a method, which the check of ids lets
through (`mcp-http-proxy.js:403`) and which is receipted like a response if it has a
result (`:498`), any number of times until the stream ends. A receipt's write is part
of the step that answers, since the sink is synchronous; its outcomes are those of
`LineFile`. `Stop` and `Start` are a signal and the next process, which resumes the
chain from the file or refuses to start.

**Tokens.** `Verify` is the built-in issuer, `Hit` and `Introspect` the two ways through
the cache, `Answered` and `Fails` the code after the `await`. An answer says what was
true when the provider gave it (`said`), and arrives at most `MaxDelay` later.

**Evidence.** A batch is grouped by day (`AppendBatch`), the lines of a group's file are
counted (`Counts`), and `Write` or `WriteFails` handles the group, so that processes
interleave and fail between files, and between counting and appending. `start` is the
count, from which the index takes the lines of the new records. `FlushIndex`
and `Flushes` are the two ends of writing the index in place; in between the file does
not parse, and stays so if the process is closed there.

**Pins.** `content` has the bytes of the files by inode, `pinFile` and `tmpFile` are the
two directory entries: `OpenTmp` empties the shared temporary file, `WriteTmp` writes
through a handle that may by then be the pin file, `RenameTmp` renames whatever has the
name. `acked` is a ghost: what the completed commands make of the first store. `raced`
is one too: a command loaded the pins while another was about to save its own. `verify`
takes any keys (`named`, of `--publisher-key`), the pins' publishers or not (`pinned`, of
`--pins`), and any or no server to probe; without keys and pins the manifest vouches for
itself.

**Scan.** `Take` is a worker that pulls the next entry; `Break` is one that pulls a falsy
entry and ends, with whatever is left in the queue; with one worker the scan is a loop
over the list, which drops nothing (`Parallel`). `Initialized`, `Listed`,
`Pinged` and their failures are the awaited steps of a health check, `ChildExits` the server
going away at any moment, and `Report` the exit code. A write to a server whose stdin
is gone has no error listener and ends the scan, be it the one of `tools/list` or of a
ping (`Crashes`).

**Behaviour.** `Answered` and `TimesOut` end a call, whose observation is compared at
once; `Prints` is a chunk of stderr, of which the client keeps `StderrCap`, and
`read` is the length of that buffer at the last observation, as in the code. A chunk has a
whole event or canary, a first half or the half that continues it; two halves make a
line only if they are in one slice (`Bears`), and a canary is looked for only in
the slice of its own probe (`CanaryFindings`).

## Runs

| Run | What it asks | Result |
|---|---|---|
| `ContractDrift` | Over every pair of a set of revisions: does a compatible one break a caller, or hide a moved hint, execution mode or injected description? | holds |
| `ErasedFinding` | Is a narrowed parameter always breaking? | **violated** |
| `Reconnects` | Two sessions over one record, two calls under a ceiling of one, timeouts, a failing handshake, handshake binding, late answers: revocation, admission, ceiling | holds |
| `Freshness` | A tool revised compatibly, without a finding, and incompatibly: do overlapping list_changed refreshes end with the server's toolset, and does the pin follow what the guard reads? (liveness) | holds |
| `FleetWrites` | Do the writers of one manifest file, with crashes and with edits and gen-manifest at any moment, implement the register, never loosen, save what they replace, and renew within the window, at its edge too? (refinement, liveness) | holds |
| `ProxyGate` | Three client requests, listings that drift, token validation, expiry, an edit of the file: is every forwarded call current, every shown tool callable, every request answered, once? (liveness) | holds |
| `HttpGate` | Two POSTs that interleave, two restarts, up to four receipts, failing receipt writes: is the drift set current, does a file that verifies tell everything, are receipts an audit log? (refinement) | holds |
| `TokenCache` | Overlapping validations, a revocation, late answers, a restart: how long after a revocation can a call still be granted? | holds |
| `EvidenceLog` | Two processes, batches that fail between files, torn lines, an index saved, stale or half written: does a query lie, does a rebuild find everything, does a verified store lack anything? | holds |
| `PinContinuity` | Three commands, two at a time, over one pin file and one manifest, with a kill: are pins kept, is continuity unique, was what passed signed? | holds |
| `ScanBatch` | One or two workers over every pair of twelve kinds of entry, and with an empty one between: does CI pass only on answers, does hiding tools pay, is every entry that is not dropped reported, does the scan end? (liveness) | holds |
| `Replay` | A reference run and a later one with answers early, late or never: does a run that passes behave as its reference, and did it miss what it looks for? | holds |

Each property of a passing run is accompanied in `PROJECT.json` by a mutant, a
plausible bug in the code, under which TLC finds that property violated. The mutants
are the operators commented `mutant`, or written as the flawed alternative just before
the definition they replace.

## Bounds

Every bound is a constant.

- **Session.** Two sessions in `Reconnects` (`MaxSessions`), one or two server changes
  (`MaxChanges`), one id per kind of request except where overlap is the question: two
  listener ids in `Freshness`, two call ids under a ceiling of one in `Reconnects`. An
  id is reused once nothing of its request is left. `Freshness` has no calls and one session; its
  tool starts with open parameters and becomes half closed, closed or open again in two
  changes, which are NON_BREAKING, BREAKING, or without a finding although the digest moves.
  A pin that outlives its session is in `Reconnects`, whose tools never change by themselves,
  and in the proof. The interesting cases are two actors (a refresh and a call, two
  refreshes, the owner and a late answer). Id sets are symmetric; symmetry is used in
  `Reconnects` only.
- **Fleet.** One process of each kind, two tools, two shapes, one scope, one edit (or
  gen-manifest), one server change, one crash, one tick. The lock has two contenders at once,
  three in all; the proofs cover any number. A manifest is valid for two units and renewed
  from one before its end, so the first one is outside its window before the tick and
  exactly on its edge after it. `FewMishaps` keeps the environment, and it alone, from doing
  everything in one behaviour: an edit and a release of the server meet, and so do a crash and
  a release; gen-manifest runs while the server and the processes stay as they are; the
  operator writes over a full manifest, not a legacy one; and a release redefines, drops or
  adds a tool, or has the first one ask for a scope. Nothing of that is fair, so `KeptFresh`
  is asked of the same processes. The proofs have no such limits.
- **Stdio proxy.** Three ids: two listings and a call around them, or a call that waits
  while two listings pass. Two tools, five listings, one token, four sets of flags, one
  edit, one tick, one request of the server. The first file has one tool that is
  allowed, overridden or denied.
- **HTTP proxy.** Two POSTs, two restarts, four receipts, three listings, three sets of flags,
  one edit, one tick. Two POSTs make two listings race, or a listing and a call. A call whose
  stream repeats its result gives several receipts, so two calls give four: a gap with
  something on either side of it, in each of three processes. More POSTs, receipts and
  restarts are left to the proofs.
- **Tokens.** Three validations, three tokens (one signed, one that expires early), cache
  lifetime 2, delay 1, four ticks, one restart: two answers can be on their way while an
  entry expires.
- **Evidence.** Two processes, three openings in all, three lines in all, batches of two,
  two days. A torn line, the record it swallows and one after it make three.
- **Pins.** Three commands of which two run at once, two origins of one server, two
  toolsets, two publishers, three changes of the manifest or the server (the least that
  build, sign and tamper need), one kill, with a legacy pin or none. Origins and
  publishers are symmetric.
- **Scan.** At most two workers, over lists of two entries, and of three with an empty one in the
  middle; the ten kinds of server reach every branch of the two health checks, and the empty
  string and null the two ways in which an entry is none.
- **Behaviour.** Two tools with two probed secrets between them, two pieces of stderr, one
  call that times out per run. Two pieces are an event and a canary, or the halves of
  either, in one slice or in two. The client keeps both (`StderrCap`): what it drops is
  covered by the proofs only.
- **Differ.** One parameter in every form, scalars, arrays and objects among them, and a second
  that comes and goes; texts and hints that move together. `ErasedFinding` needs a third
  parameter.

`CHECK_DEADLOCK FALSE` is set where a closed session, a stopped proxy, an ended command
or exhausted bounds end the behaviour.

## Fairness

- `TrustSession`: Node drains its queues (`Deliver`, `ResumeAny`) and the server answers
  every request. Nothing obliges the owner, and nothing obliges a timer.
- `Fleet`: `atomicWriteJson` blocks nowhere, so a process that began it ends it; the
  watch loop runs pass after pass (`renewal.js`); a server asked again and again answers
  once more (strong fairness of `Renew`). The operator, the reapprover's starting and the
  clock are not fair. `KeptFresh` supposes no crash: a lock file left behind blocks every
  later writer (`fleet.js:160`), and nothing removes it.
- `StdioProxy`: the introspection endpoint and the server answer. The proxy has no timeout
  of its own, so nothing weaker would do; the client and the end of the process are not
  fair.
- `Scan`: the scanner's own steps and its timers happen. Servers owe nothing: no answer and
  no exit is fair, so `ScanEnds` rests on the timeouts of `client.js`, `client-http.js`,
  `checks.js` and, for the package lookup, `npm.js` alone.

## Proofs

| Module | Theorem | Says |
|---|---|---|
| `TrustProofs` | `DangerIsSeen` | `DangerIsNeverCompatible`, for schemas of any depth |
| | `CallersAreKept` | `CompatibleKeepsCallers`, for schemas of any depth and any arguments, outside the [named exceptions](#where-the-code-falls-short-of-its-documents) |
| | `TypeCorrect` | types |
| | `RevocationIsSticky` | `RevocationHolds` |
| | `NoAdmissionAfterDrift` | `AdmissionStopsAtDrift` |
| | `CeilingIsKept` | `CeilingHolds`, for an enforcing guard that refuses unknown tools |
| | `PinIsTracked` | `PinTracksObservation`, under the default policy and any differ |
| `ManifestPolicyProofs` | `MaintenanceNeverLoosens` | renewal, reapproval and automatic update tighten, for every manifest and listing |
| | `ReapprovalIsPreservation` | the two codings, `reapproveServer` and `preserveProxyPolicy`, make the same policy |
| `FleetProofs` | `FleetTyped`, `LockExcludes` | types; mutual exclusion in `atomicWriteJson` |
| | `FleetSaves` | the backup is the policy that was replaced, unless the operator wrote in between |
| | `FleetNeverLoosens` | `NeverLoosens`, for any number of processes, crashes and edits at any moment |
| | `FleetImplementsRegister` | `Spec => Register!Spec` |
| `StdioProxyProofs` | `StdioTyped`, `StdioOneAnswer`, `StdioDriftIsCurrent`, `StdioShownIsCallable`, `StdioStrictStops`, `StdioEnforcedIsOnDisk`, `StdioForwardedIsCurrent` | every safety property of `ProxyGate`, for any requests, listings and flags |
| `HttpProxyProofs` | `HttpTyped`, `HttpDriftIsCurrent`, `HttpShownIsAllowed`, `HttpVerifiedIsComplete`, `HttpChainCommitsToFile` | the invariants of `HttpGate`, for any POSTs, restarts and receipt files |
| | `HttpReceiptsAreAudit` | `ReceiptsAreAudit`: `Spec => Audit!Spec` |
| `IntrospectionProofs` | `IntrospectionTyped`, `RevocationLapsesAlways` | the bound on a revocation, for any calls, tokens and times |
| `EvidenceProofs` | `EvidenceTyped`, `EvidenceLookupNeverLies`, `EvidenceRebuildFindsAll`, `EvidenceKeptAsRebuilt`, `EvidenceVerifiedHasAllWritten` | every property of `EvidenceLog`, for any processes, records, days and batches |
| `CommandProofs` | `PinsTyped`, `PinsSoleWriter`, `PinsContinuity`, `PinsPassedIsAttested` | the properties of `PinContinuity`, for any commands, servers and publishers |
| | `ScanTyped`, `ScanPassAnswered`, `ScanHidingNeverPays`, `ScanCardsAreTheList` | the invariants of `ScanBatch`, for any list, servers and workers |
| | `ReplayPassedAsReference`, `ReplayPassedMissedNothing` | the properties of `Replay`, for any tools, answers, filter, lines and timeouts |

`CommandProofs` has three parts, each with an invariant of its own (`PinsInv`, `ScanInv`,
`ReplayInv`): the specifications of the commands share no variable, and are named apart
(`ScanSpec`, `ReplaySpec`) so that one module can speak of all of them.

`TrustProofs` has four parts: the differ's verdict on one tool, the lemmas on the store's
operations (which of them leave REVOKED, which keep a record a record), the session, and
the pin against the listing.

**Assumptions.** The named `ASSUME`s of the modules. They say what kind of thing each
constant is, that the null values are none of the things they stand in for, and that a
contract does not differ from itself. `DiffAssumption` says that schemas are finite trees:
`Depth` is less for the schema of a property than for the schema it is in. TLC evaluates
them in the runs. `ToolListsAssumption` says that a server has no two tools of one name. A server
that lists a name twice has two probes of one id, and of their observations a reference keeps the
last (`behavior.js:640`); the properties of a replay are not about it. Two theorems have hypotheses of their own, which hold in their runs:

- `CeilingIsKept`: `Mode = "enforce"` and `~AllowUnknownTools`; a tool a guard lets through
  unlisted has no count.
- `PinIsTracked`: the store's default policy (`trust.js:70`: `AllowAutoRepin`,
  `AllowNewTools`). It is needed: under `allowNewTools: false` a listing with a new tool is
  a MISMATCH, and the same listing again, compared with the previous one, makes the record
  PINNED with the old pin (`trust.js:145`). Of the differ nothing is supposed. Changes
  without a finding leave the pin as it is, and the property says just that: the pin leads to
  the observation by such changes only (`Unnoticed`), which may add up to a breaking one
  ([below](#where-the-code-falls-short-of-its-documents)).

**Arguments.**

- *Differ.* `DiffSchema` is a recursive function on pairs of schemas, and nothing lets a prover
  unfold one unless a function that solves the equation exists. `RightExists` shows that one
  does up to every depth, and `RightAgree` that any two agree, both by a least depth at which
  it fails (`LeastNat`, from the well-founded order of the naturals, takes the place of
  induction, which the provers cannot apply). The fold over notes is treated alike
  (`JoinedLemma`): its last value has at least the rank of each ranked note, if no unranked one
  follows (`NoteKept`). `DangerIsSeen` rests on the order of the rules: hints, execution and
  description come after everything that may be unranked. For `CallersAreKept` each parameter's
  notes are mild, so each keyword of `validateArgs` admits what it admitted, at every place of two
  nested schemas: `ClaimLemma`, by a least depth at which the claim fails (`ClaimStep`). The
  recursive functions of both sides, `Hidden` and `Valid`, are unfolded by `HiddenIs` and
  `ValidIs` as `DiffSchema` is.

- *Session.* `TypeOK` is not inductive alone, because a settled listing must carry a
  toolset and a settled call must not; `Typing` adds that, and that connect() has one
  listing at most. `RevocationHolds` is inductive on top of them because the only step
  that lifts REVOKED is `Approve`, which also clears `drifted`, and because `Judged`
  revokes whenever it sets `drifted` — which needs that an incompatible diff against a
  present pin is `Mismatched`. `AdmissionStopsAtDrift` follows: an enforcing guard refuses
  when REVOKED; that a PINNED record has a pin is a further invariant. `CeilingHolds` needs
  to know where admitted calls are: per tool, those served, those admitted and not yet
  sent, and those in the pipe add up to no more than the guard's count, which stays within
  the ceiling.
  `PinTracksObservation` is made inductive by `Tracks`, which says the same in every state but
  REVOKED: a listing that is judged either re-pins, or revokes, or has no finding against the
  one before, which adds a step to the way from the pin (`UnnoticedLemma`). It needs `Orphans`:
  while a new connection is being made, nothing in flight answers a listing of the one before,
  or a stale listing would be judged against the new observation.
- *Fleet.* The inductive invariant says, per place of a process, what it holds: in the
  critical section the lock is its own; between `Compare` and `Rename` the file is what it
  read, and after `Save` the backup is that, unless the operator has written (`raced`); and
  what it is about to write is a renewal, a reapproval or an update of what it read (`JobOK`).
  Then `Compare` and `Rename` are a `Compare` and a `Replace` of the register, a write of the
  operator is an `Edit`, a process that dies in between an `Abandon`, everything else a
  stutter.
- *Stdio proxy.* `IInv` is the types, `OneAnswer`, `ValidationIsOn` (a call waits only
  where there is a validator) and `Gate`: drift set, listing shown and strictness, none of
  which is inductive without the others, since each branch of a listing moves all three.
  `ForwardedIsCurrent` is then a fact about one step: whichever action forwards, it decides
  in the state it forwards in.
- *HTTP proxy.* `Gate` as above. `Tells(lines)`: each line of a file that verifies commits to
  all the lines up to it; it is kept by every outcome of a write because a torn or garbled
  line makes the file not verify for good, and a whole one verifies only if its parent is
  the digest of the line before. `ChainCommitsToFile` needs `Tells` at a restart, where the
  head is taken from the last line. For the audit log, `Audited`: a receipt on a line of its
  own names the manifest its POST was forwarded under, and a call in flight has one. Every
  step is then `Authorize`, `Record`, `Close` or a stutter: a result is receipted, as a response
  or as an event with a method, while its handler runs; torn, garbled and failed writes
  change no whole line and add none.
- *Evidence.* `IInv` is the types, where a record is in the file of its day; `IndexesSound`
  (an index, also the saved one, lists under a key only what has it); `LossShows` (a written
  record is in its file, or a line there is garbled); `Waiting` (the groups to be written are of
  different files and of records the index lacks); `Alone` (the first process finds nothing, and
  while it is the only one its count is the length of the file); and `Kept` (its index says of
  each record it has what a rebuilt one would, as long as every line parses).
  `LookupNeverLies` needs `IndexesSound` only, as `Read` checks the line: stale places are
  harmless, a wrong list is not. `Kept` needs `Waiting` and `Alone`: a line number
  is right if nothing was appended since it was counted.
- *Tokens.* `EntriesAge`: an entry is no younger than the revocation plus an answer's travel.
  `AnswersWereTrue`: an answer on its way is young, and positive only if it was given before
  the revocation. A grant comes from a signature (`SignedStay`: those are not revoked), from
  an entry or from an answer.
- *Pins.* `SaverIsAlone`: without a race one command at most is between loading and saving,
  its store is the completed one with its own effect, and the temporary file it writes is
  its own, so a kill leaves the pin file alone. `StoresAreSound`: in every file and every
  command one pin at most dates from before origins were bound, as `PinServer` moves it and
  never copies it. `SignedIsAttested` and `PassesAreBacked`: a signature tells what was
  signed, and a command that may yet pass read a manifest that was.

- *Scan.* `ScanInv` is the types and who has what: the queue is the rest of the list, in order
  (`QueueIsTheRest`); an entry that was taken, and was not dropped, and has no card is in a
  worker's hands (`InHand`); as many workers as entries were dropped have ended, and others
  only at an empty queue (`DropsEndWorkers`); a card is among the results once
  (`CardsAreScored`). So when all workers have ended, an entry has no card just if it was
  dropped, or as many were dropped before it as there are workers (`Lost`). `ProbesTell` says what can have been seen at each stage and of
  whom: nothing after the handshake, unless the server answered initialize. The rest is
  arithmetic of the card. Without a handshake a probe gets at most 15 points for the package,
  15 for asking for its configuration and 10 for authentication (`Unanswered`), less than the
  50 `PassIsEarned` needs; and every check gives a listing at least what it gives the lack of
  one (`ListingPays`, of any tools whose analysis does not throw; the sum is made of named
  checks, so each is a case by itself).
- *Replay.* No two probes have one id: in a tool by their index, across tools by its name
  (`SelectedApart`, from `FlattenedApart`: what sequences without a common element flatten to
  has none twice). `CallsAreMade`: what is in the pipe was asked once and answered by the
  server of this run, and no call in the pipe is asked again, so the answer that is taken is that
  of the call in progress, however many calls timed out before. `ObservedIsAnswered` and
  `ReferenceIsAnswered`: an observation is a timeout or of the answer that was given; an answer
  that comes late changes none, since the call it is of was observed as a timeout.
  `CallsAreJudged`: each call that is over left a finding of medium severity or above, or was
  answered harmlessly and like the reference (`NoFinding`). `LinesAreJudged`: while the client
  kept all that was printed, the slice that is read begins where the last one ended, so that
  pieces read during one call are judged together, at its end (`PiecesAreRead`).

**Only model-checked.** The liveness properties: `AnnouncedChangesAreSeen`, `KeptFresh`,
`EveryRequestAnswered`, `ScanEnds`. They need fairness of actions, which is ENABLED, and a
count that runs down, which is induction. Every invariant and every action property of a
passing run is stated by a theorem. What `ErasedFinding` shows violated is false of the
code, and nothing is proved of it.

## Where the code falls short of its documents

The run `ErasedFinding` shows a bug (`diff.js:31`): `maxLevel` compares with
`CHANGE_LEVEL["SUSPECT_DOMAIN"]`, which does not exist, so that finding erases a BREAKING
one before it and is erased by the next. `diff.js:8` says a narrowed domain is BREAKING,
and `docs/SPEC.md:80-84` ranks the levels.

Met while modelling, kept in the models as the code has it, and left out of the properties
where they would fail:

- `session.js:83`: the list_changed listener is registered after the first listing was
  awaited; an announcement in between is lost (`docs/SPEC.md:240-242` has it trigger an
  immediate re-enumeration). `AnnouncedChangesAreSeen` is about announcements from then on.
- `session.js:111`: `refresh` diffs with the previous observation, not the pin, so a rejected
  listing seen again counts as DIGEST_MATCH (`trust.js:139`: "against the pin").
- `diff.js:332` summarizes every NONE as "digest match", but a tool that differs only where no
  rule looks (the items of an array, a schema under `additionalProperties`, the title among the
  annotations, `identity.js:24`) is NONE with another digest: the record stays PINNED with
  the old one (`trust.js:146`). Such changes add up: `additionalProperties` that go from open to
  a schema and from there to false have no finding either time, although the diff of the
  pin and the last listing is BREAKING. `PinTracksObservation` is about the pin up to such
  steps (`Unnoticed`).
- `diff.js:139`: `diffSchema` compares properties and no items, so an array parameter whose
  elements lose a type is compatible, while `validateArgs` (`guard.js:212-217`) refuses
  elements it admitted before (`diff.js:8`: "an input parameter's type/domain narrowing").
- `trust.js:159`: the MISMATCH that `allowNewTools: false` gives an added tool ends with the next
  listing, unchanged, since that is compared with the one before (`trust.js:145`).
- `guard.js:145`: the guard's receipt reads the observation at the answer, not at the
  decision (`guard.js:139` "binds the exact contract version to the call"). The strict
  guard validates against the observed and not the pinned schema (`guard.js:89`, `110`).
- `mcp-proxy.js:372`: the drift set is that of the latest listing alone; a listing without the
  tool, such as the next page of a cursor, empties it (`docs/OPERATIONS.md:29`).
- A tool that is dropped and returns across two reapprovals or updates comes back without
  the denial it had (`fleet.js:243`, `mcp-proxy.js:407`): `NeverLoosens` is about tools that
  stay listed.
- `mcp-trustcard.js:463`: `gen-manifest` empties the manifest in place, fills it, and takes no
  lock. Who reads in between finds no manifest; a writer between its comparison and its
  rename replaces what gen-manifest wrote, without a copy. An operator's editor is in the
  same position. `AtomicRegister`, `NeverLoosens` and `ReplacedIsSaved` say what is left: such
  a write is lost in that window only, and no automatic write is ever lost.
- `mcp-http-proxy.js:403` checks the ids of events without a method only; an event with a
  method, any id and a result is receipted (`:498`), each time, and does not use up the
  call's answer. So a call may have several receipts; `ReceiptsAreAudit` has it that
  each is of a call that was authorized and is open, under the manifest it was authorized by.
- `mcp-trustcard.js:660-711`: `verify` without `--pins` and `--publisher-key` passes on any
  manifest that verifies under the key it brings itself. `PassedIsAttested` says of such a pass
  only that the manifest was signed as it is; whose key it was it says of the anchored ones.
- `evidence-store.js:563`: an index saved and loaded again has its layers under text keys,
  where a query for a number misses them. `LookupNeverLies` is about what is found.
- `mcp-trustcard.js:272`: a worker that pulls a falsy entry breaks out of its loop, and the
  rest of the queue is never probed if every worker met one; the scan exits 0 if the cards it
  has pass (`:237`: "exit non-zero if any server scores below the pass bar").
  `CardsAreTheList` says which entries have no card.
- `checks.js:745` reads `errors` of a validation result that has `issues`: a remote server with
  an invalid schema loses its card to the exception, where a local one gets a warning
  (`checks.js:680`: "Reuses the same check structure as the stdio healthcheck"); a malformed
  entry of its list breaks the card too, and `null` in it ends the scan (`mcp-trustcard.js:177`).
  Hiding such a list pays, and `HidingNeverPays` excepts it.
- `client.js:98` keeps the last 16000 characters of stderr, and `behavior.js` slices from a
  remembered length: once the buffer is full, events are missed. It looks for a canary in the slice of its own
  probe (`behavior.js:701-705`) and splits each slice at line ends (`:264`, `:769`), so a canary
  printed late, and a line cut by two slices, are missed. A secret-like name and a
  secret-like title or description plant and look for canaries by different rules, so
  `PassedMissedNothing` is about fields that are secret-like by name.
- `client.js:154`: the server's stdin has no error listener; a server that closes it at the
  wrong moment ends a whole scan, and the results it had.
- A revision the differ calls compatible may narrow what `validateArgs` admits.
  `CompatibleKeepsCallers` excepts the places where the differ does not see it, and holds
  everywhere else: unranked findings (`Unranked`), an enum where there was none
  (`EnumIntroduced`), a parameter removed under `additionalProperties: false`
  (`RemovedUnderClosed`), a new optional parameter with a domain (`AddedWithADomain`), a
  schema under `additionalProperties` replaced by false (`ClosedUnseen`), items
  (`ItemsChanged`), and a schema that is an object's only from now on (`ReadOtherwise`).

## Abstractions

- A hash or digest stands for what it hashes. A signature (`Provenance`) tells who signed
  what and cannot be made without the key; the receipts' one key signs everything.
- A contract is a revision (session side) or a shape, an extra part and declared scopes
  (manifest side): what the manifest's three hashes tell apart. The proofs
  are of schemas of any depth; in the runs a schema is one level of properties.
- *Session.* Servers list names in a fixed order. A line is a JSON object: at a line `null` the
  client's reader throws and the program ends (`client.js:123`). The history of a record is cut to its last
  reason. A pipe is first in, first out. A server's error answer has the effect of a rejected
  promise, as a timeout has. A new session opens once the old pipe yields nothing more. A
  `null` guard and a `null` `maxCallsPerTool` are not modelled.
- *Manifest.* `valid`: `assertProxyManifest` accepts it. Signed manifests, which the code
  refuses, are among the invalid ones. Only the last backup is kept; temporary files of dead
  processes are not modelled. The operator's editor writes in one step, gen-manifest in two; both
  at any moment, whatever lock file there is. If a process renames its file over the one
  gen-manifest has open, what gen-manifest writes goes to no file, and has no effect.
- *Proxies.* Argument validation may refuse any call. In `StdioProxy` a validated token has the
  scopes it was issued with or is not valid, which allows more than `lib/auth.js` does;
  `Introspection` has the cache in detail. A forged, repeated or late response is dropped, a
  stutter. A client's ids are fresh, listings are well formed, lines are JSON; the hazards
  `mcp-proxy.js:323` and `:512` name what lies behind that. In `HttpProxy` a POST is one
  request; the pass-through of GET and DELETE is not modelled, nor is a batch, whose array has
  no `method`: the proxy forwards it as it is and checks none of its calls.
- *Files of lines.* An append is whole, torn, or nothing; a line after a torn one is garbled
  together with it. A line of which all but the line end was written counts as torn.
- *Tokens.* `MaxDelay`, how long an answer of the provider travels, is an assumption about the
  network; the code has no such limit unless the connection has. The clock has the
  granularity of ticks.
- *Pins.* A server pin is its toolset and when it was first pinned; `serverDigest` is folded
  in what it is of. `manifest` and `sign` replace the manifest in one step, between the steps
  of the other commands. `MaxRunning` bounds how many commands are at work at once.
- *Scan.* A tool list is the numbers and flaws the checks count. What failed texts say (the
  classification of failures) is the observation's; weights and thresholds are the code's.
- *Behaviour.* Argument values are where the canary is planted and whether it fits; an answer
  is a value and what it shows of the canary, the marker and the url. Observations of the
  compared run are not kept, as nothing reads them.

## What is not modelled

- The policy engine (`lib/policy.js`, `lib/change.js`): a table from one change to an action.
- Key rotation and descriptors (`lib/rotation.js`, `lib/descriptor.js`): documents built,
  signed and verified one at a time; rotation certificates are used by no command.
- Existence probes (`lib/existence.js`, `lib/npm.js`): one-shot requests and classifications.
- The danger detector's text heuristics, an uninterpreted relation in `ManifestPolicy`.
- Evidence records and adapters: constructors and validators of records that `EvidenceStore`
  takes as they are.
- Canonical form, redaction, console and reports: formatting.
- The rest of the command line and of the operations server: parsing of arguments and one
  call of a library each. Discovery of client configurations in `fleet.js`.
- Batch scripts, demonstration servers and recorded data. `scan-ecosystem` is modelled as a
  writer of `EvidenceStore` without an index.

They are sequential and keep little state, or are heuristics over text.
