# Verification of browser-cortex

TLA+ models of browser-cortex, the TLC configurations that check them on small instances,
and TLAPS proofs of the most important properties for every instance. Paths are those of
the repository; line numbers are in `PROJECT.json` (`map`), one entry per definition that
models code.

## 1. The system

browser-cortex is a set of TypeScript packages, and an extension and a workbench built
from them, that let a web page or a person use a local model on private data, and act on a
page, under approvals. It runs in browser pages and workers: one thread per page, so code
between two `await`s is atomic, and everything that goes wrong goes wrong at an `await`,
at a crash of the page or worker, or between two of the stores.

| component | state it keeps | operations | talks to |
|---|---|---|---|
| workflow interpreter (`packages/workflows/interpreter.ts`) | the local variables of one `run()`; the checkpoint in a `CheckpointStore` | `run` (start and resume) | checkpoint store, approval broker, tools, export adapter, caller's signal |
| workflow approval broker (`workflows/approval.ts`) | map handle → binding, approved, consumed | `request`, `consume`, `revoke`, `clear` | the person (a callback), the interpreter |
| workflow validation, compiler, expressions, operations | none | pure functions | interpreter |
| policy approval store (`policy/approvals.ts`) | map handle → approval, use count | `issue`, `consume`, `revoke`, `purgeExpired` | egress broker, extension broker |
| capability grants (`policy/grants.ts`) | map id → grant, use count | `add`, `authorize`, `revoke` | extension, hosts |
| egress broker (`core/egress.ts`) | none between calls | `sendApproved` | approval store, host's context check, transport |
| runtime scheduler (`core/scheduler.ts`) | queue, active entry, request ids, disposed | `schedule`, `cancel`, `dispose`, drain | jobs (model calls), callers' signals |
| Cortex façade (`core/cortex.ts`), router, recovery | proposals, executed ids, active controllers | `initialize`, `propose`, `execute`, `cancel`, `dispose` | plugins, router, recovery controller |
| memory vault (`memory/vault.ts`) | header, key, decrypted records, epoch, operation tail, auto-lock timer | 20 public operations | storage adapter, crypto, embedding provider |
| memory storage (`memory/storage.ts`) | IndexedDB: header, encrypted records, migration state | transactions | vault |
| memory migration (`memory/migrations.ts`) | a retained migration state | prepare, commit, verify, finalize, roll back | vault, storage |
| bridge sessions (`bridge/sessions.ts`) | sessions: budget, last use, seen request ids | `create`, `authorize`, `revoke` | extension, page |
| model runtimes (`runtime-webllm`, `runtime-transformers`) | engine, worker, shared load promise | `load`, `generate`/`embed`, `unload`, `dispose` | worker, scheduler |
| extension broker (`apps/extension/background`) | grants, pending previews and actions, runs, a durable run | message handlers, tab and storage events | content script, panel, approval store, `chrome.storage` |
| recordings (`background`, `content`, `shared/demo-contract.ts`) | one session per tab, its events, completed recordings; the active session of the content script | start, bind, click, stop, status, discard, compile | panel, content script, extension broker |
| workbench (`apps/workbench/src/integrations.ts`) | vault handle, pending proposal, reviewed exports, disclosures, online session, compiled plan | the functions behind the page's buttons | all packages, gateway |
| developer gateway (`examples/developer-online-gateway`) | used nonces with their expiry | the request handler | workbench, upstream model |
| retrieval (`memory/retrieval.ts`), ingest (`memory/ingest.ts`) | none; retrieval reads the store before and after an await | search, chunking, import checks | vault, embedding runtime |
| privacy (`packages/privacy`), contracts (`packages/contracts`) | none | detect, redact, rehydrate; canonical texts | all |
| content script, panel, options, demo, examples | user interface | | packages |

How they interact. A workflow run asks the approval broker for a review and later spends
the handle, writing its checkpoint around every write. The egress broker spends a handle
of the policy store, asks its host whether the context still is the approved one, and
sends. The vault runs its operations one at a time over the storage. The scheduler puts
one model call at a time on the worker. The extension broker combines grants, approvals
and a durable run over a service worker that the browser stops at will.

What is hard. (1) State read before an `await` and used after it: `consume` of both
approval stores, `sendApproved`, `#importEncrypted`, `propose`. (2) A crash between a
write, its marker and its completion. (3) A storage call that fails, or reports failure
after it became durable. (4) Timers, signals and late answers in a race. (5) `lock()`,
`cancel()`, `unload()` and tab events that do not wait for their turn. `PROJECT.json`
lists each place under `hazards`.

What makes each component correct:

- interpreter: no write without a matching approval, no approval used twice, no write
  whose outcome is unknown is forgotten, called failed, or repeated without a key; every
  call settles.
- approval stores: as many uses as approved, bound to what was approved, none after
  revocation.
- egress: nothing leaves that was not approved in the present context and asked for in the
  lifetime of its approval; what was revoked or found expired is never used again.
- scheduler: one job at a time, order of the lanes, one answer per call, cancellation
  reaches its job only.
- vault: records and header always belong together; `lock()` is final; what was
  acknowledged survives crash, recovery and rollback; a revocation is complete.
- extension: a verdict kept anywhere is true, a write nobody knows the end of is marked
  where a restart finds it, and a confirmed revocation is final.
- recordings: what is kept happened in one document, in that order, and between one start
  and one stop.
- migration: whatever fails, the old vault or the new one, whole, and one page never takes
  back what another stored in it.
- façade: a proposal executes once, along the route that was shown, and nothing runs on
  after `dispose()` without having been cancelled.
- workbench: what it sends or runs is what it showed, once, and a lock forgets it.
- bridge sessions, grants, gateway: a budget holds in whatever order calls, removals,
  clock and retries come.
- model runtimes: one model in memory; a load cannot be undone by a call that merely
  shared it; leave to fetch belongs to one load.
- plans and what they compute, texts, searches, answers, fingerprints, saved recordings:
  what is used was granted, nothing is lost on the way to storage and nothing found is
  shown on the way out, and what is compared by its text is compared by its value.

## 2. Modules

| module | models | built from |
|---|---|---|
| `ApprovalBroker` | `workflows/approval.ts`, with `consume` cut at its await | |
| `WorkflowRun` | `workflows/interpreter.ts` and the checkpoint store for one run id, any number of calls of `run()`, crashes, resumption | instance of `ApprovalBroker` |
| `MCWorkflowRun` | plans for TLC | extends `WorkflowRun` |
| `WorkflowRunProofs` | TLAPS proofs: types, approvals; then one use, markers, outcomes | extends `WorkflowRun`, `TLAPS` |
| `ApprovalStore` | `policy/approvals.ts`, with `consume` cut at its await | |
| `EgressBroker` | `core/egress.ts`, concurrent calls, the host's context and clock | instance of `ApprovalStore` |
| `EgressBrokerProofs` | TLAPS proofs | extends `EgressBroker`, `TLAPS` |
| `TwoLaneScheduler` | what the scheduler promises (abstract) | |
| `RuntimeScheduler` | `core/scheduler.ts` | implements `TwoLaneScheduler` |
| `ModelRuntime` | `runtime-webllm/index.ts` | |
| `EmbeddingRuntime` | `runtime-transformers/index.ts`, several instances over one library | |
| `MemoryVault` | `memory/vault.ts` over `memory/storage.ts`, one page | |
| `MemoryVaultProofs` | TLAPS proofs | extends `MemoryVault`, `TLAPS` |
| `VaultMigration` | `memory/migrations.ts`, the first half of `unlock`, the migration transactions of `storage.ts`, two pages | |
| `ExtensionBroker` | the action broker of `apps/extension/background/index.ts` with `content/index.ts`, one tab, `chrome.storage` | |
| `ExtensionBrokerProofs` | TLAPS proofs: types, revocation, verdicts, restarts, the durable record | extends `ExtensionBroker`, `TLAPS` |
| `DemoRecording` | recording in `background/index.ts`, `content/index.ts` and `shared/demo-contract.ts` | |
| `CortexTasks` | `core/cortex.ts` with `router.ts` | |
| `Workbench` | the module state of `apps/workbench/src/integrations.ts` | |
| `BridgeSessions` | `bridge/sessions.ts` | |
| `CapabilityGrants` | `policy/grants.ts` | |
| `Gateway` | `developer-online-gateway/src/gateway.ts` | |
| `WorkflowPlans` | `workflows/compiler.ts`, `validation.ts`, authority and references of `interpreter.ts` | |
| `WorkflowData` | `workflows/csv.ts`, `expressions.ts`, `operations.ts`, the CSV check of `memory/ingest.ts` | |
| `PrivateText` | `memory/ingest.ts` (chunks), `privacy/detectors.ts`, `redaction.ts`, `disclosure.ts` | |
| `Retrieval` | `memory/retrieval.ts` | |
| `GroundedAnswers` | `localModelExecute` of the workbench, `core/structured-output.ts` | |
| `CanonicalJson` | `contracts/json.ts`, `workflows/canonical.ts` | |
| `DemoContract` | snapshots and saved recordings in `shared/demo-contract.ts` | |
| `ComputationProofs` | TLAPS proofs: plans, searches, answers, the demo contract | extends the four modules, `TLAPS` |
| `MCExtension` | for TLC | extends `MCExtensionBroker`, instance of `DemoRecording` |
| `RecordingProofs` | TLAPS proofs: the recordings, and the types of both | extends `MCExtension`, `ExtensionBrokerProofs` |
| `MCRuntimes` | for TLC | extends `RuntimeScheduler`, instances of `ModelRuntime`, `EmbeddingRuntime` |
| `RuntimesProofs` | TLAPS proofs: the scheduler and that it implements `TwoLaneScheduler`, the model and the embedding runtimes | extends `MCRuntimes`, `TLAPS` |
| `Services` | `CortexTasks`, `Workbench`, `BridgeSessions`, `CapabilityGrants`, `Gateway` and `VaultMigration` side by side | instances of the six |
| `ServicesProofs` | TLAPS proofs | extends `Services`, `TLAPS` |
| `MCServices` | for TLC | extends `Services`, instances of the modules from `WorkflowPlans` to `DemoContract` |
| `MCEgressBroker`, `MCMemoryVault`, `MCExtensionBroker` | instances for TLC | |

`MCExtension`, `MCRuntimes` and `MCServices` put several components that share no state in
one run. A variable `part` says which component a behaviour is about; the variables of the
others keep their initial values, so the states add up instead of multiplying and nothing
is said about a composition that the code does not have. The proofs about `Services` do not
restrict it in this way: its `Next` is a step of any of the six, in any order.

### WorkflowRun and ApprovalBroker

An executor is one call of `run()`. `pc[e]` names the await it stands at; the block of
code up to the next await is one action. `cp[e]` is the local `checkpoint`, `store` the
durable one; `next`, `active` are `nextStepIndex` and `activeStep`. A save (`Saves`,
`SaveFails`) can fail before or after it became durable. A tool may answer, throw or never
answer; `Interrupt` is the race of `withTimeout` lost to the timer or the signal. The
effect itself is outside the program, so the model records the hand-over (`sends`) and
what was seen to succeed (`confirmed`). `SentWritesAreRecorded` relates the two to what is
stored: a write is named as under way, or was seen to succeed and is behind, also when the
save after its success fails. `Crash` ends the page: only `store` and the
history are left, and a new executor resumes.

Abstractions: a step is one of four kinds (no outside effect; approval; tool with an
effect; export), its arguments a model value; expression values only matter as far as they
carry approval handles. The model assumes what `validation.ts` guarantees: references
point backwards and an export has no key. Resuming is the only way to use a run id again
(a caller that starts afresh under a used id overwrites its checkpoint, by design of the
API). The receipts and the text of the idempotency key are left out; so is the test at
`interpreter.ts:324` for a checkpoint already unknown, which no path reaches inside the
catch block. Deleting a checkpoint is left to hosts, and none does so during a run.

### ApprovalStore and EgressBroker

`taken[h]` holds the calls that got a use of handle `h`. `consume` reads the clock and
then awaits the fingerprint, and everything after that await is one action, so its time
(`askedAt`) can be old. The clock moves in both directions, the context changes at any
moment, and `validateApprovalContext`, which the host supplies, is external: it answers
for the context of the moment or throws. `matched` is a history variable: did the context
fit the disclosure at some time since the approval was taken? `revoked` and `lapsed` are
history variables of the store: handles that were revoked, and handles that somebody found
out of their time. The code deletes both, and `ExpiryIsFinal` says that the deletion is
what counts: a clock set back, or a time read before the await of the fingerprint, would
let an approval that stayed in the map be used again.

### RuntimeScheduler and TwoLaneScheduler

Every method is synchronous and the drain starts the next job in the block that settles
the previous one, so each method is one action. Jobs may ignore their signal or never
settle. The queue is the one array of the code: `schedule` looks for the index of the first
embedding (`FirstEmbedding`, `findIndex`) and inserts a generation before it (`InsertAt`,
`splice`), a cancellation removes by index (`RemoveAt`). The abstract module keeps two
lanes; `KeepsLanes` is the refinement in which the part of the queue before the first
embedding is the first lane and the rest is the second. That the rest holds no generation
is no assumption but part of what is proved (`GenerationsFirst`). The branch that finds a
dequeued entry aborted is never taken, since a cancelled entry has left the queue.

### ModelRuntime and EmbeddingRuntime

`ModelRuntime`: `engine`, `worker` and `loading` are the private fields, each named by the
call whose load it came from; `stage[l]` is how far load `l` has come. The first caller
begins a load under its own signal, later ones await its promise (`ShareLoad`).
`Verified`, `Created` and `LoadFails` settle the load and everyone who shares it; `Reset`
is `#reset`, which terminates a worker only if it still is the load's; `WorkerFails` is
the worker's error event. `undercut` is a history variable: the host called `unload` or
`dispose` in the middle of a load. The runtime does not defend against that (the load goes
on and sets an engine whose worker it has forgotten), so `OneWorker` and `InstallStays`
are stated for hosts that do not, as the panel does not.

`EmbeddingRuntime`: `line` is `transformersEnvironmentQueue`, `env` the three global
settings of the library. `Enter` and `Leave` are the two halves of
`withTransformersEnvironment`; a load that is aborted leaves, and its pipeline goes on
outside its turn. `EnvironmentIsScoped` relates the global to the one load inside.
Prompts, vectors, streams and progress are left out.

### MemoryVault

`queue` and `job` are the operation tail. All that matters of a waiting operation is
whether its epoch still is the present one, so the queue holds one boolean each, and which
operation it is gets decided at its turn. `job.at` is the await at which the running one
stands; `Write`/`Land`/`WriteFails` are one transaction of `#save` or `#deleteByIds`,
`Swap`/`SwapLands`/`SwapFails` one of `replaceAll`, `setHeader` or `clear`. `Lock` takes
effect at once, anywhere, and makes the running and waiting operations overtaken. `Crash`
keeps `header` and `store`. A storage call that rejects has not become durable, unless
`LateErrors` is TRUE.

Abstractions: a record is its id, what it names, and two marks; chunks and embeddings come
and go with their revision and are folded into it; derived records, saved workflows and
receipts, which the deletions treat alike, are `Artifacts`; there is one workspace; a key
is what a record can be decrypted with. A fresh key is never one of an archive. The random
ids that the vault makes are never used twice (`Used`); the id of a document may be the
caller's choice. The kinds of record are told apart by their ids (`Kinds`); that a caller
chooses for a document the id of a record of another kind is left out, since the vault
refuses it (`vault.ts:537`). What `unlock` does with an older schema is `VaultMigration`.

### VaultMigration

`at[p]` is the await of `unlock` at which page `p` stands. `store` is the database: the
schema of the header, the migration whose records are active, whether they are what was
written, whether somebody wrote since (`written`), the retained migration and its backup.
`Commit`, `Rollback` and `Finalize` are one transaction each, and `Continues` is the code
after it: the call may have failed after it became durable, and the code reads the state
again. `Lock` overtakes any await, `PageEnds` loses the page's variables. Records and
digests are abstract: equal or not. `OldOrNew` says that header and records are of one
schema, that a whole backup is kept while the active records are not whole, and that
nothing that was stored after a page opened the migrated vault is rolled back by another
page.

### CortexTasks

`pc[c]` is the await of `propose` or `execute`; `reading[c]` is what `routeEnvironment`
found when it was called, which may be outdated when it is used; `Decide` is
`DeterministicRouter.decide`, its order of reasons kept (`Obstacles`, `First`). `Reserve`
is the block that takes the proposal and marks the request executed before the first await
of an execution. Plugins only run, end or heed their signal.

### Workbench

One action per function and per await behind it; `does[j]`, `uses[j]` and `under[j]` are
what a call does, what it took and the session it read when it began. `LockVault` is
`lockVault` and the vault's timer: it clears at once what is private, while calls in
flight go on. The packages that the page calls appear only as far as their answer matters
to the page's variables; their own modules check the rest.

### BridgeSessions, CapabilityGrants, Gateway

No call of the first two awaits, so each is one action; the order of its checks is kept,
because it decides whether a refused message costs budget, ends the session, or leaves no
trace. `authorized` and `allowedUses` are history variables that the code does not have:
they count what was let through, against which the code's own counters are held. The
gateway's handler awaits the body and the upstream; the check and the memory of a nonce
are one block (`Accept`), preceded by the sweep of expired nonces.

### The computations

`WorkflowPlans` compiles or is given a plan, validates it, checks its authority, and then
runs its steps as far as references and capabilities go; `PlansRunAsGranted` says that a
validated plan never reads a reference that is not there, except of a step that failed and
was told to continue, and uses no capability, tool or revision that was not granted, also
after it was resumed under another authority. `WorkflowData` is checked against reference
definitions: a table written as CSV is read back but for the guard against formulas, and
passes the import check; a filter and its opposite split the rows; sorted rows are ordered
and stable; sums are of one currency. `PrivateText`: every position that a finding or a
custom term covers is hidden in what is sent and rehydration restores it. Custom terms are
sought in the lower-cased text, which one of the letters makes longer (`Lower`), and their
places there are used in the text, as the code does; `HidesWhatWasFound` therefore promises
that a term is hidden only where no such letter stands before it or in it (section 5). The
chunks of a document, overlapping, hold all of it. `Retrieval`: the result of a search is the one over
a store that never held what the caller may not see (`LeavesNoTrace`), and only of current
revisions, although the embedding of the query is awaited in between. `GroundedAnswers`:
whatever the model writes, first or as its repair, is quoted from the selected passages or
refused. `CanonicalJson`: one text, one value. `DemoContract`: what is taken back from
storage is what some recording compiles to.

In these modules a character is one of the classes the code tells apart, numbers are
small, and scores are integers ordered as the code's are. Those that recurse over data are
only run by TLC.

### ExtensionBroker

A handle names an approval, the action it was issued for and the run made of it; `pc[h]`
is the await of `executeDemoAction` it stands at. `runs`, `inForce` and `reviews` are the
worker's memory, lost by `StopWorker`; `session` is `chrome.storage.session`, lost by
`RestartBrowser`; `durable` is the one record of `chrome.storage.local`. `persistState`
takes its snapshot when it is called and stores it in its turn, so `saves` is a queue of
snapshots, and `marks` one of durable records. The page has a document identity and a
status; the person and the script change both at any moment; `token` is the inspection
that a write must name. `wire[h]` is the write message and its answer, which goes on after
the worker stopped waiting, or ended. `Restore` is `restoreState`, with the second
assignment of `changed` as the code has it. Where several runs get the same `updatedAt`,
`newest` is any of them.

Abstractions: an action, an undo and a replay differ in what their preview checks only;
one tab; the expiry of grants and reviews and their usage limits are left out, and so are
captures and reads. Recordings are in `DemoRecording`. A run read back from the durable
record has no document, which is written 0.

### DemoRecording

`live`, `rec`, `events` are the background's session of the tab, `active` and `count` the
content script's variables. A start goes through inspection, session, message to the page,
bind, and activation; a stop asks the page, may ping it, and compares the navigation epoch
it read first (`moved`) before it keeps the events. `Navigate` replaces the document and
`Updated` is the tab event that follows it. `invalidated`, `foreign` and `clicks` are
history: what really happened, to which what is kept is compared. The restart of the
worker and the clock are left out; both end a recording.

Every message first awaits the sweep of what has expired (`purgeExpiredState`), which
stores only if there was anything. So the message of a click can be overtaken by any
number of others (`Receive` takes the first or the second that has not been taken), and
later another. Two that wait at once need two things that expire one after the other
within one storage call; that is left out.

## 3. Runs

| run | question | bounds |
|---|---|---|
| `workflow_run` | approvals, markers, outcomes, with crashes, failed saves, timeouts, edited plans; every call settles | 2 calls one after the other, 2 handles, 3 plans of 3 steps |
| `workflow_double_use` | *violated*: one approval, one use | 2 overlapping calls |
| `egress` | everything about `sendApproved`; liveness | 2 calls, 1 handle, 2 contexts, clock 0..2 |
| `runtimes` | scheduler: refinement, ids, cancellation, liveness; runtimes: one worker, installations, environment | 4 calls, 3 ids, 2 places; 3 calls on a runtime; 2 embedding runtimes |
| `vault` | keys, memory against storage, what is lost and why, lock, revocation | 1 document, 2 revisions, 1 grant, 1 artifact, 1 archive, 1 waiting operation |
| `vault_staging` | *violated*: an acknowledged document stays until it is deleted | 1 document, 2 revisions, 2 staging ids, nothing else |
| `vault_rollback` | *violated*: the current revision of a document is stored | same |
| `vault_late_error` | *violated*: keys never mix, when storage may report a durable commit as failed | same |
| `extension` | verdicts, the durable record, restarts, revocation, with one action (`FailWith`); recordings | 2 actions, 1 grant, 2 statuses, 2 documents, 1 failing session save; for recordings 1 start, 1 stop, 1 look or discard, 2 documents, 3 clicks, 2 events, 3 statuses |
| `extension_overlap` | *violated*: the durable record names an unresolved write, with two actions at once | 2 actions, no failing session save |
| `extension_revoked` | *violated*: no write is sent under a grant whose revocation was confirmed | 1 action |
| `services` | façade, workbench, budgets, migration, computations | 3 calls of the façade and jobs of the workbench, 5 environments, 2 online sessions; 2 bridge sessions, documents and grants; 2 disclosures in 3 deliveries; 2 pages and 2 migrations; clocks 0..2 and 0..3; inputs of the computations as `MCServices` lists them |

Why the bounds are enough. A race needs two calls, and so does a run with its resumption
(that safety does not depend on how many calls follow is proved, section 4); a plan needs
an approval and two writes for one approval to be named twice, and two versions for an
edit. The clock needs a value before, at and after the end of a lifetime of 1. Four calls
fill the worker, both places of the queue, and find it full; three ids for four calls make
one be used again. A load that is shared and one that follows it are three calls, and the
environment of a library is disturbed by a second runtime. A proposal that is executed
twice while a third call proposes again, a preview used twice while a session is replaced,
and a disclosure delivered twice while another fills the gateway's memory, take three
calls each. Two pages and two migrations let a page come back with the state of a
migration that another has rolled back and done again. Three clicks over two documents
exceed a limit of two events. A computation gets the smallest inputs in which each class
of character, value or finding meets every other: texts of four letters for two
overlapping terms, and of six for a term sought beside its place, documents just below and
above one chunk, plans of three steps for a reference backwards, forwards and to a skipped
step, three chunks for a hidden one, an outdated one and a visible one. A rollback needs a
document with one acknowledged revision and a second on its way; mixing keys needs two
vaults. In the vault a waiting operation differs from another only by being overtaken or
not, so one is enough to have one run under an outdated epoch. In the extension, a run
that takes the place of another in the durable record needs two, and a restart with or
without the old document two documents. There `UseThePage` is bounded to the time an
action is at work or its write under way, and `AddressChanges` to the time a run is
executing, because that is when they can disturb anything that a navigation cannot.

What the failing runs show:

- `workflow_double_use`: `consume` (`approval.ts:47-58`) checks the handle, awaits two
  fingerprints, and then marks it without looking again. Two overlapping `run()` calls of
  one run id can so spend one handle twice, although the documents say one-use. The hosts
  in the repository make one call at a time, and then `OneUseApprovals` holds
  (`workflow_run`).
- `vault_staging`: a caller ingests a document under an id of its choice, aborts, and the
  deletion that rolls it back fails. The staging record stays, and names the document and
  a revision that was never written. The caller ingests the same id again, with success.
  The next `unlock` finds the staging record incomplete and deletes all that it names, the
  acknowledged document included (`#recoverStaging`). `LostOnlyToRecovery` of `vault`
  says that nothing else loses a document.
- `vault_rollback`: if the deletion of the staging record fails, the rollback deletes the
  new revision and its staging record in one transaction and writes the old document back
  in another. A crash or failure between them leaves a document whose current revision
  does not exist.
- `vault_late_error`: `unlock` prepares for adapters that report failure after the commit
  became durable; `#importEncrypted` does not, and goes on with the key of the replaced
  vault.
- `extension_overlap`: all runs share one durable record. The verdict on one action
  replaces the marker of another, whose write is then sent unmarked, and a restart of the
  browser forgets it. One panel executes one action at a time; two panels do not.
- `extension_revoked`: `revokeGrantRecord` revokes the approvals of pending actions, and
  an executing one is no longer pending. Its approval is consumed and its write sent after
  the panel said that both were revoked.

`UnresolvedIsMarked` allows the durable record to name, instead of an unresolved write or
a later one, the run that a later one undid: an undo gives both the same `updatedAt`
(`index.ts:876`), and a tab event then stores the first of them in a stable order
(`index.ts:1611`), which may be older than an unresolved write between them. It takes
three actions, which the run does not have; the property as stated is proved for any
number of them (section 4).

`UnresolvedIsMarked` speaks of the time until a storage call of the session fails
(`~failedSave`). Without that condition it is false, also where no calls overlap: if the
session cannot be stored after `CreateRun`, the call is denied and its run stays
`executing` in memory; the next tab event makes it `outcome-unknown`, and it may then
replace in the durable record a write that was sent. It takes two previewed actions at the
moment of the failure, so `FailWith = 1` alone would not show it. With the condition the
run passes for `FailWith = 2` too (3.5 million states, more than four minutes); the
configuration keeps 1, and the theorem covers every value.

`CHECK_DEADLOCK FALSE` stands in the configurations whose behaviours end: all calls made,
all documents shown, the input computed. Symmetry is used over calls, executors, statuses
and pages that no definition names, and only in runs without liveness.

### Fairness

Liveness is checked under weak fairness of what the program does by itself: promises of
the platform settle and timers fire (`Interpreter(e)`, `Broker(s)`). Nothing is assumed of
people, tools, transports or callers, so `CallsSettle` is stated up to the waits that have
no timer: a review, and the host's context check. The interpreter's is checked for one
call at a time; two that overlap share no wait, only the store and the handles. The
scheduler has no timer at all, so
its liveness assumes that jobs settle (`JobSettles`, in the part of `runtimes` that is the
scheduler), which its callers' time limits have to provide. Liveness of the vault is not
checked: its graph is too large for TLC's liveness check at the bounds that matter; nor is
that of the extension, whose calls wait on storage and a content script without a timer.
The runtimes and the services are checked for safety only: a load, an upstream answer or a
storage call has no time limit in this code.

## 4. Proofs

`WorkflowRunProofs`, for every set of executors, handles, plans and arguments and with
`Overlap` either way, from `PlanAssumption` and `MarkerAssumption` only:

- `TypeCorrect`: `Spec => []TypeOK`. `TypeOK` is not inductive: `Begin`, `Completed` and
  others index the plan with `cp[e].next`, which is a step only while the executor is
  inside the loop. `TypeInv` adds `Phases`: which executors hold a checkpoint, and that it
  points to a step in the phases of a step.
- `WritesAreApproved`: `Spec => []SentAsApproved`. The strengthening `ApprovalInv` says
  that approved handles were reviewed and that a handle in review is not yet approved;
  that an executor consuming holds a reviewed handle; and that in the phases of a write,
  and for every marker in a local or stored checkpoint, a reviewed handle with the binding
  of that plan, step and arguments exists. The last part is what makes the keyed retry
  after a crash, which asks for no approval, covered. The proof goes action by action over
  `IInv == TypeInv /\ ApprovalInv`; actions that leave approvals, markers and sends alone
  are closed by `QuietStep`, `QuietReturn` and `QuietSaveAndReturn`.

The second part of the module, under the same assumptions and `~Overlap`, that is, when a
host makes one call of `run()` for a run id at a time, as all in the repository do. Without
it the first two are false: run `workflow_double_use`.

- `ApprovalsAreOneUse` (`OneUseApprovals`), `SendsAreRecorded`
  (`SentWritesAreRecorded`), `OutcomesAreHonest` (`HonestOutcome`), `UnknownStaysUnknown`
  (`UnknownIsFinal`). What is hard is that a call knows of earlier ones only through the
  stored checkpoint. `RecoveryInv` says of the stored one and of the one a call holds that
  a marker is a write and is the next step (`WellMarked`), and that it names every write
  that is still open (`Names`); of each await what the call may rely on there (`CallInv`:
  before `dispatch` the marker is stored, at `complete` nothing is open, and outside the
  unknown branch nothing is marked unknown); and that a handle which let a write out is
  gone while the one a call holds has let out none (`HandleInv`, `SentInv`). A save may
  have failed before or after it became durable: `SaveStep` needs both checkpoints to be
  good, which is why the code marks before it dispatches.

`EgressBrokerProofs`, for every set of calls and contexts, every non-empty set of handles
and payloads, every lifetime, number of uses and bound on the clock, from
`EgressAssumption` only:

- `TypeCorrect`: `Spec => []TypeOK`. Here `TypeOK` is inductive.
- `UsesAreBounded`: `Spec => []BoundedUse`. `BoundedUse` counts what reached the
  transport, three awaits after the use was counted, so it is not inductive. `UseInv` says
  that the store's count is the number of calls that took the handle and never above what
  was approved (`UsesCounted`), that a call takes at most one approval and holds it until
  it settles (`TakersHold`, `HoldersTook`), that a call past the hash has an untampered
  payload (`HashedFirst`), and that whatever was sent was sent by a taker, once
  (`SentByTakers`). Mapping each transmission to its sender is then an injection into the
  takers, which bounds their number (`TakersBound`, with `FS_Injection`).
- `SendsAreApproved`: `Spec => []SentAsApproved`, a conjunct of the same invariant, whose
  `HoldersTook` says that who holds an approval asked for it in its time.
- `SendsSawTheirContext`: `Spec => []ContextHeldWhileApproved`. `ContextInv` adds that a
  call whose check has answered saw a context that fitted, and that one that is checking
  while the context fits has seen it.
- `RevokedIsRefused` and `ExpiredIsRefused`: `Spec => NoUseAfterRevoke` and
  `Spec => ExpiryIsFinal`, action properties. `GoneInv` says that a handle which was
  revoked, or once found out of its time, was issued and has left the map, to which no
  handle comes twice. So `consume` after its await refuses it, whatever time the caller
  read before the await and wherever the clock stands now.

The steps that settle a call, or that leave approvals and transmissions alone, are closed
by `SettleKeeps`, `MoveKeeps` and `StillKeeps`; taking, sending and issuing have a lemma
each.

`RuntimesProofs`, about the scheduler, for every set of calls, every non-empty set of ids
and every positive number of places, from `SchedulerAssumption` only:

- `TypeCorrect`, `IdsAreUnambiguous` (`IdsNameOneJob`), `CancelsOnlyTheAsked`
  (`CancelledOnlyWhenAsked`) and `OneQueueKeepsTwoLanes`: `Spec => KeepsLanes`, which is
  the specification of `TwoLaneScheduler` under the refinement mapping. The invariant says
  that nothing waits while the worker is idle and a disposed scheduler has no queue
  (`BusyInv`), that a call is in one place and pending exactly while it is in one
  (`PlaceInv`), that only the active job is signalled and only jobs in flight listen
  (`SignalInv`), and that generations stand before embeddings (`GenerationsFirst`). The
  listeners go by request id, which a later call may have: `ListenerNamesItsCall` is why
  they reach their own job. The proofs rest on lemmas about `InsertAt`, `RemoveAt` and the
  least index (`MinIsLeast`), and on how each changes the two lanes (`JoinFirst`,
  `JoinSecond`, `LeaveFirst`, `LeaveSecond`); the abstract steps follow action by action.

`MemoryVaultProofs`, for all sets of documents, revisions, grants, artifacts, archives and
keys and any number of waiting operations, from `VaultAssumption`:

- `TypeCorrect` (`TypeOK`) and `LockEnds` (`LockIsFinal`), whatever storage calls report.
- `KeysStayApart` (`KeysNeverMixed`), `MemoryIsStorage` (`MemoryMatchesStorage`),
  `RevocationsAreComplete` (`RevocationIsComplete`) and `LossesAreRecoveries`
  (`LostOnlyToRecovery`), under `~LateErrors`: a storage call that rejects has not become
  durable. Run `vault_late_error` shows that the first fails otherwise.

  Between two awaits of an operation none of them is inductive, since what matters is what
  the pending transaction will do to the storage. The invariant therefore describes it:
  with which key it was encrypted and that a swap brings its own header (`WriteInv`,
  `SwapInv`); that the memory of an unlocked vault is the storage also in the middle of an
  operation (`Mirror`); that an asked-for deletion takes a document with its revisions and
  puts none (`AskedInv`); that recovery deletes a staging record alone, or an incomplete one
  with what it names (`RecoverInv`); that the deletion of a revocation has collected every
  dependent (`RevokeInv`); and what an ingest has brought, staged and would roll back at
  each of its awaits (`IngestInv`). `LockEnds` needs the types only, because `lock()` drops
  the key at once and a step that goes on after an await compares epochs first.

`ExtensionBrokerProofs`, for any number of handles, grants, statuses and documents, with
`Overlap` either way and whichever storage calls fail, from `BrokerAssumption`, which says
that the names of handles, grants and the other owners of a storage call are distinct:

- `TypeCorrect` (`TypeOK`), `RevocationsSurviveRestarts` (`RevocationSurvivesRestart`),
  `EveryVerdictIsTrue` (`VerdictsAreTrue`) and `RestartsAreHonest` (`RestartIsHonest`).

  A restart reads back what was stored, and `persistState` stores a snapshot taken
  earlier, so each part of the invariant speaks of memory, of the session, of the durable
  record and of every snapshot and record still queued. A grant is created once, and each
  snapshot queued since its revocation lacks it (`GrantInv`). A verdict is true wherever it
  is kept, a failed run's call has nothing more to send, and an undo is previewed only for
  a run that succeeded (`VerdictInv`, `WireInv`, `ParentInv`). A call has one storage call
  of the session under way (`SavesInv`); a run is in memory, in the session and in all that
  will replace it before its write is sent, and one called executing has its call at work
  (`KnownInv`). Lemmas named `...Stepped` and `...Moved` say once how the steps change some
  of the variables; the `...Step` lemmas follow from them.

The last section of `ExtensionBrokerProofs`, from `BrokerAssumption` and `NothingAssumption`
(`Nothing` is no action and no record):

- `UnresolvedWritesAreMarked`: `~Overlap` implies `Spec => []UnresolvedIsMarked`, for any
  number of calls that fail. The hypothesis is needed: `extension_overlap` violates the
  property where calls of execute overlap. So is the condition `~failedSave` in the property
  itself: after a failed storage call of the session a denied run can replace a write that
  was sent (section 3). Storage calls of the durable record may fail.

  The durable record is written from the newest run in memory; memory is read back from
  the session and the durable record; and both lag behind it by what is queued. So
  `RecordsInv` says of each of them, and of every snapshot and record in the queues, that
  its newest run names every unresolved write, or a later one, or the run which such a
  write undid, and that its verdicts are settled. What is stored later may then replace
  what was stored before, in whatever order restarts, navigations and verdicts come. A
  write that becomes unresolved is one that must be named from then on, and `BeforeInv`
  says that it is: before a call sends, its run has been stored in the session and in the
  durable record, in turn, and is the newest in all that was queued since. That nothing
  else makes a run meanwhile is `LastInv`, from `OneCall`, where `~Overlap` is used; the
  orders in which writes began (`BegunInv`) and in which calls queue (`MarksInv`) are what
  these rest on. `GoodStays` is the heart of the proof: a good record stays good in every
  step but the sending of another write.

`RecordingProofs`, for any number of starts, stops, looks and discards, which may share
names, any non-empty set of statuses and all bounds on documents, clicks and events, from
`RecordingAssumption` and those of the actions:

- `ExtensionTypesCorrect` (`TypesOK`): of the actions and the recordings together.
- `RecordingsAreKeptAsDone` (`KeptAsDone`). That a recording is of one document, in which
  the tab stayed, follows from `KeptInv`: a session that was made has its document from
  then on (`Made`), what is sent, recorded and kept are its clicks, each once
  (`ClicksAre`, `SentOnce`, `EventsOnce`), and a stop at work has either been told of a
  navigation or holds a session that none has ended (`CallsHold`).

  That a recording which compiles is in order needs more, because the code only compares
  the status that one click left with the one that the next began from. `OrderInv` holds
  as long as only clicks change the status (`foreign`): the clicks of a session are
  consecutive (`OneRun`) and each begins where the one before ended (`OneLine`); and as
  long as none of them is lost, what is recorded either is consecutive, with at most the
  click before it on its way (`Straight`), or has taken that click at its end (`Wrapped`).
  Then it is back at the status it began with, and a recording that ends there does not
  compile. TLC checked `RecInv` as an invariant with six clicks and seven events, and with
  two starts, one of whose names is a stop's.

  This proof corrected the property: it used to leave out the condition that no click was
  lost, and three clicks and two events were too few to see that it is needed (section 5).

`RuntimesProofs`, about the runtimes, for every set of calls, those of the embedding
runtimes on two instances as in the run, from `RuntimesAssumption` (there are two, and no
call is `Nobody`) and `SchedulerAssumption`:

- `OneModelInMemory` (`OneWorker`) and `NothingInstalledIsTakenBack` (`InstallStays`). That
  the engine is the worker's own holds only because no second load begins beside the
  first: `LoadInv` says that a load under way is the one in `#loading`, that there is no
  engine then, and whose the worker is; `ClosingInv` that what is being unloaded was loaded
  and is not in use; `BeforeInv` that an installation under way began with the `installed`
  of now, so that restoring it takes nothing back. They hold until a host unloads in the
  middle of a load (`undercut`); `CallInv` holds always.
- `LeaveToFetchIsScoped` (`EnvironmentIsScoped`). `LineInv` says that loads stand in line
  once each; `TurnInv` that whoever is inside has let nobody in and everyone before it
  has, and found the library's own environment. So of two loads inside the later would
  wait for the earlier (`NobodyElseInside`), and what a load puts back is the original.
- `TypesCorrect` (`TypesOK`) of the scheduler and both runtimes together.

`ServicesProofs`, for every set of calls, jobs, sessions, grants, disclosures, deliveries and
pages and every limit, from `ServicesAssumption`: `None` is none of the things it stands
for, and limits are natural numbers. `ServicesInv` is one invariant per service, and
`ServicesGoOn` follows because a step of one service leaves the variables of the others
alone:

- `TypesCorrect` (`TypesOK`).
- `TasksRunAsReviewed` (`ExecutesAsReviewed`). That a request runs once rests on who holds
  it across the awaits of `execute`: no two calls execute one request, a call that does has
  put it into `#executed`, and until the facade is disposed of a request with a proposal
  has no call under way (`TaskAlone`). `TaskHolds` says that the route a call goes by is one that was shown for
  its request, and `TaskStopped` that disposal has told whatever is under way to stop.
- `ThePageUsesWhatItShowed` (`UsesAreAsShown`). `DeskUses` says that what a call uses is
  of another call that is over, and that a preview in use is not on offer; `DeskSends` that a request about to leave goes to the
  endpoint and the model of the disclosure it uses.
- `BudgetsAreKept` (`BudgetsHold`). The properties count what was authorized, the code
  counts in records that end. For a live session both are the same (`BridgeCounts`, with
  the library's facts on cardinalities), and ids of sessions are not used again; for a
  grant they are the same since it was added, since removing it forgets the count and
  adding the id again starts anew (`CapsInv`); a nonce that went upstream is remembered
  until its disclosure has expired (`GateInv`).
- `TheVaultIsOldOrNew` (`OldOrNew`). A migration still retained is the one whose records
  are active, and nothing was written before it was released (`MoveStore`); a page about
  to commit holds a migration no other page and no storage has (`MoveNumbers`); from
  confirmation to finalization a page knows which migration is its own, and finalizes it
  only when what is stored is whole (`MoveUnlocks`).

`ComputationProofs`, about four of the seven parts of `ComputesAsMeant`. Their modules share
nothing; each has its own assumption, which TLC evaluates on the constants of the run, and
the theorems hold for every value of them:

- `PlansRunWithinTheirGrants` (`PlansRunAsGranted`), from `PlannedAssumption`: steps come
  in a sequence. What a step finds is there because the reference was checked to go back to
  a step before it, and each step behind has left its values, unless it was allowed to fail
  (`Left`).
- `SearchesLeaveNoTrace` (`FoundAsAllowed`), from `SearchAssumption`: a query names a
  workspace and asks for one result at least. Results are computed twice, over the memory
  and over one in which what the caller may not see is unrecognisable; scores (`SameScores`)
  and ranks agree, and so do the results (`SameResults`). That a result stands at each
  place is counted: of n candidates each has another number in front of it
  (`EachPlaceTaken`).
- `TakenIsPackaged` (`TakenAsPackaged`), from `ContractAssumption`: statuses and tools are
  finitely many, there is a second status, and what stands for nothing and for an error is
  not a saved workflow. The checks leave one plan
  for a recording, and one list of statuses and of tools up to order (`EachOnce`), so only
  what a recording compiles to passes them (`TakenCompiled`).
- `AnswersAreSound` (`AnswersAreCited`, `ExtractionsAreQuoted`), from `TextsAssumption`:
  texts are sequences over an alphabet that has its lower case. The code compares the
  answer with the evidence in normal form, and the evidence with the passage as it is;
  `NormalWithin` says that normal forms keep what stands where, so that the answer stands
  in the normal form of the passage. The characters kept of a part are those kept of the
  whole at the same place, moved by what is in front (`PlaceInPart`).

Only model-checked: the rest of `ComputesAsMeant`, and all liveness. Liveness under fairness
and `ENABLED` are beyond the installed provers, and so is induction over data, by which CSV
is read and written (`WorkflowData`), texts are cut and redacted (`PrivateText`), values
are written canonically (`CanonicalJson`), and the evidence of a summary is joined before
it is compared (`SummariesAreQuoted`).

## 5. Observations

Behaviour met while modelling that a reader of the code may want to know. Where a property
had to make room for it, the property and its comment say so.

Migration. `lock()` while `commitMigration` is pending: the epoch is checked outside the
`catch` (`vault.ts:303`), the cached header stays the old one, and later unlocks of that
page fail until `initialize()`. With two pages, one that reads "no migration" between the
rollback and the second commit of another opens the vault without having verified it; the
threat model says that two tabs are not serialised (`docs/threat-model.md:20`).

Recordings. One that reaches its limit stops itself in the content script, and can then no
longer be stopped and kept (`content/index.ts:143-151`). A discard that races a stop lets
the stop keep the discarded session (`background/index.ts:968-986`). A start that fails
removes whatever session the tab has (`background/index.ts:919`), also one that a later
start made. A status query between bind and activation deletes the session while the start
reports success. A stop before the answer to bind leaves the indicator of the page on.
When messages of clicks overtake one another and some are refused, those that are left may
follow each other in another order than they were made and still compile: of A to B, B to
A, A to B, B to C the message of the first is overtaken by that of the second, the third
is refused as not following the first, and what is left is the second, the first and the
fourth. `KeptAsDone` speaks of order only where no click is lacking.

Façade and workbench. `cancel` and `dispose` while a fingerprint is pending do not keep
the proposal from being stored; it cannot execute after `dispose`. An installation in
flight registers its runtime after a lock. `executePendingTask` forgets, when it ends, a
proposal that was made meanwhile (`integrations.ts:658`): the person has to propose again.

Computations. Chunks of an outdated revision are never returned, but their words still
weigh in the ranks of the current ones. `addCustomTerms` (`detectors.ts:88-107`) uses
positions in a lower-cased text, which U+0130 makes longer: every later term is then hidden
one place too far to the right, so that its first letter stays in what is sent, and the
term whole if enough such letters stand before it; a place that so falls after the end of
the text makes the redaction fail. `HidesWhatWasFound` excludes terms after such a letter;
without that exclusion TLC finds the text of two such letters and four others that leaves
with its term whole. The workflows' `canonicalize` sorts keys by
`localeCompare`, so keys that a collation does not tell apart keep the order in which they
were added and one value can have two fingerprints; that refuses an approval and never
grants one. A saved recording's fingerprint does not bind the proposed value of its
variable, the time it was made and its document; ids longer than 113 characters are cut in
the id of the workflow. A quotation of white space makes every passage with a space a
citation, and the answers of `draft` are not compared with the passages and cite all of
them.

## 6. Not modelled

- `core/recovery.ts`: three assignments without an await; no host in the repository calls
  it.
- `core/context.ts`, which packs excerpts into a prompt; `workflows/reuse.ts`; the shapes
  of single workflow steps and string templates in `validation.ts` and `operations.ts`:
  validation of one value at a time, without state.
- Cryptography itself, and the validation of stored records, messages and snapshots: a key
  is what a record can be decrypted with, a fingerprint is what it was made of, and
  messages are assumed to have parsed. Of what the patterns of the detectors match, only
  the consequences are modelled.
- Reads of the vault, and the migration of an archive inside `import`: the two modules
  exist, their composition would multiply two graphs that are large already.
- In the extension: captures, the clock's expiry of grants, reviews and recordings, and a
  restart of the worker during a recording.
- The gateway's clock does not go back and its process does not restart: the nonces are in
  memory, so `UpstreamOnce` needs both.
- User interface, panel, options, demo site, build scripts, configuration, benchmarks,
  test kit, vanilla and React examples: pure functions of their input, or outside the
  system.

## 7. Plan

Done: the interpreter with its approvals (first, since it decides whether anything is
written without consent or twice), the egress broker, the scheduler and the runtimes, the
vault and its migration, the actions and recordings of the extension, the façade, the
workbench, bridge sessions, grants, the gateway, and the computations.

Proved, for all values of the constants: every safety property that the runs check, but
`ComputesAsMeant`, and of that the parts about plans, searches and the demo contract, and
about answers but for summaries.

Left to TLC: liveness, and what is computed by recursion over data (section 4).
