# A verification development for plm-core

This directory holds TLA+ modules that model the parts of plm-core whose
correctness depends on the order in which things happen, TLC configurations
that check them on small instances, and proofs, checked by TLAPS, of the
theorems that hold for instances of every size. `PROJECT.json` is the machine
readable index: components, runs, the source lines of every definition, known
disagreements between code and documentation, hazards and theorems.

Paths below are relative to the repository root, which is `src/` here.

## 1. The system

plm-core is a product-lifecycle-management platform: some fifteen services
around one core, `psm-api`, which keeps *nodes* (parts, documents) in versions.

| part | state it keeps | operations | works with |
|---|---|---|---|
| psm-api, PLM transactions (`PlmTransactionService`) | table `plm_transaction`: owner, OPEN or COMMITTED | open, commit (all or a selection), release nodes, roll back, hourly clean-up | locks, versions |
| psm-api, locks (`LockService`) | `node.locked_by` | `tryLock`, `unlock` | called by every authoring operation |
| psm-api, versions (`VersionService`, `FingerPrintService`) | `node_version`: number, predecessor, transaction, state, stored fingerprint | create a successor, rewrite a draft | transactions |
| psm-api, authoring (`NodeService`, `LinkService`, domain handlers, `CommentService`) | nodes, attributes, links, domains, comments | create, check out, modify, link, assign a domain, comment | all of the above |
| psm-api, lifecycle (`LifecycleService`) | state of a version, a cache of the lifecycle graph | apply a transition, cascade | versions, configuration cache |
| action dispatch (`ActionDispatcher`, `LockWrapper`, `TransactionWrapper`, `PlmActionAspect`) | nothing beyond the request | wraps a handler in lock, transaction and guards | psm-api handlers |
| psm-admin (`MetaModelService`, `ConfigSnapshotBuilder`, `ConfigPushService`, `PlatformConfigRelay`) | metamodel tables; in memory the last snapshot and its version | metamodel changes, snapshot building, announcing | platform-api, consumers |
| platform-lib (`ConfigCache`, `ConfigRegistrationClient`) | a consumer's copy of the snapshot | subscribe, pull, accept or ignore | psm-admin over HTTP and NATS |
| platform-api (`ActionCatalogRegistryController`, `EnvironmentRegistry`) | action catalogue; registry of service instances | register, heartbeat, evict, publish | every service |
| dst | file metadata with reference counts, object storage | upload, reference, unreference | psm-api links |
| cad-parser, pool (`convert-pool.js`, `worker-convert.js`) | idle workers, queue, the task of each worker | run a conversion, answer, replace a dead worker | cad-parser's requests, worker threads |
| cad-parser, jobs (`app.js`, `worker-split.js`) | split jobs, part files, uploads | split, serve a part, convert, expire | pool, file system, cad-api |
| cad-parser, scanner (`step-scan.js`) | a window on the file, the current segment | take a chunk, report records with their byte ranges | split and parse jobs |
| frontend, event connection (`useWebSocket.js`) | one socket, a count of its users, timers | acquire, release, reconnect, subscribe, watch | ws-gateway, session |
| frontend, session (`App.jsx`, `api.js`) | user, project space, token | sign in, change user or space, retry after a stale token, reload | spe-api, event connection |
| frontend, 3D viewer (`stepWorker.js`) | meshes in memory and in IndexedDB, fetches under way | load, clear, change the limit | dst |
| pno-api, spe-api, ws-gateway, search-api, cad-api, webdav, rest of the frontend | users and roles, routing copies, sessions, indexes, import jobs, screens | – | – |

What is hard about it:

* **Concurrency.** A request is one database transaction per `@Transactional`
  method; a wrapped action is several. Two users, an administrator, the
  hourly job and the parallel requests of one user interleave between them.
  In the browser and in cad-parser one thread runs callbacks, and the state
  changes between every `await` and its answer.
* **Failure.** A process can end between two of these transactions; each step
  of a wrapper can throw; a NATS message reaches only those subscribed at that
  moment; OCCT workers run out of memory; proxies drop connections unnoticed.
* **Ordering.** Answers of two pulling threads overlap; an announcement
  precedes the commit it announces; version numbers restart with a process;
  answers of the gateway arrive after the user has moved on; a file comes in
  chunks that end anywhere.
* **Open interfaces.** The id of the transaction a request belongs to comes
  from the client, as do the lists of nodes to release and links to delete.

What makes the parts correct:

* versions: one draft per node, built on the last committed version, in one
  chain; committed versions never change; every version records a change;
* locks: a draft is locked by the owner of its transaction, and a lock does
  not outlive its reason, exceptions named;
* transactions: ending one by a request leaves nothing behind and touches nobody
  else's work;
* transitions: the history follows the lifecycle graph, frozen content is
  fixed, a lock keeps a reason on every path of a request;
* configuration: a version names one content, consumers never go back, and one
  that is behind has a reason to pull;
* conversion: the pool neither loses a worker, a task nor an answer; parts are
  served only when they are complete; clients are answered and the disk is given
  back;
* scanner: records and their ranges do not depend on the chunks;
* browser: it stays connected, once, in the name of the user on the screen, and
  memory for meshes is bounded.

## 2. Modules

| module | what it is |
|---|---|
| `PlmTransaction` | the authoring core: transactions, locks, versions, comments |
| `VersionedItems` | abstract specification: append-only histories with one draft per item |
| `PlmRefinement` | the refinement mapping from the tables to `VersionedItems` |
| `PlmTransactionProofs` | inductive invariant and the theorems that need no discipline of clients |
| `PlmDisciplineProofs` | the theorems that need the discipline, the refinement of `VersionedItems` among them |
| `LifecycleTransition` | composes `PlmTransaction` with wrapped transition requests, crashes included |
| `LifecycleProofs` | its inductive invariant and theorems, on top of the two modules above |
| `ConfigDistribution` | psm-admin, its consumers and the action catalogue |
| `ConfigDistributionProofs` | what versions mean, that consumers never go back, and that nobody is left without a reason to pull |
| `ConvertPool` | the pool of OCCT worker threads |
| `CadParser` | composes `ConvertPool` with split jobs, requests, files and the end of the process |
| `CadParserProofs` | inductive invariants of the pool inside `CadParser` and of the part files, and their theorems |
| `StepScan` | the scanner, round by round, and a reference definition of what it should report |
| `StepScanProofs` | the scanner's window and its cached comment position; the scanner against the reference; ranges read again |
| `LiveSocket` | the event connection of the browser |
| `ShellSession` | composes `LiveSocket` with sign-in, tokens, project spaces and reloads |
| `ShellSessionProofs` | one connection, the right subscription, the user's own token |
| `MeshCache` | one worker of the 3D viewer |
| `MeshCacheProofs` | joined fetches, the memory bound and the byte counter |
| `MC...` | model values, small lifecycle graph, symmetry for TLC |

### PlmTransaction

State: `txStatus`, `txOwner` and `nextTx` are table `plm_transaction`; `nodes`
and `lockedBy` are table `node`; `versions` is the set of rows of
`node_version`; `comments` the versions `node_version_comment` refers to.
Every action is the successful end of one `@Transactional` method, with all it
calls: `Commit` selects, defers to a continuation transaction, refuses no-op
versions, sets the status and unlocks; `ReleaseNodes` deletes versions, orphaned
nodes and an empty transaction, and unlocks. When a method throws, the database
transaction is undone and no step happens (this includes the compensation in
the partial commit, which re-throws).

Data is abstracted to what a fingerprint tells apart. `content` stands for what
the *stored* fingerprint of a row covers beyond the state: its attributes, its
domains and the links of the node up to that row. A check-out copies attributes
and domains and inherits the links, so a fresh copy has its predecessor's
content; every edit recomputes the fingerprint of one row only.

**Deviations.** The services do not enforce everything their clients keep to.
The constant `Deviations` says which of five things requests may do besides:
name a committed transaction (`ClosedTx`), name somebody else's (`OtherTx`),
release nodes outside the transaction (`OtherNodes`), delete a link of a
committed version (`CommittedLink`), change links or domains of a frozen node
(`FrozenEdit`). The strongest results hold for every value of it.

### LifecycleTransition

The action `transition` is wrapped by `LockWrapper` and by `TransactionWrapper`
in mode ISOLATED, so one request is five database transactions: lock, open,
apply, commit or roll back, unlock. `req[u]` is the thread's local state; every
step can fail the way the code lets it: opening (`OpenIsolatedFails`), applying
(`RefuseTransition`), the commit, because a validator or the database refuses
(`CommitIsolatedFails`), the rollback after it, which is only logged
(`RollbackIsolatedFails`), and the unlock, which is only logged too and keeps
the lock (`EndTransitionFails`). `Crash` ends all threads and keeps the tables. `StaleScreens` allows a transition to be asked for a node that is
checked out, `ParallelRequests` lets a user act while a transition of theirs
runs. Cascades, state actions, signatures and attribute guards are not
modelled; because those can refuse, any transition may be refused
(`RefuseTransition`).

### ConfigDistribution

A metamodel change is announced inside its database transaction and visible
after it (`ChangeModel`, `CommitChange`). A pull makes psm-admin build a
snapshot from its database and a fetch from platform-api, raise the version if
the content differs from the last one, and announce that. A consumer has two
pulling threads, the one that starts it and the one of the NATS dispatcher, and
keeps an answer only when its version is above its own. A metamodel or a
catalogue is the number of its last change. Messages are counted per consumer;
core NATS delivers to current subscribers only.

Between the announcement of a change and its commit anything may happen, a pull
included. A publication may fail (`onConfigChanged`, `CatalogChange`), a rebuild
may throw (`RelayRebuild`), and a pull may fail before psm-admin builds or after
it (`Pull`); the code logs each of these and tries nothing again. Two history
variables remember them, until the next attempt succeeds: `missed[c]`, the last
pull of a consumer failed although psm-admin was up, and `silent`, whose last
announcement came to nothing. `VersionNamesContent` and `NeverGoesBack` speak of
the first life of psm-admin: its restart starts the version numbers again.

### ConvertPool and CadParser

`idle`, `queue` and `task` are the fields of the pool and of its workers;
`mail` holds what is under way between the event loop and a worker thread, in
order. A thread that dies (`WorkerDies`) still has its answers delivered before
its error event, as worker_threads does it; so `onMessage` may put a dead worker
on the idle stack, `_pump` may give it a task, and `onError` has to take both
back. The loop of `_pump` is written as one step: its i-th round pops the i-th
worker from the end and shifts the i-th task.

In `CadParser` an action is one turn of the event loop or one file operation. A
request waits for a file (`reading`, `opening`) or for the pool (`converting`).
A part file is absent, begun or whole. Two streams have no error listener: the
one over a part that has just expired (`StreamFails`), and the one that writes a
part in the main thread (`WriteFails`). When one of them fails the process ends
(`ProcessEnds`), jobs are forgotten and files stay. A split of another format
than STEP is refused after its upload was stored (`PostSplitRefused`). `rm` is
taken to succeed: its failure is swallowed and would leave a file. What a scan finds, and geometry, are left out: the
scan succeeds or fails, a conversion returns the geometry of a task or an error.

### StepScan

Bytes are the characters the scanner looks for, the three section words and one
letter for all other text. One action is one round of the loop in `scan`;
`onData` is the rebuild of the window, `onEnd` the flush of a last segment. The
reference (`EntitiesOf`) reads the whole file one byte after the other
(`ModesOf`), keeps the positions outside comments (`Outside`, `Kept`) and cuts
them at each ';' (`SegmentsOf`). `Reread`
relates the two uses of a record: the text by which it was indexed, and the
bytes that are read again at its range. Strings in quotes are unknown to the
scanner and to the reference.

### LiveSocket and ShellSession

The functions of `useWebSocket.js` call each other within one callback, so they
are operators from the module's state to the next; the actions are the
callbacks. Sockets that are no longer current keep their handlers unless
`closeSocket` took them, and so may disturb the current one. A timer that is set
may fire at any time. The far end refuses a connection without a token, and
remembers the user of the token.

`ShellSession` has the token in `api.js` apart from what React shows. Calls of
`login` and `switchProject` are a set: answers come in any order and may be
cancelled. A change of user runs all clean-ups, then the effect of the event
connection, then the one that calls `login`. `Unmount` is what React does when a
component outside every error boundary throws; the page is loaded in StrictMode
or without. `overtaken` and `stray` are history variables that name the one
exception of `OneConnection` and of `OwnToken`.

### MeshCache

A load is in memory, joins a fetch, reads IndexedDB or fetches, as in
`loadPart`; the steps are the stretches between two awaits. A read that began
before a "clear" still finds what was there (`found`). Messages to the page
name the part, so an answer settles all loads of it (`owed`). The pool of
workers partitions the parts, so one worker is modelled. `overlapped` records
that two loads of one part were past the in-flight test at a time.

## 3. What is checked

Passing runs, all with TLC on the whole state space of the instance:

| run | instance | shows |
|---|---|---|
| `PlmRefines` | 2 users, both administrators, 2 nodes, 2 contents, 3 transactions, 3 versions, no comment, clean-up job, all deviations but `ClosedTx` and `CommittedLink` | one draft per node, on the last committed version, in one chain; the tables implement `VersionedItems`; committed versions are immutable; every commit records a change |
| `PlmDisciplined` | 2 users, 2 nodes, 3 transactions, 3 versions, 1 comment, clean-up job, no deviation, no administrator | the lock follows the version, no request leaves anything behind, the work of others is untouched |
| `Lifecycle` | 2 users, 1 node, the lifecycle seeded for parts, 3 transactions, 3 versions, 1 comment, parallel requests, stale screens, clean-up job, crashes at any point, any step failing | the history follows the lifecycle; one chain, one writer at a time; frozen content is fixed; a lock loses its reason by three named events only |
| `Config` | 1 consumer with 2 threads, 1 metamodel and 1 catalogue change, 1 failed fetch, a restart of either side, any pull or announcement failing, fairness | a version names one content, no consumer goes back; one that is behind has a reason to pull or one of the named losses has happened; otherwise it reaches psm-admin's version |
| `Cad` | 2 requests, 1 job of 2 parts, a pool of 1 worker, 2 deaths, fairness | the pool stays complete, loses no task and mixes up no geometry; parts are served whole; clients are answered; uploads of conversions and accepted jobs, and parts of finished jobs, are removed |
| `StepScan` | all files of "DATA;", a record and up to 5 bytes, some with other sections, in up to 3 chunks | the window is right; records and ranges are those of the whole file; the scan ends |
| `Shell` | 2 users, 2 spaces, 3 sockets, 1 lost connection, 3 moves of the user, fairness | one connection, subscribed to the space on the screen; requests in the user's own name; sign-in ends; the connection comes back |
| `Mesh` | 2 parts of different size, 3 loads, limits that hold one or both, 2 orders, fairness | memory is bounded and counted, joined fetches are alive, the page hears of every part |

**Bounds.** Two users and two nodes are what every conflict of this code needs:
a rule either concerns one node and two writers, or a selection that contains
one node and not the other. Three transactions allow a transaction, a
competitor and a continuation. Two versions reach "a draft on a committed
version", three a chain whose inner version has both neighbours; a released part
cannot be revised within three, so `Lifecycle` leaves that transition out. Consumers meet
only in the snapshots psm-admin builds, and the two threads of one consumer
already overlap there, so one consumer is enough; a change
of either kind, a failed fetch and a restart of either side already give several
versions in both lives of psm-admin, and the theorems cover any number. One worker makes every
conversion of the pool meet the one before it, two deaths replace a replacement,
and two requests are a task that is held and one that waits; larger pools are
covered by the proofs. Five bytes hold a whole comment with a `;` in it, and two
cuts fall on any two places of it. Three sockets are a current one, one that is
still being closed and one that a timer opened; three moves let a user go away
and come back with an answer still under way. Three loads of a part are one that
fetches, one that overlaps and one that joins. Identifiers are used up when the bounds are
reached, so the runs switch off deadlock checking. Symmetry is used for users
and nodes in runs without liveness properties; administrators are all users or
none there.

**Fairness.** `FairLSpec`, of `LifeDoubleUnlock`, assumes that a request thread that
can continue does: a servlet thread is suspended by nothing but the end of its process. `Spec` of
`ConfigDistribution` assumes that admin operations end, that services are
restarted by their containers, and that the threads of a running consumer take
messages and apply what they pulled. `Spec` of `CadParser` assumes that the
event loop and the file system go on and that OCCT returns or dies; that of
`ShellSession` that connections open or fail, timers fire, and the login the
screen waits for is answered or fails, as `fetch` does; that of `MeshCache` that
IndexedDB answers and a fetch ends; that of `StepScan` that the stream delivers
the file. Nothing is assumed about users, about failures, or about crashes.

Type invariants are properties of `PlmRefines` and `Cad`. Those of the other
modules document the variables; `INVARIANT TypeOK` (`LTypeOK`) in a
configuration checks them. Those of `PlmTransaction`, `LifecycleTransition`,
`CadParser`, `LiveSocket` and `ShellSession` are proved.

**Disagreements.** Four runs are expected to find a violation. Each states
what a comment or a document of the repository says, and TLC shows a behaviour
of the code that does not do it; `PROJECT.json` quotes the line.

| run | what happens |
|---|---|
| `LifeDoubleUnlock` | the commit of a transition unlocks the node, another user's transition locks it, and the lock wrapper of the first removes that lock |
| `ConfigEarly` | a pull overtakes the commit it was announced for, is given the old content, and no other message follows |
| `ShellUser` | a change of user reconnects the events with the previous user's token, and nothing reconnects when the new one arrives |
| `StepChunk` | a chunk that ends between `/` and `*` hides a comment from the scanner |

The model shows others, for which no run is kept; a line changed in an existing
configuration is enough to see each of them. Three are stated as properties of
their own, after the words of a comment:

* `NoResidue`, checked in `PlmDisciplined.cfg`, fails: the clean-up job, "même
  sémantique que rollback manuel" (`PlmTransactionService.java:875`), deletes the
  version of a new node and keeps its lock and its row. The passing property
  `ResidueOnlyByCleanup` says that nothing else does;
* `LockReleased`, checked in `LifeDoubleUnlock.cfg`, fails: `LockWrapper` "releases
  it after (regardless of success/failure)" (line 16), but an unlock that throws
  is logged and the lock stays (lines 41-43). `LocksKeepReasons` says which other
  events have this effect;
* `Configured`, checked in `ConfigEarly.cfg`, fails: the "pull with backoff"
  (`ConfigRegistrationClient.java:18`) is one pull, and when it fails while
  psm-admin is up the consumer stays without configuration until something is
  announced. `Informed` says that only this and a lost announcement leave a
  consumer without a reason to pull.

The others are what the restrictions of the runs keep out:

* with `ClosedTx` in `Deviations`, `CommittedImmutable` fails: `findOpenVersionInTx`
  does not test the status of the transaction it is given;
* with `CommittedLink`, it fails as well: `deleteLink` changes the version that
  carries the link, committed or not;
* with `OtherNodes`, or with administrators, `LockFollowsVersion` fails:
  `releaseNodes` unlocks every node it is given, and the continuation of a
  partial commit belongs to the administrator while the locks stay where they were;
* with `FrozenEdit`, `FrozenContentFixed` fails: links and domains are changed
  without a test for a frozen state;
* with `ParallelRequests`, a check-out can find the isolated transaction of a
  running transition as the user's open one and put its version there;
* with `MaxEdits = 0`, and so without early pulls, but a catalogue change and a
  restart of psm-admin in `ConfigEarly.cfg`, `Converges` fails: version numbers
  start again and running consumers ignore them until they exceed their own;
* with `MaxEdits = 0` and `MaxOutages = 2` there, it fails because the empty action
  list of a failed fetch is a snapshot like any other, and the rebuild that would
  replace it may fail to fetch too.

Read off the actions, without a property:

* nothing expires a lock: one left by a crash or by the clean-up job stays like
  one whose unlock threw (the exceptions of `LocksKeepReasons`);
* `openTransaction` and a partial commit give a user a second open transaction,
  after which looking up "the" open one throws;
* a comment on a draft disables rollback, release and clean-up for it: the
  foreign key of `node_version_comment` refuses the deletion;
* `acquire` does not clear a scheduled reconnect, so that a second socket may
  deliver every event twice (the exception of `OneConnection`);
* an answer that comes after a change of user replaces the token (the exception
  of `OwnToken`), and the login after a stale token pins the default project
  space whatever the screen shows;
* two loads of one part count its bytes twice (the exception of `CountedOnce`);
* a split refused for its format keeps its upload, a job in ERROR its directory,
  and a part that expires while it is being opened ends cad-parser.

Outside the model, `LifecycleService` keeps the lifecycle graph of its first
use: `invalidateCache` has no caller.

Every property of a passing run is also shown able to fail: a plausible fault
of the code, defined next to the definition it replaces and called a fault
there, makes TLC find a violation.

## 4. What is proved

All theorems hold for every value of the constants that satisfies the named
assumptions: any number of users, nodes, transactions, workers, jobs, sockets or
loads, any sizes, any bounds. `PROJECT.json` lists them with the property each
one states.

**PlmTransaction.** For every combination of deviations, with administrators and
the clean-up job:

| theorem | property | |
|---|---|---|
| `TypeCorrect` | `TypeOK` | |
| `NeverTwoDrafts` | `SingleDraft` | |
| `NoLostUpdate` | `DraftOnHead` | |
| `OneChainPerNode` | `LinearHistory` | |

and with hypotheses on what requests do:

| theorem | property | hypotheses |
|---|---|---|
| `CommittedVersionsImmutable` | `CommittedImmutable` | no `ClosedTx`, no `CommittedLink` |
| `ChangesAreRecorded` | `ChangeRecorded` | the same |
| `Implements` | `ImplementsVersionedItems` | the same |
| `NothingLeftBehind` | `ResidueOnlyByCleanup` | the same |
| `LockFollows` | `LockFollowsVersion` | no `OtherTx`, no `OtherNodes`, no administrators |
| `OthersAreSpared` | `OthersWorkUntouched` | the same |

Where a run is restricted more than its theorem, the theorem is the stronger
result: `ResidueOnlyByCleanup` needs neither the absence of administrators nor
that requests stay within their own transactions. The list in section 3 shows that
the hypotheses are needed.

**LifecycleTransition.** For every lifecycle graph:

| theorem | property | hypotheses |
|---|---|---|
| `LifecycleTypeCorrect` | `LTypeOK` | none |
| `ChainNeverForks` | `OneChain` | none |
| `HistoryIsLifecycle` | `HistoryFollowsLifecycle` | none |
| `FrozenStaysFixed` | `FrozenContentFixed` | no `ClosedTx`, `CommittedLink`, `FrozenEdit`; crashes and parallel requests allowed |
| `LocksHaveReasons` | `LocksKeepReasons` | no `ClosedTx`, no `CommittedLink`; clean-up job, crashes and failing unlocks allowed |

**The other components**, without hypotheses beyond their assumptions:

| module | theorem and property |
|---|---|
| `ConfigDistribution` | `VersionsNameContent` (`VersionNamesContent`), `ConsumersNeverGoBack` (`NeverGoesBack`), `ConsumersAreInformed` (`Informed`), `CatalogueIsSeen` (`CatalogueSeen`) |
| `CadParser` | `PoolStaysComplete` (`PoolComplete`), `TasksNeverLost` (`NoTaskLost`), `PoolConservesWork` (`WorkConserving`), `GeometryIsOwn` (`OwnGeometry`), `CadTypeCorrect` (`TypeOK`), `PartsServedWhole` (`NoTruncatedPart`) |
| `StepScan` | `WindowIsRight` (`WindowOK`), `ChunksAreInvisible` (`ChunksInvisible`), `RecordsReread` (`Reread`) |
| `LiveSocket`, `ShellSession` | `ShellTypeOK` (both type invariants), `OneConnectionHolds` (`OneConnection`), `SubscriptionIsCurrent` (`SubscriptionCurrent`), `OwnTokenHolds` (`OwnToken`) |
| `MeshCache` | `JoinedFetchIsLive` (`JoinsLiveFetch`), `MemoryStaysBounded` (`MemoryBounded`), `PartsCountedOnce` (`CountedOnce`) |

The assumptions are the `ASSUME`s of the modules, which TLC evaluates in every
run: kinds of the constants, model values that are none of the others (`None`,
`NoUser`, `NoState`), and facts of the code such as a pool of at least one
worker, an initial state that is not frozen, a part of at least one byte.

### The arguments

**Versions.** None of the invariants is inductive alone: that a node has one
draft follows from the unique key only if a draft always carries the number
after the *last* committed version, and that in turn survives a commit only if
there is one draft. `IInv` therefore states, over the table as a whole (`Good`):
every row has a transaction; `(node, num)` is a key; a row's number is its
predecessor's plus one; a predecessor is a committed row; no committed row is
above a draft's predecessor; a node with committed rows has a greatest one.
Added to it are that unused transaction ids have no rows (`FreshTx`) and that a
row's node exists (`RowHasNode`). `Good` is defined for arbitrary tables, so that
each SQL statement gets one lemma (insert, delete open rows, rewrite content,
open a transaction, delete transactions, move rows, commit) and each operation
is put together from these. Locks occur nowhere in `IInv`: version integrity
rests on the numbering and the unique key alone.

**Locks.** `LockInv` adds that open transactions have an owner and that the lock
follows the version; it needs `IInv` because a second draft of a node would be
unlocked by the commit of the first. `OthersAreSpared` follows from it step by
step: what an operation touches is locked by the caller, hence in the caller's
transaction.

**Residue.** The clean-up job, crashes and failing unlocks do leave residue, so
what is proved is a statement about steps: any other step leaves none that was
not there before. `Tidy(B, R)` says that outside the nodes of `B` a lock has a
version in progress, and outside those of `R` a node row has a version. For a
step of `PlmTransaction` both sets are the nodes that have residue before it;
for one of `LifecycleTransition` the nodes of running transitions are added to
`B`. One lemma per operation serves both.

**Refinement.** `HistoryInv` adds to `IInv` that the committed rows of a node are
numbered from 1 without a gap, so that the mapped history is a sequence. Every
operation is then shown to map to one step of `VersionedItems` or to a stutter:
a check-out starts a draft, a commit of several nodes publishes them all at
once, moving rows to a continuation transaction is invisible.

**Transitions.** A request can slip into the isolated transaction of a
transition, so a node may have several rows in one open transaction, and `Good`
fails. `LifeInv` keeps a weaker form (`Chained`): the rows in progress of a node
are in one transaction and form a chain on the last committed row. Added is that
no two requests still to be applied share a transaction (`ReqInv`). Steps are classified once by their effect
(nothing moves, a draft or a node is added, a row is edited, rows are removed,
a commit, a transition applied), and each theorem is proved over these effects:
`HistoryIsLifecycle` with `PlainRows`, that a row found in a transaction whose
transition is still to come has the state of the committed row under it;
`FrozenStaysFixed` with `Unfrozen` and `Inner`, that such a row is not frozen and
that no row stands on a frozen one in progress.

**Configuration.** `ConfigInv` collects all holders of a snapshot, psm-admin, the
caches and the answers under way: in the first life of psm-admin two holders of
one version hold one content, no version is above the counter, and a higher
version has no older metamodel. A rebuild that raises the counter, by whichever
pull, keeps this because the metamodel it read was committed. `ToldInv` adds
`Informed` and `CatalogueSeen` and the types of the mailboxes (`MailOK`): a
version is raised together with an announcement, or `silent` records that there
was none; a message is taken together with an answer at psm-admin's version, or
`missed` records that there was none; the version test drops an answer only if
the cache is level with it.

**Pool.** The handler settles the task the worker holds *now* with the message
that arrives *now*. `PoolInv` ties each worker to what is under way for it: at
most one message is between a worker and the event loop, and it is about the
task the worker holds (`MailSound`); idle workers hold no task, and those idle
or busy are exactly those not yet replaced (`WorkersSound`); a promise is pending
while its task is in one place (`TasksSound`). A worker that died after its last
answer, went back to the idle stack and was given a task fits in: its mail is
empty, and `onError` rejects that task. Every handler ends with `_pump`, so these
parts are stated of lists given as parameters (`Sound`): one lemma per handler
establishes them for the lists before `_pump`, and one (`PumpSound`) carries them
over the hand-out.

**Part files.** A request may outlive its job, and old files outlive the process.
`ServedInv` therefore says of a job that is done, that expires, or that a request
still waits for, that its writers are over and none of its files is half
written (`Settling`).

**Scanner.** `ScanInv` says that the window is the stated range of the file and,
of the cached comment position, that it is where a search from the cursor would
find one, or that the search is due. It survives a round because the cursor only
passes bytes that open no comment. `indexOf` is characterised by `IsIndex`: the
first place of a pattern.

`RefInv` compares the scanner with the reference after the bytes it has
consumed, p of them, unless a chunk cuts a comment's first mark (`MarkCut`, the
condition of both properties, and needed: the run `StepChunk`). The segment in
progress begins behind the last ';' outside comments, its text is what the
reference keeps from there to p, the records so far are those of the segments
that are over, the section is that of the next one, and the mode is "comment" or
one in which text may begin (`Ready`); a scanner that waits has consumed
everything but an open comment. TLC checked `RefInv` on the bounds of the run
before it was proved. Each round passes one stretch of bytes, of which a
lemma says what it does to the modes and to what is kept (`MarkOpens`,
`SemiEnds`, `TextOutside`, `MarkCloses`, `CommentInside`). The reference's
recursive functions are unfolded, and followed along a stretch, by induction on
sets of positions (`UpTo`, from the least element of a set of numbers), which
needs no operator as a parameter. `RecordsReread` adds that a segment begins
where the mode is "text": a scan of its range alone goes through the same modes
(`ModesShift`), so it keeps the same bytes.

**Event connection and session.** The functions of `useWebSocket.js` call each
other, so `NetOK` is stated of a state given as parameter and each function has
a lemma: the current socket is connected and has its handlers, its subscription
is the space on the screen, somebody who uses the connection has a socket or a
timer, and there is only one of them unless `overtaken`. `SessionInv` says that a
login under way that was not cancelled is for the user on the screen.

**Viewer.** `JoinInv`: `_inflight` names a fetch that is under way or nothing; it
may forget one that runs, never remember one that is over. `CacheInv`: the bytes
in memory are at most the counter, the counter is at most the limit unless
nothing is in memory, and, until two loads overlap, the counter is exact and a
part being loaded is not in memory. The sums are folds over sets; what
they do when an element is added or removed is proved by taking a smallest set
for which it fails (`LeastSet`), since the induction theorems of the library
cannot be instantiated here.

**Only model-checked:** liveness (`CatchesUp`, `ClientsAnswered`,
`DiskReclaimed`, `ScanEnds`, `SignsIn`, `Listens`, `EveryLoadAnswered`), which is out of the prover's reach. Every
safety property of a passing run has a theorem.

## 5. What is not modelled

* Interleavings *inside* one `@Transactional` method. `tryLock` takes the node
  row `FOR UPDATE`, which orders the operations on one node; commit and
  check-out in one transaction, two partial commits, and two creations with one
  logical id are not ordered by it. Listed as hazards.
* Permissions, validators and hooks, which refuse requests or publish events.
* `updateLink`, the lifecycle cache, cascades, state actions, signatures, baselines, the outbox,
  revision numbering.
* Loss of a NATS message after it was published, between running services.
* The service registry and the data store (planned), and the services that only
  view, convert or forward: search-api, webdav, spe-api, the ports in Rust, Go
  and Zig, deployment files and build artefacts.
* In cad-parser: product structure, transforms and closures of a parsed file, and
  the GLB writer, which are functions of their input over text and number
  formats; errors of the read stream.
* In the browser: rendering, settings pages and stores, which are most of its
  lines and keep no protocol; the node editor's auto-save (planned). Generated
  bundles (`static/ui/*.js`, `target/`) and `.pnp.cjs` repeat or wire other
  sources and have nothing of their own to model. These are the bulk of the
  JavaScript of the repository, so the mapped share of it is small; the core
  services, in Java, are mapped besides.

## 6. Plan

Done: the core and its abstract specification, transitions, configuration, the
conversion service, the scanner, the browser session with its event connection,
the viewer's cache; every safety property of the passing runs proved.

Next, in this order:

1. `NodeEditor`: edits, auto-save, reload and change of node (no edit is lost).
2. `ServiceRegistry`: `EnvironmentRegistry`, its heartbeat scheduler, client
   re-registration and `LocalServiceRegistry`, with versions, eviction and
   restarts of platform-api (no live instance stays evicted, copies converge).
3. `DataStore`: reference counts of dst under statement-level interleaving
   (no referenced content is deleted, no content leaks).
4. A statement-level module of commit, check-out and partial commit under READ
   COMMITTED, to be compared with `PlmTransaction`.
5. Into `PlmTransaction`: `updateLink`; into `LifecycleTransition`: cascades,
   signatures and their guard, history collapse, baselines.
6. Proofs for the modules above.
