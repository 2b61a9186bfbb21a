# logismos: verification project

TLA+ models of the parts of logismos where state, ordering and failure meet,
checked by TLC on small instances, with theorems checked by TLAPS for every
instance. Paths are relative to the repository.

## 1. The system and its parts

logismos runs language models on accelerators whose memory is granted to it. A
request travels `hermeneus` (native text engine) → `text` (generation) →
`decoders` (one model session) → `cache` (keys and values of the tokens so far)
→ `kernels` → `hipcore` (device, buffers, streams). Before any of it may
allocate, `sched` must have admitted it against a grant, and `sched` does its
accounting in the ledger of `placement`. Nothing below `sched` is shared: one
controller owns the grant, one session owns its cache and its stream, so the
hard behaviour is not locking but *custody*: who still owns which bytes when
calls are refused half way, arrive in an unexpected order, or report that they
do not know whether the device still holds an allocation.

| part | state it keeps | operations | what is hard | correct when |
|---|---|---|---|---|
| `placement` (`crates/placement/src/lib.rs`) | a grant, dynamic totals per device, active leases, a revision, the next lease id | prepare, commit, reserve_bytes(_batch), release(_bytes) | plans and leases are values that outlive the ledger state they were made from and can be presented late or to another ledger; batches; totals that vanish at zero | totals = leases, grant never exceeded, a lease is honoured once and only by its issuer, a current plan fits |
| `sched` (`crates/sched/src/lib.rs`) | grant and generation, admissions and their states, pending operations, permits, native loads and uses, quarantine, results, host bytes, six identifier counters, drain cursor | prepare, commit, admit_native_resident, complete_native_load and its siblings, revoke, request_retirement, replace_snapshot, poll_command, complete, begin_use, finish_use, native uses, results | answers of the executor, uses, retirement and revocation interleave freely; a quarantined outcome is never resolved; releases can be refused by the ledger | every lease and host byte has one owner, no eviction under a use, revoked grants drain, quarantine is for ever |
| `cache` paged (`crates/cache/src/paged.rs`) | page table, fills, free stack, staged rows, committed tokens | begin_append, write rows, commit, drop (rollback); a native pool with a prepared commit | a transaction replaces the tail page by a copy and must restore everything when dropped half way | committed rows never change, a dropped append leaves no trace |
| `cache` flat | append buffer | append, read | sequential | bounds |
| `hipcore` teardown (`teardown.rs`) | inventory of a stream and its buffers, pending and unconfirmed attempts | push_teardown_buffer, begin_release, retry, reconcile | each call can be refused, fail, or fail without saying what became of the handle; buffers may only go after their stream is quiet | nothing is freed in use or twice, nothing forgotten, an owner that keeps asking is told |
| `hipcore` device, memory, stream, creation | FFI handles, the device current on the thread, pending copies | allocate, upload, wait, drop, begin_release | a selection that fails leaves another device current; a copy outlives the value that waits for it | both ends of a copy live as long as it may run; one free, at home |
| `decoders` native session (`qwen35_native.rs`, `qwen35_native/`) | owner state, prepared step, cache, recurrent states, position | prefill, close, drop | work is submitted before its outcome is known; three owners publish; a failure after submission poisons | an answer stands for exactly the tokens of the successful steps |
| `decoders` native custody | build scope and guards, failed builds, retained sessions | build, release, recover, retry, reconcile | a construction fails half way with handles made, or perhaps made | nothing made on the way is dropped silently |
| `decoders` CPU execution | none between calls but its cache | forward | numerical | numerical |
| `hermeneus` (`native_text.rs`) | references to a resident and its uploads, uses, retained teardowns | plan, generate, close, retry, reconcile | everything can be dropped in any order, also with teardowns open | the uploads outlive every stream; close works when all is settled |
| `text` (`lib.rs`) | planned storage, token loop | generate with cancellation | cancellation between any two steps; storage is planned before any token is known | all or nothing publication, the plan suffices |
| `tokenize` (`collective.rs`) | a compiled program of decoder stages over two buffers | storage_plan, decode_with_storage | a bound per stage applied to the bound before; texts only meaningful together | planned storage suffices, the text is the whole decoding |
| `tokenize` (`lib.rs`), `decode`, `templates`, `taxis`, `loader`, `quant`, `kernels`, `emulation`, `transformers`, `encoders`, `embed`, `rerank`, `core`, `isa` | none that outlives a call | pure functions and parsing | numerical, string and file formats | their own tests |
| `tts`, `diffusion`, `ekphrasis`, `ichneutes`, `logismos`, `bin`, `praxis`, `test-fixtures` | none | placeholders, re-exports, command line, benchmarks, fixtures | nothing | nothing |

`PROJECT.json` lists every part with its status, and under `hazards` each place
of the code where something can go wrong that a test would hardly reach, with
the properties that watch it.

## 2. Modules

| module | models | state and actions |
|---|---|---|
| `PlacementLedger` | the accounting functions of `placement`, without variables | `Remaining`, first fit (`SelectDevice`, `Placements`), `CanReserve`/`Reserve` (prepare_reservation, apply_reservation), `CanRelease`/`Release` (release_lease) |
| `ReservationLedger` | several ledgers, callers with a prepared plan each, and every lease capability in circulation | `ledger`, `plan`, `held`; `Prepare`, `Commit`, `CommitRefused`, `ReserveBytes`, `ReleaseLease`, `DropPlan`, `DropLease` |
| `Scheduler` | `sched::AdmissionController` with its executor, callers and adapters; its ledger is a `PlacementLedger` ledger | one action per public operation and per acknowledgement |
| `ResourceCustody` | abstract specification: what the controller promises about memory, without its tables | `Charge`, `Occupy`, `Begin`, `End`, `Vacate`, `Cancel`, `Lose`, `Close`, `Renew` |
| `PagedLedger` | the page accounting of `cache/src/paged.rs` (`PagedKvLedger`), without variables | `CanBegin`, `Reservation`, `Begun` (begin_append), `Location`, `Recorded` (write_location, record_write), `Complete`, `Published`, `RolledBack` |
| `PagedKv` | `PagedKvPool` with its append transaction | `ledger`, `storage`, `open`, `prepared`; `BeginAppend`, `WriteLayerRow`, `PrepareCommit`, `Commit`, `Drop` |
| `NativePagedKv` | `NativePagedKvPool`: the same ledger, its device mirror and the stream between them | `ledger`, `open`, `parked`, `poisoned`, `queue`, `device`; the operations with and without a failing submission, attention reads, `Execute` |
| `AppendLog` | abstract specification of both pools: per layer, rows that grow by whole appends | `Open`, `Write`, `Publish`, `Forget` |
| `EvictionOrder` | `Scheduler` with a history variable for the fairness of draining | `overtaken` |
| `TeardownInventory` | `hipcore` explicit teardown of one inventory | `step`, `held`, `evidence`, `busy`, `alive`, `calls`; one action per native call and outcome, `Retry`, `Reconcile` |
| `DeviceMemory` | `hipcore` allocations and uploads over devices | `owner`, `data`, `current`, `allocated`, `dma`, `frees`; `AllocTracked`, `Upload`, `Wait`, `Release` and the drops |
| `NativeSession` | one session of `decoders`: step buffers, submission, stream, publication, poison, close, drop | `owner`, `pc`, `step`, `pool`, `committed`, `device`, `queue`, `alive`, `answer` |
| `TokenLog` | abstract specification of a session: a chunk is answered for all that was seen, and after a failure nothing is | `Step`, `Fail` |
| `NativeText` | `hermeneus` over the custody of `decoders`: references, builds, sessions, retained teardowns | `resident`, `outer`, `inner`, `recovered`, `use`, `alive`; one action per call and drop |
| `DecodeStages` | the stages of `tokenize`'s decoder, their bounds and the reference decoding, without variables | `Apply`, `OutputBound`, `StoragePlan`, `RefText` |
| `TextGeneration` | one greedy generation of `text` with the decoding of its answer | `pc`, `plan`, `ids`, `first`, `second`, `output`; `Acquire`, `Step`, `Select`, `Seed`, `ApplyStage`, `WriteOutput`, `Publish`, `Cancel` |
| `MC*` | the instances TLC checks | |
| `*_proofs` | theorems about the module they are named for; `Hipcore_proofs` about `TeardownInventory` and `DeviceMemory`, `Text_proofs` about `NativeText` and `TextGeneration` | |

How the modules fit. `Scheduler` takes over the ledger functions of
`PlacementLedger`; the pools both use `PagedLedger`. `NativeSession` takes its
paged cache at what `NativePagedKv` shows of it (an open append, one parked
when complete, poison when it ends otherwise); `NativeText` takes an aggregate
teardown at the outcomes `TeardownInventory` shows; `TextGeneration` takes the
session as a driver that answers or fails.

How the code maps to state:

* A `ReservationLedger` of the code is a record `[snap, dyn, leases, rev,
  nextId]`. The code's `BTreeMap`s are partial functions; the map of dynamic
  totals drops a device's entry when it reaches zero, and so does `dyn`. A
  device that is undeclared, offline or of an unsupported architecture is one
  that is not in `snap.reservable`: the code refuses the three alike.
* A call that is refused and changes nothing is an action that is not enabled.
  A refusal that does change something has an action (`CommitRefused`: commit
  takes the plan by value).
* Brands (the private identity each ledger gives its plans and leases) are
  modelled in `ReservationLedger`. The controller wraps one ledger and replaces
  it with its grant; there the generation stands for the brand.
* Words (`u64`) are `0..U64Max`. The code uses checked arithmetic, so a counter
  at its limit refuses. Every identifier counter of the controller has its own
  limit in `IdMax`.
* In `Scheduler`, `memory` is the only variable the code does not have: the
  claims behind which the executor may hold memory. It grows when a load is
  commanded or native work starts and shrinks with the acknowledgement that
  attests the memory is gone. It is what `KeepsCustody` is about.
* A `PagedKvLedger` of the code is a record `[table, fills, free, staged,
  committed]`. The free list is a stack with its top at the end, so the order
  in which a rollback returns bundles matters, and `DropRestoresLedger` compares
  it. Pages count from 1 where the code counts from 0. A key row and its value
  row are one `Row`; widths and byte offsets are left out.
* An append borrows its pool, so at most one is live. `Drop` stands for every
  end of an append but its commit: dropped, abandoned when prepared, or consumed
  by a `prepare_commit` that refuses it.
* In `NativePagedKv` the kernels that are submitted wait in `queue` and run in
  order (`Execute`). A submission that reports a failure may have reached the
  stream: any prefix of the operations of a `begin_append` may be queued, and
  so may the failing row. `write_layer_rows` is a sequence of `WriteLayerRow`.
  An attention read carries the rows the host took it to see as a history.
  `CommitPrepared` requires an idle stream: the safety section of
  `commit_prepared_after_completion` asks this of its caller, and the sessions
  of `decoders` synchronize first.
* In `TeardownInventory` a call of the owner runs several actions, one per
  native call; the outcomes it can return are values of `step`. `busy` is the
  queued work of the stream, `calls` a history of destructor calls.
* In `DeviceMemory` a native call acts on `current`, and selecting a device may
  fail and leave it as it was. A handle of uncertain creation or destruction is
  `quarantine`, one given up on purpose `leaked`.
* In `NativeSession` a row's value is the sequence of tokens its computation
  has seen, `Junk` once two layers disagree: so a state that advanced alone, a
  recurrent buffer read twice or a stale key shows up in the answer. Widths and
  byte plans are left out. A refusal of the commit inside `publish_completed`
  is not modelled, because the pool refuses to begin while an append is parked
  and so nothing can come between.
* In `NativeText` `outer` and `inner` are the strong counts of the two `Arc`s;
  a use's record is where its references are. `alive` is what the runtime has,
  which no value of the program need know. What a safe caller cannot reach is
  left out: `ConstructionPending`, a session that is unadmitted, a failed close
  of an active use. A recovered model is always in use when its own close is
  tried, so that close changes nothing. A resident teardown that was not
  admitted leads nowhere; admission by parts is in `TeardownInventory`.
* In `DecodeStages` a text is a sequence of symbols with a width in bytes.
  Patterns have at most one symbol and a regular expression is the empty match,
  which is where insertion multiplies text; the cleanup list of WordPiece and
  overflow of `usize` in a plan are left out. A fallback spelling is one symbol,
  so stages that insert between characters are combined with other
  vocabularies. `RefText` states the decoding by position, as the upstream
  tokenizer defines it: a byte run is text if all of it is, `CtcDeduplicate`
  looks at neighbours. What passes over a sequence is a `Pass`, a fold whose
  values on the way (`Passes`) the proofs can speak of.

## 3. Runs

| run | question | instance | distinct states |
|---|---|---|---|
| `ReservationLedger` | do totals, grants, leases and current plans agree under every interleaving, and what can the plan or lease of one ledger do to another? | two ledgers of different grants, two callers, two devices, three requests, words up to 3 | 646840 |
| `SchedulerLegacy` | custody through load, use, retire, revoke, evict, replace | two admissions, two pending commands, two uses, five identifiers of each kind | 1091566 |
| `SchedulerNative` | custody of device leases and host bytes through native uses, results and quarantine | two residents, two uses, four identifiers of each kind | 383238 |
| `SchedulerDrain` | does a revoked grant drain under fairness, does a reserved admission release, can a failing eviction starve another? | two admissions of either kind, eight operations of which the first four may fail | |
| `SchedulerZeroEstimate` | does a reserved admission release by polling, as documented? | a workload of zero bytes: **no** | |
| `PagedKv` | do bundles, fills and rows survive every append, published or dropped? | pages of two rows, a context of five tokens, two layers, two rows | 1560576 |
| `NativePagedKv` | does the device agree with the host when the stream lags and submissions fail? | pages of two rows, five tokens, one layer, two rows, one read at a time | 61401 |
| `TeardownInventory` | does a teardown free what is quiet, once, account for it all, and settle? | three buffers of which not all fit, four failures | |
| `DeviceMemory` | do uploads keep both ends, and allocations one free at home? | three buffers on two devices, any number of failures | |
| `NativeSession` | do answers stand for the tokens seen, whatever fails when? | recurrent, full, full, recurrent layers; two tokens, chunks of two, a context of four | |
| `NativeText` | do uploads outlive streams, is nothing left behind, can the settled resident close? | two uses, two buffers, two batches, three failures | |
| `TextGeneration` | does the planned storage suffice, is the published text the answer? | three tokens, every program of up to two stages over four vocabularies | 693257 |

Bounds. `U64Max` is small enough that revisions and identifiers run out inside
the runs, so the refusals at the limits are exercised; it is large enough for
two reservations, a release and a further reservation on one device, which is
what it takes for a total to vanish and come back. Two devices are needed for
the skip of an ineligible one and for batches that share or split devices. Two
ledgers of different grants are enough for a plan or lease at the wrong one.
Two admissions and two uses are enough for every pairwise interference (a
handle reused, a sibling use ending around a quarantine, one retirement behind
another). `IdMax` bounds the length of a behaviour, `LastFailingOp` the number
of evictions that may fail. Pages of two rows and a context of five tokens let
an append start at, end at, stay within and cross a page boundary, fill the
last page partly, and use the whole context; two layers are needed for one to
lag behind the other. `MaxReads` bounds the attention reads on the stream; the
append itself bounds the rest of the queue. `MaxFaults` bounds native failures:
three are a first failure, one in the retry or reconciliation it leads to, and
one in what that leads to; a teardown of one stage more has four. Two buffers on one device and one on another are
what a free on the wrong device needs. Two recurrent layers around two full
ones let a state, a cache row and a hidden row go stale separately, with both
sides of the hidden buffers read and written; a context of four with chunks of
two has steps after successful, failed and uncertain ones. Two stages after
the seed are what it takes for a buffer to be reused, and one more is run for
the Llama decoder; three tokens give a split character with a neighbour.
`Permutations` are used as symmetry in runs without liveness only.
`CHECK_DEADLOCK FALSE` is set throughout, because a ledger whose counters are
exhausted, a controller whose grant was revoked and drained with no generation
left, a full cache, a poisoned session, a finished teardown and a published
answer really stop.

Fairness is weak. `SchedulerDrain`: the service owner polls (`WF(Poll)`); the
executor answers each operation it was given; the adapter ends each use and
load it was given; a retained result is discarded in the end. The scheduler has
no thread of its own: these are the obligations its documentation puts on its
callers. Nothing is assumed of admissions, uses, retirements or revocations. An
executor may fail an eviction, but not for ever (`LastFailingOp`).
`TeardownInventory`: the device works off its queue, a call returns, and the
owner asks again while it is told that something is pending or unconfirmed.

Refinements. `KeepsCustody`: the mapping at the end of `Scheduler` reads the
claims of `ResourceCustody` off the ledger's leases, its users off the `uses`
counters and its lost claims off quarantine. `ImplementsLog` is the refinement
of both pools: `PagedKv` reads the log off the storage through the table,
`NativePagedKv` off the device as it will be when its queue has run
(`Settled`), through the table of the last published ledger; so it says that
published rows are intact on the device whatever failed and whatever is still
in flight. `ImplementsTokenLog` reads the tokens a session has seen off all its
parts, which must agree.

Finding. `SchedulerZeroEstimate` shows a defect. `release_lease` wants an entry
for the device in the dynamic totals, and removes the entry when the total
reaches zero. An estimate of zero bytes is accepted, so an active lease can be
left without the entry and then is refused, although it belongs to this ledger
and is active, which are the only refusals the documentation of `release`
names. In the controller such a lease belongs to an admission that drains:
`poll_command` selects it first, fails, and selects it again at the next poll,
and everything behind it waits. The requests of the other runs have no workload
of zero bytes, and the theorem `NonzeroLeasesReleasable` shows that then every
active lease is releasable.

## 4. Proofs

Each module of theorems is about the module in its name, and assumes nothing
but what that module's constants are declared with. `Hipcore_proofs` is about
the two models of `hipcore`, `Text_proofs` about the two ways text is generated;
in either case the two models have no name in common. `PagedLedger_proofs` has
the lemmas about the page accounting that the proofs of both pools cite, and
the lemmas about `PlacementLedger` open `ReservationLedger_proofs`.

`ReservationLedger_proofs`, for all sets of ledgers, callers and devices, every word size and
every set of grants and requests, from the assumptions declared with the
constants (devices are finitely many, words are nonempty ranges of naturals,
the static claims of a grant fit, extents are not zero):

| theorem | property |
|---|---|
| `TypeCorrect` | `TypeOK` |
| `TotalsAgree` | `Conservation` |
| `NeverOverCommitted` | `WithinCapacity` |
| `OnlyUsableDevices` | `LeasesOnUsableDevices` |
| `LeasesAreGenuine` | `HeldLeasesAreActive` |
| `CurrentPlansFit` | `CurrentPlanStillFits` |
| `NonzeroLeasesReleasable` | `ActiveLeasesReleasable`, if no request has a workload of zero bytes |

The last one is the positive side of the finding: the single assumption the run
`SchedulerZeroEstimate` drops is what the documentation needs.

The argument. Bytes on a device are the cardinality of a set of units
(`UnitsOn`), so that sums need no recursion. `BytesOfReserve` exhibits the
bijection between the units a batch brings and the ones the new leases have
more; `BytesOfRemoval` does it for one entry that is taken out. From these,
`ReserveIsLedger`, `ReserveIsBalanced`, `ReserveIsAffordable` and their release
counterparts say what one operation does to one ledger. `PlacementsFit` says
that first fit, which subtracts each placement before choosing the next, places
a request only if all of it fits on every device: look at the last placement on
that device. The inductive invariant `IInv` joins the properties, because none
is inductive alone: the check of a reservation is made against the totals, so
`WithinCapacity` needs `Conservation`; a commit can only be trusted with
devices the plan names because of `PlansOnUsableDevices`; and a plan cannot
become current again because no plan is ahead of its ledger
(`PlansNotAhead`). `NonzeroInv` adds that plans and leases have bytes, from
which an active lease keeps the entry of its device alive.

`PagedKv_proofs`, for all page sizes, contexts, layers and rows (both sizes are
positive, and `NoTail` and `NoAppend` are no reservations):

| theorem | property |
|---|---|
| `TypeCorrect` | `TypeOK` |
| `SpareSuffices` | `RoomForEveryAppend` |
| `DropRestores` | `DropRestoresLedger` |
| `OnePlaceEach` | `BundlesHaveOnePlace` |
| `VisibleRowsFilled` | `VisibleRowsAreFilled` |
| `PoolIsALog` | `ImplementsLog` |

The argument. `DivMod`, `DivMonotone` and `DivUnique` give the arithmetic of
pages; `PageOfToken` says that a token of the append lies in one of its pages,
and in the old last page only if that page was partly filled. A ledger is
`Idle` when it has exactly the pages its tokens need and every other bundle on
its stack. `Extends(m, l, n)` says that `m` is the idle ledger `l` with an
append of `n` tokens in progress, with the fills of every old page but a
replaced tail untouched. One lemma per operation: `BeginExtends`,
`WriteExtends`, `PublishIdles`, `RollBackRestores`. The invariant `IInv` is then
that the ledger is idle, or extends the idle ledger from before the append.
`RoomForEveryAppend` is not inductive alone, as it needs the count of bundles;
`DropRestoresLedger` is not either, as it needs to know what rows may touch.

`BundleInv` adds where the bundles are. An idle ledger is `Whole` (each bundle
once, in the table or on the stack); `BegunPlaces` says from where `begin_append`
takes every bundle, from which `ExtendsApart` follows: while an append is open
the table, the stack and the bundle set aside share none. `Filled` says what the
fills cover, and that a prepared append is complete, because `publish_commit`
shows what was staged without looking at it again.

`PoolIsALog` maps every step to one of `AppendLog` or a stutter. Two lemmas
carry it: `BeginKeepsRows`, for which the copy of the tail must go to a bundle
no page has (`Whole`) and cover the published rows (`Filled`), and
`WriteKeepsRows`, for which two tokens have two places (`OnePlacePerToken`) and
two pages two bundles (`Apart`). `RowsInv` keeps the published rows readable
through the old table while an append is open: a drop goes back to it.

`NativePagedKv_proofs`, for the same, for every number of reads on the stream,
and for submissions that fail at any point (`RowAssumption`: what
memory holds before it is written is no row and no bundle; `NoAppendAssumption`:
having no append can be told from having one):

| theorem | property |
|---|---|
| `TypeCorrect` | |
| `QuietPages` | `PublishedPagesAreQuiet` |
| `ReadsAreCurrent` | `ReadsFindTheirRows` |
| `NativePoolIsALog` | `ImplementsLog` |

The argument. What the stream still has to do is a function of its queue:
`Runs(ops, d)` is the device after the operations. `UpTo` gives the induction
over the length of the queue, from which follows what running means: a queue of
one more (`OfMore`), without its first (`OfTail`) or of two parts (`OfBoth`).
`RunChanges` says that what a queue changes is what one of its operations
writes, so rows and table entries no operation names are as they were. The
invariant is about `LastPublished`, the ledger of the last published state.
`Host` is the invariant of the ledger that `PagedKv_proofs` has too. `Stream`
says that no queued operation writes into a bundle of a published page, and
that every read will find its rows when its turn comes, after the operations
before it. `Shows` says that the device, once settled, has the table of the
host unless the pool is poisoned and its append gone, and keeps the published
rows in their places. One lemma per action keeps the three, whether its
submission is whole, partial or refused, and `NativePoolIsALog` reads its steps
off the same state: `Execute` is always a stutter, because what a queue
settles to does not depend on how much of it has run.

`Hipcore_proofs` about `DeviceMemory`, for all devices and buffers, wherever they
live:

| theorem | property |
|---|---|
| `UploadsKeepTheirEnds` | `UploadsOwnBothEnds` |
| `FreedOnceAtHome` | `OneFreeAtHome` |

The argument. `SoundAllocation` says of each buffer, by its owner, what it may have at the
runtime: an owner that can still free has an allocation and made no call, one
that may have queued a copy has or leaked its data. Neither property is
inductive alone: that an upload starts with memory that exists needs the
second, and that nothing is freed twice needs that a `buffer`, a `copy` and a
`pending` owner have made no call.

`Hipcore_proofs` about `TeardownInventory`, for all inventories, sizes and numbers
of failures:

| theorem | property |
|---|---|
| `NothingInUseIsFreed` | `NothingFreedInUse` |
| `EvidenceIsComplete` | `EvidenceAccountsForAll` |
| `DestroyedAtMostOnce` | `OneDestructorCall` |

The argument. The evidence is the only record of what was freed, so the
invariant ties it to the calls (`CallsCounted`: a handle was called for exactly
if it was acknowledged or is the one in quarantine) and to the place of the
coordinator (`Phases`: nothing is called before the stream was quiet, and after
that it stays quiet). Entries, held and released are three sequences that must
mirror each other; entries are distinct because a buffer is pushed once.

`NativeSession_proofs`, for all lists of full and recurrent layers, contexts and
chunk limits (`JunkAssumption`: the content of memory nothing has written is no
sequence of tokens):

| theorem | property |
|---|---|
| `FreedWhenIdle` | `FreedOnlyWhenIdle` |
| `StepBuffersAreKept` | `StepBuffersAreOwned` |
| `SessionIsALog` | `ImplementsTokenLog` |

The argument. `OwnInv` ties the owner to the place in `prefill` (`Phase`) and
says where the buffers of a step are (`Buffers`): with the step while it runs,
afterwards with the session that failed, or freed. The first two theorems need
no more.

`SessionIsALog` needs what the device holds. `Stands(S)` says that the session
stands at the tokens `S`: the host counts agree with `S` (`HostIs`), the
buffers the host has published hold exactly `S` (`Published`), and a step in
flight has run some number of its operations and has the others on the stream
(`FlightIs`). Nothing in it counts the layers: `Reached` describes the device
after the first `j` operations of the step's `Program` at once, and `RunReaches`
shows that one operation leads from `j` to `j + 1`, whether it embeds
(`EmbedReaches`), advances a recurrent block (`RecurrentReaches`), appends to a
full one (`FullReaches`) or projects (`HeadReaches`). Every operation writes the half of a
double buffer, or the rows, that are not published (`RunKeeps`), so a step that
fails anywhere leaves `Stands(S)` true, and one that completes makes `S` with
its tokens stand, because then the stream has run the whole program. `Steps`
says this of every action: the same `S` stands and nobody is answered
(`Quiet`), or the step is published and answered (`Answers`). `SeenIs` makes
`S` the sequence the refinement mapping reads off the device, so those two
cases are a stutter or `Fail`, and `Step` of `TokenLog`.

`Text_proofs` about `NativeText`, for all uses, buffers, batches and failures:

| theorem | property |
|---|---|
| `UploadsAreKept` | `UploadsOutliveStreams` |
| `NothingIsLeftBehind` | `NothingLeftBehind` |
| `SettledResidentCloses` | `SettledCanClose` |

The argument. Reference counts are cardinalities: `OuterAt` and `InnerAt` say
at which stages a use holds either reference, and `IInv` that `outer` is one
for the handle and one per holder, `inner` one for an open resident, one per
holder and one per recovered model. `SoundAt` says what a use can have at the
runtime at each stage; in particular a use with a stream holds the uploads, or
was dropped with them kept. `LocalIInv` reduces every step of one use to the
stage it leaves and the stage it comes to; `CallerSteps` are the steps of the
resident's own handle, where `close` sees counts of one only if nobody holds.

`Text_proofs` about `TextGeneration`, for every set of tokenizers, decoder
programs of any length, output limits and sequences of tokens. `TokenAssumption`
says that a vocabulary is finite and spells texts, that a program consists of
the stages of the code, and that the stop token and a token without a spelling
are not spelled; `LimitAssumption` that at least one token is asked for:

| theorem | property |
|---|---|
| `StageIsBounded` | |
| `StageIsTheReference` | |
| `StorageSuffices` | `PlannedStorageSuffices` |
| `AnswerIsThePublished` | `PublishesTheAnswer` |

The argument. The first two are about the operators: for every stage and every
buffer, what `Apply` writes is within `OutputBound`, and is what `RefStage`
says. A recursive definition is out of the provers' reach, a recursive function
is not: `Passes` and `FlattenSeq` have a value at each position (`StepsExist`,
`FlattenIs`), what is claimed of them follows from each position to the next,
and `UpTo` carries it over an interval. So the bytes of a buffer are a sum over
its tokens (`TotalsAre`), and a bound for each token is one for the buffer
(`GrowsBy`, `NoLonger`, `GrowsButFirst`). A pattern of one symbol is replaced no
oftener than its bytes are in the whole buffer (`ReplacesInEach`), which is the
quotient in `literal_replacement_bound`. `NextByteOwes` counts a lead still
open as the three bytes of the replacement character it may become, `Paid` a
run that is held back as what its tokens brought.

For the reference, a scan is compared with what the reference has written up to
the same token: the same, but for the lead that is open (`LossyIsTheReference`)
or the run that is held back (`Holding`). `RunFlattened` says that the
reference, which decides for each fallback token by the whole run around it,
writes over a run what `flush_fallback` writes at once.

`GenerationInv` carries the bound through a generation: the buffer that is due
for a stage is `Below` the shape the plan expected there. It is inductive
because `OutputBound` grows with the shape (`OutputBoundGrows`: the code applies
it to bounds, not to what is really there) and because the final plan has room
for each one on the way (`LastPlanHolds`). `AnswerInv` says that what the driver was
given is the prompt and what is stored, and that the first buffer is the
reference's after as many stages; it needs `GenerationInv` to say that this
buffer is one of texts and the stage one of the program.

`Scheduler_proofs`, for all limits, identifier ranges, grants, requests and
handles. `RequestAssumption` (a request is a list of workloads) gives a
prepared admission its length and the shape of its placements,
`NativeAssumption` (the bytes of a native resident or use are words, on
devices) and `GrantAssumption` (a grant is a snapshot) the type of what comes
of them; nothing is assumed of the executor or of the ledger's sums:

| theorem | property |
|---|---|
| `AnswersFindTheirState` | `PendingMatchesState` |
| `UsesAreCounted` | `UsesMatchPermits` |
| `GrantIsFollowed` | `AdmissionsFollowTheGrant` |
| `StoppedNeverServes` | `NoReturnToService` |
| `EveryLeaseIsOwned` | `LeasesHaveOneOwner` |
| `HostBytesAreOwned` | `HostBytesMatchOwners` |
| `TypeCorrect` | `TypeOK` |
| `CustodyIsKept` | `KeepsCustody` |
| `EvictionsGoRound` | `NobodyIsOvertakenTwice`, if one command is outstanding at a time |

The argument. No one of them is inductive: that `complete` finds its admission
needs what is pending, that a loading admission may be released needs that it
has no uses, and that a finished use leaves a revoked admission draining needs
the grant. `PendingInv` says what is pending without counting (each operation
and each native load has an admission of its own in the state its command left,
and the other way round); `UseInv` ties uses to the three tables of permits, of
which a quarantined use moves from the second to the third. The steps fall into
few kinds, one lemma each (`StateStep`, `GoneStep`, `AddStep`, `UsedStep`), and
what is pending changes in four ways (`PendingQuiet`, `PendingIssue`,
`PendingAdmit`, `PendingTaken` with its native counterpart). `NoReturnToService`
follows step by step, as each of these lemmas also gives `Stays`.

`EveryLeaseIsOwned` needs more: `OwnInv` adds that every lease and result has an
identifier already issued, so a new one is nobody's. `OwnersAreRows` writes the
owners as the rows of six tables without those that hold no lease, and every
step then does one of four things to rows and ledger: leave them, add the leases
of a batch with an owner each (`OwnersGrow`: `commit_admission`,
`admit_native_resident`, `begin_native_use`), take one lease from its owner
(`ReleaseTakesOne`), or hand a lease to a new owner (`LiveMoves`: a finished use
to its result, a lost use to quarantine). `finish_native_use` does the last two
in one step. `ResidentsApart` holds because a handle is refused at `complete`
while it is in custody, and nothing else brings one.

`HostBytesAreOwned`: the counter is a sum over six tables. `Charges(S, n)` says
that `n` is the number of units of byte the rows of `S` hold, so an owner that
comes, goes or hands its bytes to another changes a set of units and the sum
needs no recursion. Each operation does one of these to the rows of one or two
tables, and the envelope is never exceeded because `CanHoldHost` is asked of
the counter, which is the sum.

`TypeCorrect` is mostly what the others say. What they leave is `TypeInv`: the
ledger is one (`IsLedger`), counters stay within their limits (`CounterInv`), a
use keeps its slot until its result is discarded (`SlotInv`), and memory is
claims (`MemoryInv`). A few lemmas on reserving and releasing are those of
`ReservationLedger_proofs`, restated here because that module has variables
of its own.

`CustodyIsKept` maps each operation to one step of `ResourceCustody` or a
stutter. `View` is what the tables say of one lease: the claim the ledger has
for it, the uses that pin it, whether it is lost, whether memory may be behind
it. One lemma per abstract action (`IsCharge` to `IsRenew`) says which change
of the views is that action, one per operation (named `...Mapped`) that the
operation makes that change. The views of different leases can be treated apart only
because a lease has one owner (`OwnInv`), and no lease in use is given back
because the counters count the permits (`UseInv`). `CustodyInv` adds that every
admission has a lease (`Admitted`) and that there may be memory behind exactly
the active leases but those of admissions that only exist on paper, reserved or
drained before they were loaded (`MemoryFollows`): that is what lets the code
release such a lease without asking the executor.

`EvictionsGoRound` is about `EvictionOrder`, the controller with the history of
who was sent to eviction past whom. `Tried` says what can have become of
somebody who was sent once: gone, lost, being evicted, or waiting again, but
never back in service. `Queued` orders it after the one it overtook, going up
from the drain cursor and starting over at the lowest identifier (`Before`), and
says the same of the cursor a failure of the running eviction would leave. Of
all the operations only `PollEvict` and `EvictFailed` move that order; all
others are `Carried`, because new admissions are not waiting and have
identifiers of their own. `MaxPending = 1` is needed: with two
evictions outstanding the later may fail first, and the failure of the earlier
one then sets the cursor back, in front of one that was just tried.

Only model-checked: liveness (`RevokedGrantDrains`, `ReservedLeaseReleases`,
`TeardownSettles`). Liveness and `ENABLED` are outside the prover. Every
invariant and every action property a passing run checks is proved.

## 5. What is not modelled

Parsing, wording of refusals and JSON are left out everywhere. Numerical code
(`kernels`, `quant`, `decode`, `emulation`, the CPU execution and the model
blocks) is floating point over tensors and outside TLC; it is most of the
lines of the repository, so the share of lines the map covers stays small. Its
control is a fixed sequence of calls whose order `NativeSession` has where it
matters. Enumeration of devices, synchronous copies and events of `hipcore`,
templates and profiles of `text`, tokenizer files and the flat cache are
sequential checks before an effect, with nothing to interleave.

Hazard without a property: loads come before evictions (`sched/src/lib.rs`),
so a stream of new admissions can postpone a retirement for ever. The code
promises nothing here: the order is deliberate and admissions are the caller's.

Worth doing next: patterns of more than one symbol and the cleanup list of
WordPiece in `DecodeStages`, whose bounds divide by the length of the pattern
or take each rule's in turn; and the overflow of `usize` in `storage_plan`.
