# A TLA+ verification of Maki

Maki is a crash-consistent encrypted block volume. An nbdkit plugin turns NBD
requests into calls of an engine; the engine encrypts units through one of
several crypto endpoints, appends the ciphertext to a journal, serves reads from
an overlay, and later applies durable records to a slot store in checkpoints.
This directory holds TLA+ models of that core, the TLC runs that check them on
small instances, and TLAPS proofs of the parts that could be proved for every
instance. It covers the storage core, the engine, the crypto dispatch, rollback
protection with both witnesses, the volume daemon and the privileged helper.

## 1. The system

| Component | State | Operations | Talks to |
|---|---|---|---|
| A/B copies, durable proof (`maki-format` ab, durable_proof) | two files, generation, horizon | load, store, initialize, advance | called by journal sync, attach, checkpoint |
| Journal (`maki-core` journal, recovery_scan, half of recovery) | segment files, active and sealed segments, durable mark, proof | append, roll, sync, delete_covered, scan, repair, adopt | backing files, durable proof |
| Overlay (`maki-core` overlay) | per unit latest and durable version, pending promotions | publish, promote, collect, retire | volume |
| Slot store (`maki-core` store) | shard files, allocation and discard maps, reservations, reclamation cursor | reserve, write, mark, persist, punch, retry_reclamation | backing files |
| Volume (`maki-core` volume, half of recovery) | the four above and the checkpoint state under one lock | write_ct, discard_ct, flush, read_ct, prepare/execute/finish checkpoint, recover | engine |
| Read cache (`maki-cache`) | plaintext by unit and version, LRU order | get, put, reconfigure | engine |
| Engine, request path (`maki-core` engine, `maki-crypto` flow) | admission semaphores, unit locks, failure latch | read, write, trim, flush, cancellation | crypto, cache, volume |
| Engine, reclamation (`maki-core` engine) | checkpoint gate, notify, stop flag, backoff, refusal flag | admit_journal, publish rounds, worker_pass, checkpoint, stop | volume |
| Circuit breaker (`maki-crypto` breaker) | circuit, generation, probe slots, open interval | acquire, verdict or drop of a permit | endpoint set |
| Endpoint set, retry budget, batch scheduler (`maki-crypto`) | endpoints, capacity, lanes | dispatch, failover, validation, coalescing, retries | breaker, transports |
| Crypto transports (http, grpc, websocket, local) | connections | encrypt, decrypt | remote services |
| Rollback protection, local witness (`maki-backing` rollback, witness) | arena of page slots, two manifests, anchor; committed and working namespace of a session | the file operations, commit, reclaim, create, open | the backing the volume runs on |
| Rollback protection, remote witness (`maki-backing` remote, enrollment, gc; `maki-witness`) | record and fence of the authority, namespaces, etcd key | claim, takeover, advance, fork, gc, failover | backing, etcd |
| nbdkit adapter, control socket (`maki-nbdkit`, `maki-control`) | connections, drain state | start, serve, drain, stop | engine |
| Privileged helper (`maki-privileged`, `maki-attach`) | plan and its state file | attach, detach, recover | host commands |
| Checker, command line, benchmark, format codecs, configuration | none of their own | | |

What is hard in it:

* **Power loss and lying syncs.** A file system may keep any part of what was not
  synced, and a failed `fsync` drops the dirty state: the next one succeeds and
  proves nothing. Every persistence protocol here must survive both at any step.
* **Two-lock checkpoint.** Slot I/O of a checkpoint runs without the volume lock
  while writers publish newer versions, reserve slots and fail.
* **Cancellation.** Every await of the engine may be the last; locks and permits
  have to outlive the caller when a task still works on its behalf.
* **Two limits and one worker.** Journal and overlay limits are enforced by
  writers that may have to run checkpoints themselves, next to a worker with
  deadlines, backoff, wake-ups and a stop.
* **Two generations and one witness.** A commit of the rollback-protected backing
  spans three files in two file systems. Whatever of it fails, the generation the
  witness may select after a power loss must still have all its pages.
* **Late verdicts.** Answers of crypto operations arrive after the circuit of
  their endpoint has moved on, or never; callers leave while their items travel
  in a batch with those of others; an endpoint is validated while others serve.
* **Fences.** A writer that has lost its volume to another host does not know it
  yet, its requests are still on the way, and a collector removes namespaces.
* **Drain against everybody.** A drain must cover callbacks, verbs and other
  drains, be cancellable, and be followed by a shutdown that really lets go of
  the volume while control clients stay connected.
* **A kernel shared with others.** The privileged helper looks, then acts, and
  may be killed in between; other root processes use the same devices, the
  server of a device may die, and a command may go on without its helper.

`PROJECT.json` lists these hazards one by one, at the line where each bites, with
the properties that would catch it going wrong.

## 2. Modules

```
HorizonRegister            what a durable register promises
DurableProof               the mirrored two-copy record, call by call
Outcomes                   sets of outcomes of fallible calls; A/B pairs as registers
CrashFS     (Outcomes)     files after power loss and failed syncs
Journal     (CrashFS)      journal writer, scan, attach
Units, Overlay, SlotStore (CrashFS)
DurableVolume              what a volume promises its caller
Volume      (SlotStore, Overlay)   foreground, checkpoint, replay, crash
VolumeProofs               TLAPS: honest checkpoints, refinement of DurableVolume
ReadCache                  the versioned LRU
Engine      (ReadCache)    request path
EngineReclaim              journal admission and the checkpoint worker
EngineProofs               TLAPS: updates, reads and the cache, durability; journal bounds
CircuitBreaker             the breaker of one endpoint
ComponentProofs            TLAPS: DurableProof, CircuitBreaker and Attach
Scheduler                  a lane of the crypto batch scheduler
SchedulerProofs            TLAPS: capacity and slots, own results, sends
EndpointState              one endpoint: circuit, retry budget, permits
EndpointSet (EndpointState)  construction, dispatch, failover, validation
EndpointSetProofs          TLAPS: permits, interchangeable endpoints, sends
RollbackBacking (Outcomes) copy-on-write backing with a local witness
RollbackProofs             TLAPS: the witnessed manifest is durable, reads
Authority                  the state machine of the remote freshness authority
RemoteWitness (Authority)  writers, forks, collection, file store and etcd
RemoteWitnessProofs        TLAPS: answers, current generation, sessions
NbdRequest                 extents and the engine calls of an NBD callback
DrainGate                  the admission gate and its Notify
Daemon      (NbdRequest, DrainGate)  start, callbacks, control, drain, shutdown
DaemonProofs               TLAPS: drain, shutdown, exclusion, replies, socket path
BlockStack                 what the helper observes of the kernel
Attach      (BlockStack)   the verbs of the privileged helper
MC*                        TLC instances; the .cfg files give the constants (the
                           breaker's is of CircuitBreaker itself)
```

The composition is by contract. `DurableProof` is shown to implement
`HorizonRegister`; `Journal`, `SlotStore` and `Volume` use every A/B pair as such
a register, a value a load returns now and the values a power loss may leave.
`Journal` checks that an attach finds a prefix of the accepted records which
contains every acknowledged one; `Volume` uses the journal as exactly that.
`Volume` implements `DurableVolume`; `Engine` uses the volume as a history of
records with a durable boundary; `Daemon` uses the engine as records that are
checkpointed or not and synced or not. `EndpointSet` uses the breaker with its
clock reduced to one flag. `RemoteWitness` takes the arena of a namespace from
`RollbackBacking` as one value per generation.

### DurableProof
Each write, sync and directory sync of `AbStore::store` is an action, and
`advance` is two stores in a row (`pass`). `cache`, `disk` and `pend` are what a
read returns, what is certain on disk, and the images that may surface instead.
Every step may fail; a failed sync forgets that the file was dirty; `Crash`
chooses an image for each side. A horizon stands for the triple of sequence,
segment and size. Generations are bounded by `MaxGen`, the code's `u64::MAX`,
and exhausting them is an error of the model as of the code.

### CrashFS
The contract of `maki-test-support/crash_backing.rs`, the harness of the
repository's own crash tests: cells instead of bytes, a set of possibilities per
cell, length and directory entry. After a power loss a cell with more than one
possibility, the header of a segment included, may also be a part of each
(`Torn`).

### Journal
A handler runs under the volume lock and is one action with the set of all its
outcomes; `Then`-style composition is Rust's `?`. A crash within a handler is one
of its error outcomes followed by `Crash`. Attach is a chain of steps (`Attach`,
`Repair`, `Rewrite`, `Publish`, `Replay`, `Prune`) that can be cut anywhere.
A segment is a header cell and one or two cells per record; CRC checks are
equality with what was written. A failed creation may leave the file empty,
zeroed, with its header or with a part of it (`HalfCreated`), and so may a power
loss after it; the scan then fails closed, as
`review_journal_creation_cleanup.rs:341` asserts. `Publish` refuses an adoption
whose horizon does not follow the published proof, or that has no boundary in the
journal; `AttachAccepts` says that neither happens to a journal the scan accepts.

### SlotStore, Overlay, Volume
`WriteCt`, `DiscardCt`, `Flush`, `PrepareCheckpoint`, `PlanWrite` and `PlanSync`
(without the lock), `FinishCheckpoint`, and attach as `Open`, `Replay`,
`Attached`. One existing shard: creation and adoption of shards, the catalog,
truncated data files, `reclaim_stalled` and `check_freshness` are left out. A
slot is one cell; Torn stands for every header or CRC failure; a half write of
identical bytes changes nothing. A failure anywhere in the persistence of an A/B
pair is at worst a failed store. A roll inside a failed append may make
everything before it durable.

### ReadCache, Engine
Work under the volume lock is one action. A ciphertext is the contents it
decrypts to; a provider may fail. A request passes `AcquireSlot`, `AcquireBytes`,
`CheckFreshness`, `LockUnit`, `Snapshot`, `Decrypt`, `Encrypt`, `Publish`,
`SyncJournal`; `Cancel` may come at any time and leaves the owner task behind,
which `Drain` ends. A panic leaves a garbage record and the failure latch.
`verify_on_hit` behaves like a header-only hit. Counters, latencies and health
states are left out.

### EngineReclaim
The journal and the volume's view of it are `vol`. A record and a segment header are
one byte each and every record is of its own unit. The clock is the two flags `due` and `backoff`. Free space is one of four
levels (ample, short, low, out), which assumes a low-space threshold of at least
the emergency reserve. After a failed roll the last segment is still treated as
active. The overlay's byte bound has the shape of its entry bound and is left
out. A configuration (`Settings`) bounds records, storage failures and losses of
free space; the run starts from each of several that meet one limit each.

### CircuitBreaker
Each method holds the mutex and is one action; `open_until` is the number of
ticks left. The methods without a generation (`allow`, `on_success`,
`on_failure`), which only tests call, are left out. `mine` and `earned` are
history: the probes of this window and how many of them succeeded.

### Scheduler
One lane from admission to delivery: `Submit` and `Admit` (the pending charge),
the lane task (`Lane`: receive, gather, wait for a slot), a task per batch with
its provider call, and the re-sends request by request after a rejection, which
borrow the slot of the batch. `Leave` is a caller dropped at any await. Items and
bytes are one count, the crypto contexts are equal, `caps.retry_safe` is the
workload's `safe`. The encrypt and the decrypt lane run the same code and share
only the provider, so one is modelled; the end of the lane task is not.

### EndpointState, EndpointSet
`Setup` builds the set as the daemon does: probes, the reference endpoint, the
canary, quarantine of those that could not be reached. Dispatch is cut wherever
it meets state of others: registration for a notification, the local and the
global permit, the circuit, the call. Validation runs in its own task per
endpoint, its self test and comparison as six calls in a row. The endpoints' keys
are given: own, rotated, foreign, or none ("plain"). Time is the flag `cooled`;
`validation_interval` and the minimum probe rate are nondeterministic. A set of
one endpoint never compares anything; the engine's attach checks it against the
canary. In the two calls of a comparison in which one endpoint decrypts what the
other encrypted, either may answer with a refusal ("refused"), and either answer
condemns the candidate, as `ValidationProvider::failure` and the self test make it.
A call gives its permits back before the task stores the verdict (`ValVerdict`),
and an operation that has both permits looks at the circuit again in a step of its
own (`AdmitRecheck`). Two defensive branches of the code that no state reaches are
left out; one is the rejection in `common_caps` of an endpoint whose compatibility
identifier differs, since one configuration gives the capabilities of all.

### RollbackBacking
Every call of a session holds its mutex and is one action; `Commit`, `Reserve`,
`ReadPage`, `WritePage` and `ReclaimClosedFiles` are the methods of `State` with
all their outcomes. An error that poisons the session ends it, since a poisoned
session refuses everything until it is dropped. A page, a manifest, the arena's
length and the marker are cells with the values a power loss may leave; the
anchor changes atomically by rename and is certain once its directory is synced.
A digest is the value it digests, so the anchor is the manifest it selects, and
"authentic" is equality. A write of several pages is one write for each, and a
file has at most one handle. `owed` is history: by file identity and directory,
what the successful `sync_data`, `sync_dir` and `allocate_range` calls promised,
with both possibilities after a call that stopped the session. `RestoreBackup`
puts a complete copy of the present or the previous generation back, in the page
cache only. An initial state is a backing that is not enrolled yet or one that
was used and closed.

`sync_dir` and `sync_data` merge committed names of some directories with working
names of one, which may exceed `MAX_ENTRIES` although neither view does; the code
then refuses the commit, and so does the model (`Fits`).

### Authority, RemoteWitness
`Authority` is `transition` and `CanonicalState::apply`: which request a record
admits, the replay of the last one, the exact comparison. `RemoteWitness` puts
writers around it: create, open, takeover, restore and recovery claim, fork the
current generation into a namespace of their own, are activated, commit, collect,
snapshot, and release. The authority is the file store, whose publication may
fail before or after its rename and which republishes what it read when it is
started again, or etcd, where a frontend may be overtaken between load and
transaction.

A request that was sent may be served at any later time and any number of times,
which covers retries, failover between servers and requests that outlive their
client. `Inspect` is atomic and its answer is used later. A refusal is to the
client one more failure. A process that dies before its activation is a failed
transaction. A restart of the authority that lost nothing changes nothing and is
left out, and so are roots and authorities of another volume, and a commit at
`MAX_GENERATION`. Operation identifiers are unique (`<<flow, step>>`).

### NbdRequest, DrainGate, Daemon
`Start*` is `after_fork`: recovery takes the volume lock or fails, the control
socket is bound under the directory lock, the adapter is published. A callback
(`CallEnter` ... `CallReplied`) enters the gate, is validated and split into
engine calls by `NbdRequest`. `Loop*` is the serve loop of the control socket and
its `JoinSet`, `Verb` and `AdminEnds` the verbs that change state, `Drain*` the
stretches of `drain()` between its awaits, run by a verb or inside `shutdown()`
(`Stop*`). `ProcessEnds` is an exit or a kill. `Refs` lists who holds the engine;
the volume lock goes with the last of them. The listener removes its socket path
when it is dropped, if the path is still its own; the removal is best effort, and
where it fails the dead socket stays (the loop is "left") and the stop succeeds
all the same. A daemon never restarts, a restart is
another member of `Daemon`. Geometry, provider construction and hardening are one
step that may fail. The single-connection slot and the verbs `status` and
`metrics` keep no state that the properties see.

### BlockStack, Attach
`BlockStack` is the observations of the kernel: backends of nbd devices,
mappings, mounts, other holders. `Attach` runs one helper at a time under its lock; `h.todo`
is the list of calls the verb has still to make, each one step that may fail, a
failed command or write with or without its effect. A command has a process group
of its own, so it does not end with its helper: when the helper is killed
(`Killed`), or gives up a command that does not die at its deadline (`Run`), the
command may stay in `k.late` and has its effect, or none, at any later time
(`LateEnds`), while other helpers run. `k.loose` remembers the ones that build
something; the properties name what each of them excuses.

`Elsewhere` is everything others do to devices, mappings and mounts. A dying
daemon either loses the connection or leaves the kernel connected to a dead server
(`ServerDies`, `k.dead`), and then nothing can be read through the device:
vgchange may fail (`VgUnreadable`, `VgOffFails`), and whether the direct removal
of the mapping is tried instead depends on the record, as in `exec.rs`.
`WriteSentinel` writes the sentinel on whatever is mounted, so it proves nothing;
what an attach knows of its filesystem is the UUID that its configuration names,
or does not (`FsPinned`). `h.stale` remembers what others, or commands left
running, changed after the last look that succeeded, because the kernel offers no
check and teardown in one step and `OwnOnly` excepts exactly that.

One logical volume per volume group on a
whole-device physical volume; nested mounts, the topology of a grown volume,
partitions and mount identifiers are left out; the loops' limits of 4 and 16
rounds are not reached; nobody else activates the volume group on the helper's
own device; a reboot, which loses /run and the kernel's state together, is the
initial state.

## 3. Runs

| Run | Instance | Distinct states | Shows |
|---|---|---|---|
| durable_proof | 10 generations, 3 horizons | 33,000 | no horizon lost or invented and the pair always loadable, success is mirrored, implements HorizonRegister |
| journal | 3 sequence numbers, 3 indexes, 4 faults | 364,162 | attach refuses nothing the system itself can leave but an unfinished creation, and the writer stays consistent, every acknowledged record is recovered, fresh indexes |
| volume | 2 units, 2 records, 3 faults | 397,085 | checkpoints and reservations honest, implements DurableVolume |
| engine | 2 clients, 3 requests of 7 kinds, a volume with data, cache of 0 or 1 units, 3 or 4 units of bytes | 1,580,000 | no lost update, reads of one moment from a coherent cache, acknowledged means durable, nobody stuck |
| reclaim | 5 configurations of 1 or 2 writers | 114,000 | limits held and room after a reclaim, no early refusal, callers and stop return, work is drained |
| breaker | 3 callers, 5 failures | 184,024 | slots are probes, a repaired endpoint's circuit closes for good |
| scheduler | 3 callers, 3 items pending, 18 workloads | 81,000 | capacity conserved, everyone gets its own verdict, nothing unsafe sent twice, callers that stay are answered |
| endpoints | 2 endpoints, 2 operations, 10 settings, 2 faults | 311,066 | permits conserved, serving endpoints interchangeable and none rejected without a reason of its own, sends allowed, operations end |
| rollback | 2 pages of capacity, 3 names in 2 directories, 4 calls, 2 faults | 302,202 | witnessed generations are kept, promises are kept across power loss and rollback, reads see the last write, no consistency check fires |
| remote_witness | 2 hosts, 2 flows after the first session, 2 generations, 3 fences, file store and etcd | 381,000 | answers of the authority are kept, the current generation stays loadable, live sessions keep their namespace |
| attach | 2 volumes of one VG name and device, one with its filesystem's UUID pinned, 2 connections, up to 2 changes by others and 1 fault, 2 together | 394,537 | nothing without a record but by a command that outlived its helper, only the own layers are torn down, success is earned, repeated cleanups retire every record but those kept for the operator |
| daemon | 2 daemons on one or two volumes, 1 thread, 1 session, 2 shutdowns, 1 fault | 208,897 | drains cover, replies are earned, shutdown releases, socket kept or removed by its owner only, callers answered |

A property that names several facts holds all of them: the type invariant of a
module and the local invariants it rests on are conjuncts of one of its
properties (`NoLostUpdate`, `ReadsLinear`, `BoundsHeld`, `AttachAccepts`,
`CheckpointHonest`, `WitnessedKept`, `PromiseKept` and others).

**Why the bounds are enough.** Each instance is the smallest in which the hazard
occurs: a journal needs three records and three segments to have a sealed, an
active and a reappearing segment; a volume needs an overwrite and a discard
between two checkpoints and two faults, one for the failed sync and one for the
power loss; the engine needs two requests on one partial unit, and for a stale
hit a read, an overwrite and a read of a unit with data; the reclamation needs
two writers, one of which fills the room that the other's checkpoint made; the
breaker needs a success threshold above the number of slots (3 over 2), so that
a lost slot wedges it, and three callers, so that a late verdict of one window
meets a full later one; the scheduler needs two requests for one unit and a third
to be coalesced with, a rejection and a single slot; the endpoint set two
endpoints to fail over between and one permit that two operations and a
validation contend for; the rollback backing needs a used page, its overwrite and
a commit that fails before a power loss (2 faults), a capacity small enough to be
exhausted, and a limit of 2 entries, so that a creation has to reclaim; its 4
calls count only those that change the session and come after the file of the
initial state; the remote witness needs a first session that does not know it was
revoked and two operations after it, a takeover and a collection or a snapshot
and a restore; the helper needs a second volume with the same names, a second
connection and somebody else on the device; the daemon a second daemon for the
same socket path, a callback split in three, a verb, and two shutdowns. The
property of every run is broken by a mutant of the code under the same bounds,
which shows that the bounds reach it. Larger instances were run as well and
passed: `journal` with 5 and 6 faults, `volume` with 2 units, 3 records, 2 faults
(1,699,157 states) and 1 unit, 4 records, 4 faults (1,381,195 states), `engine`
with 3 clients (2,164,872 states), `journal` with 2 sequence numbers and 8 faults
(122,581 states), and the safety properties of `attach` with 2 changes by others
and a fault besides (2,177,486 states).

**What `AttachAccepts` leaves to the operator.** A creation that was cut short can
leave a segment file with a part of its header, or, below a later segment, a file
without one. The scan refuses such a journal, and the repository's tests demand
it. The property takes these files away (`Unfinished`) and asks that the scan
accepts the rest, so that nothing that was ever complete is taken for damage.

**What `Converges` leaves to the operator.** `operations.md` and
`storage-recovery.md` say that vgchange fails on a lost physical volume, and that
an explicit recover and an intent without a proof then keep the record for
diagnosis. `Retained` is that, and the record of a volume whose device or
mountpoint a command left running has taken since.

**Deadlock.** It is checked for the durable proof, the journal, the volume, the
breaker, the helper and the daemon (which may rest only when `Quiet`). The other
runs say `CHECK_DEADLOCK FALSE`, because an engine, a scheduler, an endpoint set,
a session without further requests rests, and the number of requests is bounded.
That nobody waits forever in them is what `NeverStuck`, `CallersReturn`,
`Answered` and `OperationsEnd` say.

**Fairness.** Only what the code's scheduling gives.
* EngineReclaim: weak fairness for tasks, which tokio polls until they finish;
  strong fairness for the checkpoint gate, whose queue is FIFO; the clock
  advances. `Engine` needs none: `NeverStuck` is an invariant, and a callback has
  finitely many steps.
* The breaker: callers keep coming, the clock advances, and of the operations a
  healthy endpoint serves not every one is cancelled.
* Scheduler: the lane and the batch tasks run. Nothing makes the provider answer:
  `Answered` promises an answer only where no call stays unanswered, and the
  release of abandoned items even where calls do.
* EndpointSet: tasks run, a call ends at some time (transport timeout), a circuit
  cools, and a probe of the minimum rate comes due (strong fairness of `Call`).
* Attach: a started helper runs on, a command left running ends, others leave the
  device in the end, and the operator repeats `cleanup` while there is a record
  (strong fairness).
* Daemon: engine calls return, the serve loop, aborted sessions, drains and
  shutdowns run. Clients owe nothing: they may stay connected for ever.

## 4. Comments and code

Three comments say more than the code does. The first two are no fault of the
program.

1. `recovery.rs:846`: "Segment indexes must never be reused". Attach numbers the
   next segment above the surviving ones, the mark and the proof, but it first
   overwrites the mark with its own last surviving segment, also when the old
   mark named a higher one. After a power loss that undoes an unlink, an index is
   used a second time. Within the bounds of `journal` the reuse does no harm:
   `FreshIndex` (of the older segment no mark and no proof can surface any more; a
   file may) and `RecoversAcked` hold.
2. `engine.rs:1934`: for a refused write the worker syncs first "so the pass
   actually shrinks what it was woken for". The decision uses a snapshot that is
   older than the refusal it consumes; records appended in between stay volatile
   and the checkpoint covers less. The next interval or refusal makes up for it
   (`WorkDrained`).
3. `exec.rs:1313`: the record is written first, so "process death cannot leave an
   unrecorded connection". Every command runs in a process group of its own
   (`command.rs:63-64`) and nothing ends it when the helper dies, while the attach
   lock goes with the helper. With `DeathLeavesRecord`, which states the comment, as
   an invariant of `MCAttach`, TLC finds this: the helper is killed while nbd-client
   starts, a cleanup finds the device absent and everything clear and retires the
   record, and then nbd-client connects.
   `NoOrphan` is what does hold: this is the only way.

## 5. Proofs

`ComponentProofs` proves of `DurableProof`, for every bound on generations and
horizons, from `BoundsAssumption` alone:

* `TypeCorrect`, `HorizonNeverLost` (`HorizonHeld`), `SuccessIsMirrored` (`AckMirrored`) and
  `RegisterImplemented` (`ImplementsRegister`).

None of these is inductive: a copy that reads as valid may be in the page cache
only. The strengthening `IInv` names an *anchor*, a side whose durable image is
certain, is what a read returns, and carries at least the acknowledged horizon;
every valid image of the other side that may surface is ordered against it in
generation and horizon alike. Around it: nothing that may surface claims data
that was not made durable (`Bounded`); the preserve step has made its copy dirty
again (`Redirtied`), so the sync after it is not an empty success; after it that
side is the anchor (`Preserved`); and the copy being replaced is the anchor's
partner (`Replaced`, `FirstStored`). Each action has a lemma; the refinement uses
the register value *largest readable horizon* and needs `IInv` on both sides of
a step.

Of `CircuitBreaker` it proves, for any set of callers and any thresholds, from
`BreakerAssumption`:

* `BreakerTypeCorrect`, `SlotsAreProbes` (`ProbesCounted`), `ClosingIsEarned`
  (`ClosedEarned`) and `ReopeningIsOwn` (`ReopenedByProbe`).

The invariant says what the generation is for: no permit is newer than the
circuit (`PermitsPast`), and while half-open the callers with a permit of the
present generation are exactly the probes admitted in this window, one counted
slot each, and `successes` counts theirs, short of the threshold (`Window`).

`ClosedEarned` and `ReopenedByProbe` are checked by no run: the theorems stand
for themselves.

Of `Attach` it proves, for any volumes, attachments, devices, configurations and
bounds, from `AttachAssumption`:

* `AttachNoOrphan` (`NoOrphan`), `AttachSuccessEarned` (`SuccessEarned`) and
  `AttachOwnOnly` (`OwnOnly`).

None of the three says anything of a helper in the middle of a verb, and every
one depends on it. `AInv` therefore follows the calls that are left: `h.todo` is
the rest of a verb's own list from its n-th call on (`Attaching`, `Detaching`,
`Recovering`, `Confirming`, `Verifying`, ...), behind what a step may have put
first (`InsertedAt`: an unmount, a deactivation, a forced removal, a disconnect),
or a rollback (`RollingBack`). For each n it says what the record names by then
(`Named`; from `publish` to `prove` with the intent, afterwards with the proof),
what has been seen of the kernel and is still so unless `h.stale` says who may
have changed it (`MapOurs`, `MountOurs`, `Unused`, `BackendOurs`), and what no
other program can bring back once it is gone (`Down`, `Unmapped`: nobody else
connects with a recorded nonce or owns a mapping). Next to it: a proof in a record
is of a mapping that the helper verified (`RecordsOwn`), and a mapping with an open
filesystem stays active (`OpenedActive`). Wherever the invariant says that something
is not there, a command that outlived its helper may have made it: `StrayConnect`,
`StrayMap` and `StrayMount` name the connection, the mapping or the mountpoint, so
that one command left running excuses nothing else; and an attach is held to its
own filesystem only where its UUID is pinned. The proof first shows what each
list of calls is, place by place, then what a step of the kernel or of another
program leaves alone, then one lemma per call for every verb that makes it. The
invariant was model-checked on the instance of the run `attach` first. The proof
found a mistake in the model: `MountXfs` had mounted the volume's own filesystem
when the recorded connection was alive but the mapping was on another device.

`DaemonProofs` proves, for any number of daemons, volumes, threads, sessions and
stoppers, any session limit and any bounds, from `DaemonAssumption` (threads and
sessions are finitely many, every one belongs to a daemon, and the names of
sessions, stoppers, daemons and `NoOne` are distinct) and `SizesAssumption`:

* `DrainCoversAlways` (`DrainCovers`), `StopReleasesAlways` (`StopReleases`),
  `RepliesEarnedAlways` (`RepliesEarned`) and `SocketKeptAlways` (`SocketKept`).

The chain of its invariant: that a drained gate keeps the checkpoint the last word
(`Covered`) needs that a callback which could write would be inside the gate
(`Counted`: the counter is the number of those inside, one drop per `enter()` on
every way out) or belong to another daemon on the volume (`Exclusive`: every
reference to the engine is a copy of one that `StartRecover` took with the lock
free). That nobody is inside when a drain checkpoints needs that no second drain
opens or finishes in between (`DrainAlone`). That a shutdown has released
everything, its socket unless the removal failed (`Released`), needs both, because it drops the adapter's state only
behind a drained gate and an ended loop; and all of them need which parts of a
process can be alive at which stage of it (`Life`). The module first shows who may
change each piece of state (`ProcMoves`, `CallMoves`, `CallerMoves`, `PhaseMoves`,
`EngMoves`, `PathSteps`), then that `Next` keeps each conjunct.

A reply of success is earned (`Earned`) because a running callback has done its
extent up to some block and the engine calls it has left lead on from there to the
end without a gap, and because the sync a FUA asks for is on the last of them, or
none of them writes (`Underway`, `SyncAhead`). Both start with the split
(`CallsLead`): the chunks of any extent, and the head, trim and tail of a zero,
lead from its offset to its end for every unit, device size and `maximum_io`
(`ChunksLead`, `ZeroLeads`). Only a thread's own callback adds a record of it
(`UnsyncedMoves`).

`EndpointSetProofs` proves, for any number of endpoints, operations, permits,
probes, attempts and retries, whatever keys the endpoints have and whatever calls
fail, from `SetAssumption` (the operations are finitely many and are not
endpoints) and the assumptions on the limits:

* `PermitsAreKept` (`PermitsKept`), `ServingStaysUniform` (`ServingUniform`) and
  `SendsAreAllowed` (`SendsAllowed`).

A request that met a broken contract must not go back to that endpoint: that needs
what each place of `admit_endpoint` has excluded by then, the candidates still to
be tried included (`Sending`). That those who serve are interchangeable is an
equality with whichever endpoint is the reference *now*, and it needs what the
calls of a validation so far have shown of its candidate, against a reference
that still serves, up to the verdict that is not stored yet (`Vetted`), for which
reasons a verdict rejects (`Condemned`), and how far `dispatch_endpoint_set` has compared
(`Probing`). The counters (`Counts`: a semaphore, an in-flight count, a probe
slot are each the number of tasks at certain places) need where a task may hold
what (`Places`), and that a circuit which changed makes the permits of its older
generation stale at once. Before the set is built nothing moves (`Fresh`). The
counting itself is one lemma on how the cardinality of the tasks at a place
changes when one task moves.

`RemoteWitnessProofs` proves, for any number of processes, frontends, fences,
generations and operations, on the file store and on etcd, from
`AuthorityAssumption` and `RemoteAssumption` (the name of nobody is not a
process, there is at least one fence, and an operation id is a flow and a step):

* `AcksAreKept` (`AckedKept`), `CurrentIsKept` (`CurrentKept`) and
  `SessionsAreKept` (`SessionKept`).

Requests outlive their senders here, so the invariant speaks of all requests ever
sent. `Follows` orders records by fence, phase and generation and says that what
the older one contains the newer one contains, unless the epoch rose; an accepted
request always makes a strictly later record (`MadeLater`), so a record is never
expected twice. `Told`: every state the authority may come back with follows every
record anybody was answered, holds or expects. `Hosts` ties a process to its own
requests: their numbers, what they expect and ask. For the root: what a request
that can still be accepted would make current is already there (`Pending`); a
session that is not in doubt about its last commit is *settled*, no state the
authority may come to names another manifest of its namespace (`Settles`), which
is why it may overwrite the older one; and the lock on a namespace belongs to its
session (`Spaces`), which is why a collection spares it. The proof splits the
steps: those of the authority change its states and at most one answer
(`AuthorityMove`), those of a process only itself, its requests and the root
(`StepOf`).

`EngineProofs` proves, for any number of callbacks, units, blocks, requests, batches
and cache sizes, from `EngineAssumption` (positive limits, requests within the
device, a read has no FUA):

* `UpdatesNeverLost` (`NoLostUpdate`), `ReadsAreLinear` (`ReadsLinear`) and
  `AckedIsDurable` (`AckedDurable`).

A record keeps what it does not write because what its request read is still
current when it publishes (`Fresh`). This rests on the unit locks: past the lock
stage a write or trim holds its whole span, cancelled or not (`Placed`), no two
callbacks hold the same unit (`LocksApart`), and a publication adds records of its
own units only (`LogStep`). A read is linear because all its views come from one
state of the volume, and past states of the log never change (`OneMoment`,
`PastKept`); a view still being decrypted remembers its record (`SeenOk`), so that
every cached entry is the record it is filed under however late it is filed
(`CacheOk`), and the recency index lists exactly the cached units. A caller is told
of durability only by the chunk that synced. The same invariant was model-checked
on the instance of the run `engine` first.

The cache of `Engine` is changed by recursive functions along a sequence of units.
What the library's induction theorems cannot give here (they take an operator)
follows from the well-foundedness of `<` on a *set* of naturals (`LeastNat`,
`UpTo`): such functions exist (`Iterated`), and what each step keeps the result
has (`IteratedKeeps`). For this `Engine`, `EngineReclaim`, `ReadCache` and
`Scheduler` write them as functions on an interval of naturals and not as folds.

The same module proves of `EngineReclaim`, for any writers and any set of
configurations that `validate_journal_bounds` accepts, whatever their limits, from
`ReclaimAssumption`:

* `BoundsCorrect` (`BoundsHeld`), `NotRefusedEarlyCorrect` (`NotRefusedEarly`) and
  `WorkerGoneCorrect` (`WorkerGone`, the safety part of `CallersReturn`).

The limits are kept because the footprint that the admission counts is exactly what
the appends add, the headers of the segments they roll included: by induction over
the records of a request, from any fill of the active segment, syncs on the way or
not. That the largest request fits after a checkpoint which covers everything needs
the covered segments to be gone (`Swept`), also those that an earlier failure left
behind, and the active segment to hold no more than a roll allows (`JournalOk`); the
room then follows from the two inequalities of `validate_journal_bounds`. A write is
not refused early because without a failure the last checkpoint of a writer in a
later round succeeded and no failed one came since (`FaultFree`), so that a
checkpoint of everything has left room; and a writer waiting for the gate has a
round left (`AdmissionOk`). A checkpoint never runs without its owner waiting for it
(`GateOk`), so the worker that has ended has none in flight. The invariant
(`ReclaimInv`) was model-checked on the instance of the run `reclaim` first.

`SchedulerProofs` proves, for any callers, workloads, slots and bounds, from
`SchedulerAssumption` (each request names a unit once, a batch fits in what may be
pending):

* `CapacityAlwaysKept` (`CapacityKept`), `OwnVerdictAlways` (`OwnVerdict`) and
  `SentOnceAlways` (`SentOnce`).

What ties the parts together is where a caller is. It is in one queue at most, and
nothing in a queue was ever sent (`Queues`); the callers of a task were, and no two
tasks have a caller in common (`Batches`). So a delivery never reaches a group that
is still queued, and a task is never mistaken for another when it goes on. Each
queue is charged for the items of its members, once each (`ChargeIs`), which makes
every step of the lane a question of which callers it moves or drops
(`LaneQueues`, `LaneCharged`). A task takes the slot of its batch and one for each
retry that does not borrow it (`Share`); the slot is held as long as a retry uses
it or may still borrow it (`TaskOk`), which bounds the calls by the slots
(`CallsTake`). Within a batch no unit belongs to two callers (`OneEach`) and none
occurs twice in a request, so every result that is checked by unit is the item's
own (`ResultsOwn`). The same invariant was model-checked on the instance of the
run `scheduler` first.

`VolumeProofs` proves, for any number of units, payloads, records, barrier failures
and faults and any reclamation window, from the assumptions of `CrashFS`, `Units`,
`SlotStore` (one shard with a cell per unit) and `Volume` (there is a unit, and the
marker of a closed volume is not a payload):

* `CheckpointHonestAlways` (`CheckpointHonest`) and `VolumeImplementsDurable`
  (`ImplementsDurableVolume`), which needs the same invariant on both sides of a
  step.

Neither is inductive. The property speaks of units without a record beyond the
checkpoint, and a power loss may take such a record away; the invariant speaks of
the last *durable* record of every unit (`Honest`): when it is not beyond a
checkpoint that a restart may find, the store holds it for certain. For a write that
is one possible cell and no possible discard map that hides it (`Shows`), for a
tombstone that every possible discard map has the unit, or that its only possible
cell is zero and no possible allocation map has it (`Blank`); both include the maps in memory, since the next
barrier stores them. Around it: the checkpoint in memory is the oldest a restart
may find and none leads the durable boundary (`CkOk`); every write beyond one is
reserved (`Reserved`); the overlay has the last and the last durable record of every
unit that the checkpoint does not cover (`HoldsLatest`, `HoldsDurable`), and counts
their bytes. Of a plan in flight the invariant says that its items are the last
records up to its horizon (`ItemsOk`) and that, *unless a reservation failed
since*, every slot written so far is still dirty or certain (`PlanOk`): this is what
`BarriersHold` asks before the plan is published, because a failed sync forgets
what was dirty. During a replay the store is honest about the records replayed so
far as well.

The module goes bottom up: files under writes, syncs, evictions and power losses
(`Certain`: what is certain stays so), the store (`Quiet`: a step that disturbs
neither what it holds nor a plan), the overlay, then each handler as an operator on
the volume, at last one lemma per action. For the refinement, a read returns the
last record of its unit (`ReadsLast`) because the overlay holds it or the checkpoint
is honest about it. `Survivors` and `Evicted` build their rows by recursion; what a
row has at each place follows by induction on a set, as above (`RowsAre`). The same
invariant was model-checked on the instance of the run `volume` first.

`RollbackProofs` proves, for any capacity, page values, names, directories and
bounds, from `RollbackAssumption` (there is a page and an identity, paths are one
level deep and every path has a parent):

* `WitnessedKeptCorrect` (`WitnessedKept`) and `ReadBackCorrect` (`ReadBack`, a part
  of `PromiseKept`).

The witness may show two manifests after a commit that failed, and either must be
readable. `RInv` says of a session that the manifest it committed is certain on the
disk with all its pages and that every page written since is dirty or certain
(`Under`), so that the sync of the arena that begins a commit makes all of them
certain; that no slot holds two pages of the working and the committed files
(`Apart`), so that `write_page` never touches a committed page; and that the cached
set of slots in use is exact, so that the first slot it calls free is free. Between
sessions every manifest that the anchor may show is certain (`Safe`), unless an
older copy was put back; then only the types are left, and a session opens again
when `open_backing` found and rewrote what the anchor names. The phases of an open
are *calm*: they change nothing that is shown or certain, and whatever a failed one
leaves is as safe as before. The same invariant was model-checked on the instance of
the run `rollback` first.

Only model-checked: all liveness (the prover has no fairness or ENABLED), and of
the engine `NeverStuck`, which is about ENABLED and sums over the callbacks; of
RollbackBacking what callers are owed and that no consistency check fires
(`PromiseKept` beyond `ReadBack`); everything about Journal,
whose scan is a recursion over the cells of a segment and over the segments: each
fact about it is an induction over data.

## 6. Not modelled, and the plan

Left out, with the reason:

* the crypto transports (HTTP, WebSocket, socket framing): network I/O and wire
  formats; the models use a provider as calls that return, fail, are rejected or
  never end;
* the file backend: system calls, represented by the crash contract of `CrashFS`;
* the on-disk codecs and the configuration parser: byte layouts and validation; a
  record is valid or Torn. The configuration's arithmetic is a table of range
  checks without state;
* the offline checker: a read-only pass over a closed volume;
* secrets and zeroization, command line and benchmark programs, third-party code.

Partly modelled:

* slot store: one existing shard. Creation and adoption of further shards, the
  catalog, truncated data files, `reclaim_stalled` and `check_freshness` are left;
* volume creation: its result is the initial state, the order of its writes is not
  modelled;
* witness service: TLS, roles and framing;
* control protocol: framing, durations of timeouts, `status` and `metrics`.

Order of the work that is left:

1. Proofs: what a session of `RollbackBacking` owes, and that an attach of `Journal` finds every acknowledged record.
2. Shard creation and adoption with the catalog in `SlotStore`; volume creation
   step by step.
3. Geometry and configuration arithmetic as operators against a reference.
