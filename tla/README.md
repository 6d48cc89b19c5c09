# Helios runtime: verification project

TLA+ modules, TLC configurations and TLAPS proofs for the runtime of HeliosLab
(`apps/runtime/src`), the part of the repository that coordinates lanes, their
processes and worktrees, the renderer, recovery and audit. Paths below are
relative to `apps/runtime/src` unless they start at the repository's root.

1. [The system](#1-the-system) - inventory of parts, state, operations, hazards
2. [What is modelled](#2-what-is-modelled) - modules, and how they map to the code
3. [Runs](#3-runs) - what each run checks, its bounds, what it shows
4. [Fairness](#4-fairness)
5. [Proofs](#5-proofs)
6. [Where code and documents disagree](#6-where-code-and-documents-disagree)
7. [Assumptions, and what is not modelled](#7-assumptions-and-what-is-not-modelled)
8. [Plan](#8-plan)

## 1. The system

The repository is a monorepo (1683 files): a desktop shell, user interfaces,
support libraries in TypeScript, Rust, Go and Zig, and specifications under
`docs/specs`. Its own coordination logic is the runtime, a single JavaScript
process. Nothing runs in parallel there, but nearly every operation awaits git,
a child process, the file system, a timer or the bus in its middle, and any
other operation, callback or timer may run at that await. External processes
(git, par, PTYs, renderers) end and files change at any time. Those two facts
are where the hard behaviours come from.

| Part | State it keeps | Operations | What makes it correct |
|---|---|---|---|
| Lane lock (`lanes/state_machine.ts`) | a map from lane to the promise of the last caller | `withLaneLock` | one callback per lane at a time, in the order of the calls; no call is forgotten |
| Lane lifecycle (`lanes/index.ts`, `registry.ts`, `sharing.ts`, `worktree.ts`) | lane records with state, worktree path, agents; worktree directories; PTYs | create, provision, attach, detach, share, execute, cleanup, `reconcileOrphans` | states follow the transition table; record and disk agree; a reconciliation spares what is in use; a cleanup ends |
| Par tasks (`lanes/par.ts`) | bindings, process handles, the pid in the lane record | `bindParTask`, `terminateParTask`, the health check, exit callbacks | the three records agree; no running process is forgotten; a terminated one dies |
| Remediation (`lanes/watchdog/remediation.ts`) | suggestions, the cooldown map, its file | `generateSuggestions`, `confirmCleanup`, `declineCleanup`, load and save | what a user declined is not suggested again within its cooldown, also after a restart that finds its file |
| Audit sink (`audit/sink.ts`, `ring-buffer.ts`, `sqlite-store.ts`) | ring, buffer, overflow queue, persistence chain, storage | write, periodic flush, `flush` | no event is dropped or stored twice; flush stores; all is delivered |
| Orphan watchdog (`lanes/watchdog/orphan_watchdog.ts`, `checkpoint.ts`) | timer, running cycle, checkpoint file | start, stop, a detection cycle | one chain of cycles; a checkpoint survives a crash |
| Renderer backends (`renderer/ghostty/`, `renderer/rio/`) | the adapter's state, its process object, bound streams, rio's fallback | init, start, stop, bind and unbind streams; crashes | no process runs that nobody holds |
| Renderer switch (`renderer/switch.ts`; `switch_transaction.ts`, `hot_swap.ts`, `rollback.ts`, `stream_binding.ts`) | the state machine, the active renderer; the transaction's phase, the stream buffer, waiting terminal creations | `switchRenderer`; `startSwitch`, hot swap, rollback, `queueTerminalCreation` | one switch at a time, and it ends; one renderer is at work after any failure; output written meanwhile is shown |
| PTY manager (`pty/`) | the registry's records, state machines, idle timers, shells | spawn, write, idle check, terminate, `reconcileOrphans` | a record goes only with its shell; nothing but a termination signals a recorded shell; shells that were told to end do |
| Protocol bus (`protocol/bus_in_memory.ts`) | sequence numbers, subscribers, lifecycle state | publish, request, subscribe | lifecycle topics in order, one answer per request |
| Recovery (`recovery/`, `durability_wiring.ts`) | checkpoint file, backup and temp file, the scheduler's counter and timer, recovery stage | write by timer, activity, signal, request and shutdown; read; clean up; restore, safe mode | the checkpoint last written is readable after a crash or failure at any point; changes get into one while the process lives |
| Sessions and terminals (`sessions/`, `registry/`) | session records, active session per lane, binding indexes | ensure, terminate, register, rebind | one active session per lane; indexes agree |
| Approvals, share sessions (`policy/approval-queue.ts`, `integrations/sharing/`) | pending requests with timers, share sessions with workers | submit, answer, expire; create, terminate | one answer per request; no worker outlives its session |
| Rest | providers, Zellij, configuration, secrets, workspace, diagnostics, queries | | mostly data: parsing, validation, storage of single records |

How they interact. The lane manager calls the lock around each of its operations
but `reconcileOrphans`; it calls the registry, the worktree functions and,
through a callback, the PTY manager. `executeInLane` of the par manager runs
under the same lock and moves the lane's state; its health check and exit
callbacks take no lock and write the lane record's pid. The watchdog hands
orphans to the remediation engine. All of them publish events on the bus, whose
subscriber writes to the audit sink. A reconciliation may be asked for at any
time, beside everything else.

Two pieces of code switch renderers, over the same adapters: `switchRenderer`
stops the old renderer and raises the new one under a timeout, the switch
transaction raises the new one beside the old. Rio's exit callback switches too,
by itself, whatever else is going on. The scheduler, its signal handlers and the
durability layer each start checkpoint writes through one writer; the cleanup
of orphaned files and a reader, which clients may call at any time, use the same
three files. The PTY manager's
reconciliation reads the process table and compares it with the registry later.

The behaviours that are hard to test, one entry per line of code where they
bite, are the `hazards` of `PROJECT.json`; those of parts that are not modelled
yet say so.

## 2. What is modelled

| Module | Stands for | Specification |
|---|---|---|
| `FifoMutex` | what the lane lock promises: a FIFO queue per lane, the head may be inside | abstract |
| `LaneLock` | `withLaneLock`: the map `laneLocks` and the promise chain | implements `FifoMutex` |
| `LaneTable` | states, events and `TRANSITION_TABLE` | data |
| `LaneLifecycle` | what the lane subsystem promises of a lane's state | abstract |
| `Lanes` | `LaneManager`, `LaneRegistry`, worktrees, sharing, `executeInLane`, reconciliation | implements `LaneLifecycle` |
| `ParTasks` | `ParManager` without `executeInLane` | |
| `Remediation` | `RemediationEngine` with its file and restarts | |
| `DurableLog` | what the audit sink promises: an accepted event waits until it is stored, once | abstract |
| `AuditSink` | `DefaultAuditSink`, its ring and its storage | implements `DurableLog` |
| `Renderers` | the two adapters: their state, init, start, stop, exits, rio's fallback | operators |
| `RendererSwitch` | `switchRenderer` over `Renderers` | |
| `SwitchTransaction` | the switch transaction, hot swap, rollback, buffer and creation queue over `Renderers` | |
| `DurableRegister` | what the checkpoint directory promises: a register that saves change at once and never backwards | abstract |
| `Checkpoints` | writer, reader, scheduler, shutdown, signals, cleanup of checkpoint files | implements `DurableRegister` |
| `PtyManager` | `PtyManager`, its registry, lifecycles, idle check, terminations, reconciliation | |
| `MC*` | instances of these for TLC | |
| `*Proofs` | theorems and their proofs | |

Conventions. An operation that awaits is split at its awaits: a record (or
`job[l]`, `call[c]`, `task`, `flush[f]`) says at which await it stands, and each
stretch of code up to the next await is one action. Values read before an await
and used after it are kept in that record (a snapshot, an image, a batch);
values read again after it are read again by the action. History variables
(`order`, `lost`, `promised`, `overlapped`, `exposed`, `gaveUp`, `due`,
`timedOut`, `written`, `floor`, `mess`) are never read by a guard. Definitions whose
comment starts with "Fault:" are not part of a specification: each is a plausible bug in the definition that follows it, and
shows that the property it is listed with under `mutants` can fail.

**LaneLock.** A promise is named by the call that created it; a settled one is
`Resolved`. `Call` is the synchronous part of `withLaneLock` (read the entry,
replace it), `Run` the continuation of its `await prev`, `Settle` the `finally`
block, run whether the callback returned or threw. `order` is history: it lists
the pending calls of a lane and is what `FifoMutex`'s queue is mapped to.

**Lanes.** Because of the lock, at most one operation is in progress per lane:
`job[l]` is the await at which it stands. Operations whose locked body has no
await (attach, detach, share) are one action. `reconcileOrphans` takes no lock:
`rec` holds the lane records and directories it read at its start, and each
directory removed is a step at which anything else may run. `dirs` is the disk
and `ptys` the live terminals; the environment deletes a directory (`LoseDir`,
remembered in `lost`) and starts PTYs. git may fail, leaving a directory or not;
removals may fail; waits for PTYs may time out, and the PTY survives.
`Transition` is the state machine's `transition` with its throw (no row: the
step is not enabled, and the code paths on which it does throw are modelled as
such in `ExecEnds` and `CloseLane`).

**ParTasks.** A binding, its process and its pid are one element of `Procs`.
`bindings`, `handle` and `parPid` are keyed by lane as in the code, which is the
point: code that resumes after an await or in a callback finds there whatever is
current then. `Terminates` is `terminateParTask` up to its first await,
`WaitEnds`, `WaitTimesOut` and `TerminateEnds` the rest; the health check can
start a termination of its own. The code never refuses to bind a lane that is
bound; what its client does is a constant (`BindsOnce`, `BindsWhenUnbound`).

**Remediation.** `call[c]` is one call of the engine, or the constructor's load
of the file, at an await: making the directory, writing, saved, between two
suggestions, in a cleanup. A save copies the map after its first await and
replaces the file by a rename; each part may fail. `Restart` clears memory and
all calls in flight and keeps the file. What the new process finds is a choice:
`Load` reads the file, `LoadFails` does not (it is gone, unreadable, damaged, or
holds an invalid entry), and then the map stays empty and the next save replaces
the file. `promised` remembers what `declineCleanup` has acknowledged; a failed
load empties it, since the code means to "start fresh" there.

**AuditSink.** Event number n is the n-th written; the ring is the last
`Capacity` of them, so eviction is arithmetic. `buffer` and `overflow` are the
two queues, `chain` the tasks appended to `persistenceChain`, `task` the one that
runs. `flush[f]` is a call of `flush()` with its own loop of retries. The storage
commits a batch or rejects it whole (`sqlite-store.ts` writes in one
transaction), and its answer comes in a later step, so that evictions fall
between the two.

**Renderers.** An adapter is a record of its state, its process (none, an object
that runs nothing, live, dying of SIGTERM), a stray (a process that runs and that
no object holds any longer) and whether streams are bound. Code that raises a
renderer is a *run*: a record with the adapters as that code leaves them and, in
`at`, the await it has reached or how it ended. `Stop`, `InitRenderer` and `Start`
take a run as far as the operation's first await, `StopDone`, `InitDone` and
`StartDone` past it. A stretch of code that calls several of them without an await
in between is a composition of them, one action.

**RendererSwitch.** `machine` is the renderer state machine, `active` the
registry's active id. A call has a thread `inner` (stop the old renderer, raise the
new one) and a thread `back` (the rollback); `withTimeout` lets `back` begin while
`inner` goes on, so both may stand at an await of the same adapter. The caller's
streams are none, free, or locked: `unbindStream` cancels the reader of a stream
without releasing it. `falling` and `late` are rio's fallback, in time and after
its timeout.

**SwitchTransaction.** `tx` is the transaction with its await and outcome,
`buffering` and `output` the stream buffer as far as its fate matters: nothing
held, held, shown by a renderer, or lost. Binding, flushing and the buffer's
restarts happen where hot swap and rollback do them. The swap fails only where its
target has no running process, so the rollback's stop of the target has nothing to
await, and a rollback is part of the step that failed. `queue` holds the terminal
creations that wait for the transaction.

**Checkpoints.** A snapshot is a version of the sessions' contents. Each change
makes the next version. So does each death: the sessions are maps in memory
(`sessions/registry.ts:158`), nothing reads the checkpoint back when the layer
starts, and the next process has sessions of its own. Versions are numbered in the
order of time; a later one need not hold what an earlier one held. `writes[w]` is
a write by its caller (trigger, signal, request, shutdown) at the file operation
it awaits; its open file follows renames, as file descriptors do. Each operation may fail, and the process may die between any two. The counter
of activity, the timer, `stopping` (a signal's write) and `closing` (the layer's
shutdown) are the layer's state. `sweep` is the cleanup's list, `reading` the file a
reader awaits. Writes may overlap in the code; `mess` remembers that they did, or
met a cleanup, until a write has completed that met nothing.

**PtyManager.** A PTY stands for its id, shell and pid. `record` is the registry,
`lifecycle` the map of state machines. `call[c]` is a termination, in its grace
period or waiting for the kill; any number may work on one PTY. `rec` is the
reconciliation: the pids it listed from `ps`, then those no record claimed, then
the one it waits for. A restart empties the maps and leaves the shells.

## 3. Runs

| Run | Instance | Shows |
|---|---|---|
| `lane_lock` | `MCLaneLock`: 4 calls, 2 lanes | the promise chain implements `FifoMutex`; every call runs |
| `lanes` | `MCLanes`: lanes a, b, an old lane with a leftover directory, 1 agent, capacity 1 | records, disk, PTYs and states stay consistent; `LaneLifecycle` is implemented; every cleanup closes its lane, every operation gives the lock back |
| `par_tasks` | `MCParTasks`: a lane bound once, one bound at will, 2 processes, 2 terminations | bindings, handles and pids agree; the lane bound once loses no process; terminated processes die |
| `par_rebind` | `MCParTasksRebind`: 1 lane bound whenever it has no binding | violated: a running process is forgotten (section 6) |
| `remediation` | `MCRemediation`: 2 orphans, 2 calls, 1 restart | acknowledged declines are in the file and honoured, but for overlapping saves and for what a file that cannot be loaded had held |
| `remediation_restart` | the same | violated: overlapping saves and a restart (section 6) |
| `audit_sink` | `MCAuditSink`: ring and buffer of 2, 4 events, 2 retries, 4 rejections, 1 flush | `DurableLog` is implemented (nothing dropped, nothing stored twice); flush stores; all delivered unless an overflow task gave up |
| `audit_delivery` | the same | violated: an overflow queue that nobody tries again (section 6) |
| `renderer_switch` | `MCRendererSwitch`: 2 calls, 1 crash | one switch at a time, it ends, and what it returns with is shown, with timeouts, rollbacks and the fallback |
| `switch_transaction` | `MCSwitchTransaction`: switches without end, 2 creations, 2 exits | a transaction ends with one renderer at work; ghostty shows what was buffered; creations are settled |
| `checkpoints` | `MCCheckpoints`: 1 change, 1 call, 1 fault, 2 writes at a time | the last checkpoint stays readable, `DurableRegister` is implemented, a reader finds the checkpoint, changes get into one unless the process dies first |
| `pty_manager` | `MCPtyManager`: 3 PTYs, 2 terminations, capacity 1, 1 restart | recorded shells are signalled by terminations only; terminated and orphaned ones die |

Why the bounds are enough for the interesting cases:

- *lane_lock*: three calls on one lane are needed for the entry of a call to be
  neither the finishing one's nor the first's; the fourth works on the other lane
  or asks again after the entry was deleted. Calls are reused, so bursts repeat
  without bound.
- *lanes*: all interference is between one lane's operation and the
  reconciliation, which sees lanes with a record, without, and of an earlier
  process: one of each. Capacity 1 is reached by the first lane; the second can
  only come after it closed, while its PTYs and directory may still exist. The
  proofs hold for any number of lanes that are live together.
- *par_tasks*: two processes make an old and a new binding of one lane; two calls
  overlap in the waits of a termination and the health check.
- *remediation*: the clock reaches the end of a cooldown (`MaxTime` = `Cooldown`
  = 1); two suggestions per orphan allow a suggestion, its decline and another
  detection round; two calls and the constructor allow three saves in flight. The
  first start and the restart may each load the file or fail to.
  Resources and calls are symmetric, and no liveness is checked with symmetry.
- *audit_sink*: two of the four events are evicted, one while the batch that
  holds it is being stored; four rejections exhaust the retries of two tasks.
  `MaxTasks` bounds only what the timer queues up; the tasks of writes and flush
  are always queued.
- *renderer_switch*: a second call can begin while the first one's abandoned
  switch still works (`inner` of one, `inner` and `back` of the other), which is
  all the interference there is between calls: a third can hold no state the
  second cannot. One crash falls into any phase; two properties are about runs
  without one.
- *switch_transaction*: transactions follow on one another without bound, so that
  the second starts in whatever the first left; two exits are one of each
  renderer, or one renderer's before and during a rollback.
- *checkpoints*: two overlapping writes are the case the code does not exclude; a
  file operation that fails, or a death, at each await; one cleanup or read beside
  them. One change makes an old and a new checkpoint, a death a third version,
  before or after the change. `Threshold` = 1 makes each
  recorded activity a trigger. The safety properties are
  proved for all values.
- *pty_manager*: one PTY in the registry, one refused for want of room, one of an
  earlier runtime; two terminations of one PTY.

`CHECK_DEADLOCK FALSE` is set where the instance's bounds (processes, PTYs, ids,
time, events, crashes) are used up in the end, or the system may stop: a renderer
that is errored, a durability layer that is shut down. That is no deadlock of the
program. The lock and
the lanes are checked for deadlock.

Why the main properties are what they are:

- `ImplementsFifoMutex` says in one formula that the map of promises, with
  entries deleted and made again between bursts, excludes callbacks on one lane,
  keeps their order, and lets other lanes alone.
- `FollowsLifecycle` is about writes after awaits: provision, execute and cleanup
  write a lane's state after git, a process or PTYs have been awaited, and a
  reconciliation closes lanes without the lock. The state must still move along
  the table or from a provisioned state to closed.
- `WorktreeExists` and `PtysOfLiveLanesKept` are what a reconciliation could break
  with its snapshot: delete a directory in use, or end a PTY in use. That its list
  of directories never names a live lane (`ReconcileSparesLiveLanes`) is proved.
- `LiveTasksTracked` says that someone still holds the handle of a running
  process: its binding, or a termination that waits for it. Nothing in the code
  says why it is true when a lane is bound only once, and it is false otherwise.
- `DeclinePersisted` relates an acknowledgement to the file, `DeclineHonoured`
  the suggestions to the acknowledgements, across saves, failures and a restart.
  Both count from the last load that could succeed: what a failed load forgets is
  lost in the code (section 6), and what comes after it is not. `DeclineHonoured`
  needs the constructor to be waited for in either case.
- `ImplementsDurableLog` says both sides of moving an event between queues while it
  is being stored: forget it, or store it again. The events that wait are those in
  either queue that the storage does not hold. `NothingDropped` and `StoredOnce`
  follow from it; they are not checked separately but proved.
- `FlushPersists` needs its exception. Without it TLC finds a flush that sees an
  empty overflow queue, stores the buffer, and returns while an event written
  before the call, and evicted meanwhile, is in the overflow queue;
  `WP01-audit-event-schema-and-sink.md:115` (under
  `docs/specs/024-audit-logging-and-session-replay/tasks`) asks that "Flush
  persists all buffered events". The event's own task is queued by then,
  so it is late rather than lost.
- `OneSwitchAtATime`: nothing but the state machine's table keeps two switches
  apart, and a switch that timed out is still at work when the next one may begin.
- `ActiveAloneRuns` has its exceptions, timeouts and crashes, because TLC finds
  what section 6 describes. `ReturnsWithOneShown` is what remains after a timeout:
  at the moment the machine is running again, the active renderer is.
- `EndsWithOneShown` says that two renderers side by side, and a failure of any
  step, come out as one; `OutputKept` that the buffer is off between transactions,
  whatever failed, and that a switch to ghostty shows what it held.
- `CheckpointNotLost` is what the backup is for; between the two renames the only
  copy is the backup, and the code that puts it there is not the code that reads
  it. `ImplementsRegister` adds that nothing but the end of a write changes what
  can be read, and that no write brings an older checkpoint back, older by the order
  of versions: after a death the next process's checkpoints replace the dead one's,
  with what that process has, and never the other way round. Its value is what
  `Readable` finds; its exception is that of `CheckpointNotLost`. `ReadFindsLatest` has a reader look at one name after another while a write
  renames both. `ChangesSaved` is about failed writes, activity counters and a
  trigger that is shared with the one under way. What has to get into a checkpoint,
  again and again, is the sessions as they are: with finitely many changes that is
  each change, but for those that a process takes with it when it dies before a
  checkpoint, and those after a shutdown or signal has stopped the timer.
- `KilledWithItsRecord` relates every signal to the registry at that moment: a
  reconciliation acts on a process table read before a spawn, terminations of one
  PTY overlap, and the first to end removes the record under the second.
- `ShellsEnd` is about the two terminations and about the orphan whose record is
  gone: both must go on to SIGKILL.

## 4. Fairness

Only steps that the runtime takes by itself are fair, never requests, failures,
crashes or deletions.

- *LaneLock*: `Run` and `Settle` of each call. The microtask queue resumes an
  await whose promise is settled. That every callback settles holds for the
  callbacks of `lanes/` as far as the programs they await end.
- *Lanes*: `Continue` of each lane and the reconciliation's steps. git and par
  end, waits for PTYs have timeouts, events of the bus are delivered. git is run
  without a timeout (`lanes/worktree.ts:92`): that it ends is an assumption.
- *ParTasks*: a termination continues (its wait has a timeout), and a process that
  was sent SIGKILL ends. A process that was sent SIGTERM need not.
- *AuditSink*: the interval fires, sleeps end, storage answers. It rejects at most
  `MaxFailures` batches: delivery to a storage that never recovers is impossible.
- *RendererSwitch*, *SwitchTransaction*: what a switch or a rollback awaits comes.
  A stop escalates to SIGKILL after its timeout, an init's capability check and the
  look-up of a binary are processes that exit by themselves. Timeouts, crashes and
  the fallback are not fair.
- *Checkpoints*: some file operation that is under way ends (which one is open),
  the timer fires while it is set, a shutdown goes on to its write, and the five
  seconds of a signal pass.
- *PtyManager*: timers of a termination fire, the reconciliation goes on (`ps` ends,
  its grace period too), and the kernel ends a process that was sent SIGKILL. A
  shell need not obey SIGTERM.
- *Remediation* has safety properties only.

## 5. Proofs

Eight modules hold theorems, for every value of the constants that the named
assumptions allow. Each argument has the same form: an inductive invariant
`IInv`, checked by TLC first, a lemma per action or one with a step per action, and
a theorem that combines them.

- `LaneLockProofs` - `IInv` = `TypeOK` and `ChainInv`. Mutual exclusion alone is
  not inductive: one has to know that the pending calls of a lane form a list,
  each awaiting the promise of the one before, the first a settled promise, and
  that the map's entry is the last one's. From it `Mutex`, and `ImplementsFifo`:
  every step maps to a step of `FifoMutex` or a stutter. `NoneIsStuck`: the oldest
  pending call of a lane can start or is running.
- `LanesProofs` - `IInv` = `TypeOK`, `RecordInv`, `DiskInv`, `SnapshotHolds`.
  `RecordInv` ties a lane's state and path to where its operation stands, with
  "or closed" wherever a reconciliation may have come between; `SnapshotHolds`
  says what remains true of the reconciliation's stale lists: lanes with a
  snapshot record were provisioned, listed directories belong to no live lane.
  From it `Typed`, `AtRest`, `Recorded`, `OnDisk`, `LiveLanesSpared`, `PtysKept`,
  `NoResumeRefused` (an operation that resumes finds its row in the table),
  `ImplementsLifecycle` and `ClosedForGood`. `Capped` adds that active lanes grow
  by one at a time.
- `ParTasksProofs` - `IInv` = `TypeOK`, `RecordsAgree`, `BornAtHome`, `CallHolds`,
  `BoundOnce`: processes are bound at the lane they were made for, a termination
  holds the process it waits for, and a lane bound once has had one process. From
  it `Typed`, `RecordsAlwaysAgree` and `NoTaskLost`.
- `RemediationProofs` - `IInv` = `TypeOK`, `BootInv`, `OneSave`, `Bounded`,
  `MapHolds`, `ImageHolds`, `FileHolds`. As long as saves did not overlap there
  is one save in flight; what was promised is in the map once it is loaded, in
  every image about to be written, and in the file. A load that fails keeps it by
  emptying `promised` with the map (`LoadFailsKeeps`). From it `Typed`, `Persisted`
  and `Honoured`.
- `AuditSinkProofs` - `IInv` = `TypeOK`, `InRing`, `Waiting`, `TaskInv`,
  `StoredOnce`, `NothingDropped`, `FlushInv`, `AwaitInv`: buffer and overflow queue
  are on either side of the ring's edge, what waits is not stored, a task's batch is
  waiting until the commit and stored after it, and a flush between its two awaits
  knows what the first one stored. From it `Typed`, `NoneDropped`, `NoneTwice` and
  `FlushDelivers`, and `ImplementsLog`: a write is an `Accept`, a commit of the
  storage the `Store` of its batch, and every other step leaves the log alone.
  `SplicedIsUnstored` is the lemma about removing by count: what was stored is the
  oldest of the queue. `NoTaskLost` adds `TasksPending`: evicted events have a task
  until one gives up, and an awaiting flush has its own.
- `RendererProofs` - for any number of calls, of terminal creations and of exits.
  The bulk are lemmas about runs: every operation of `Renderers`, and each
  composition of them, takes a run to a run, says what the two adapters look like
  ("dark", "lit", "going" down, "at rest") at the await or the end it reaches, and
  leaves the rest alone. Three invariants of the switch are built on them:
  - `IInv` = `TypeOK`, `RecsOK`, `OneSwitch`: which threads a call has in each of
    its phases, and that the machine is switching exactly while one call is at
    work. From it `Typed`, `OneAtATime` and `NoSwitchAbandoned`.
  - `Quiet`: as long as no process exited and no switch timed out, the adapters look
    as the await of the one call at work says (`Phase`), no fallback is under
    way, and between calls only the active renderer is up. From it `ActiveAlone`.
  - `Loud`, for what remains after timeouts: which threads may still be there, what
    they await of ghostty (whose init and start nobody else may run meanwhile), and
    that a thread about to come back finds the renderer it raised running. From it
    `ReturnsShown`, for histories without an exit, as the property says.

  For the transaction, `SwapInv` = `TransactionTypeOK`, `Keeps`, `Follows`: the
  buffer is off between transactions, what it took is held as long as one is under
  way, and, while no process exited, target and source look as its await says
  (`Beside`). From it `TransactionTyped`, `OutputIsKept`, which needs no
  exception for exits, `NoneLeftQueued` and `TransactionShows`.
- `CheckpointsProofs` - `IInv` = `TypeOK`, `OneWriter`, `TmpOwned`, `UnderOneName`,
  `InOrder`, `SweepSafe`, `FloorKept`: while nothing is disturbed one write is under
  way, the temp file is what it made of it, the last checkpoint is under one of two
  names, snapshots do not go back in time, a cleanup lists no only copy. From it
  `Typed`, `NothingLost` and `ReadsLatest`, which needs `InOrder`: a checkpoint that
  comes while the reader looks is a newer one. With `NoneYet` (before the first
  undisturbed write there is nothing to read), and with versions that grow by changes and deaths alike, also `IsRegister`: in calm what can be
  read is what was saved last, so that only how `written` changes has to be followed.
- `PtyManagerProofs` - `IInv` = `TypeOK`, `RegisteredSpawned`, `KillSent`,
  `OrphanUntracked`: a termination waits for the kill only of a shell it killed, and
  what the reconciliation waits for is in no record and never will be. From it
  `Typed` and `KillsOnlyWithRecord`.

Only model-checked: all liveness (`EveryCallRuns`, `CleanupCloses`, `LockReleased`,
`TerminationKills`, `Delivered`, `SwitchEnds`, `CreationsSettle`, `ChangesSaved`,
`ShellsEnd`), which rests on fairness and `ENABLED`, out of the prover's reach;
and the three violations. Every safety invariant and action property that a passing
run checks is a theorem. What six of the liveness properties need besides fairness
is proved: whoever waits waits for something that is under way. `NoneIsStuck` is
that part of `EveryCallRuns`, `NoResumeRefused` of `CleanupCloses` and
`LockReleased`, `NoTaskLost` of `Delivered`, `NoSwitchAbandoned` of `SwitchEnds`,
`NoneLeftQueued` of `CreationsSettle`. These five invariants are
stated in the proof modules, and no run lists them; TLC found each to hold on the
instance of the component's run before it was proved.

## 6. Where code and documents disagree

- **A lane bound again may lose its process** (`par_rebind`). The exit callback
  of `bindParTask` (`lanes/par.ts:116`) and the tail of `terminateParTask`
  (`par.ts:203`) look up by lane whatever binding is current. After the health
  check removed the binding of a dead process and the lane was bound again, the
  old process's callback terminates the new binding and drops its handle.
- **Overlapping saves lose a decline** (`remediation_restart`).
  `saveCooldownMap` copies the map after an await and nothing orders two saves:
  the older image may be renamed last (`lanes/watchdog/remediation.ts:527`).
- **An event in the overflow queue may wait for good** (`audit_delivery`). When
  the queue's task has used up its retries, the periodic flush stores the buffer
  only (`audit/sink.ts:273`), against "guarantees delivery" (`sink.ts:34`).

Observed while reading, and not run as violations:

- `LaneManager.cleanup` never terminates a lane's par task, though
  `ADR-HELIOS-002.md:83` lists `unbindParTask` among its steps.
- No lane ever becomes "recovering", so the branch of `remediation.ts:108` that
  spares such lanes is dead; likewise cleanup's branch for a lane already
  cleaning (`IdleLanesAtRest` shows it).
- `executeInLane` admits a shared lane (`par.ts:223`), for which the table has no
  `start_running`: it throws.
- Suggestions are not removed when their orphan goes away.
- A cooldown file that cannot be read or parsed, or in which one entry is invalid,
  is taken for none (`lanes/watchdog/remediation.ts:504`, `:511`): declined resources
  are suggested again, and the next save overwrites the file, with every decline in
  it, also if it only could not be read for the moment. A comment says that it means
  to ("start fresh").

Renderers:

- A switch that timed out goes on. When its await of rio's stop ends after the
  rollback has restarted rio, it drops the new process object
  (`renderer/rio/backend.ts:195`) and the process runs with nobody to stop it.
  `ActiveAloneRuns` is false without its exception for timeouts.
- Rio's fallback initialises ghostty, never starts it, and makes it the active one;
  it may do so in the middle of a later switch.
- `unbindStream` cancels the reader and keeps the stream locked, so a switch whose
  caller passes the streams that are bound always fails when it binds them again,
  and so does its rollback: the machine is errored, from where no code leads back.
- A hot swap to rio loses what the buffer flushes (`hot_swap.ts:5` promises "zero
  byte loss"): the stream that carried it is replaced before rio's pump reads it, and
  the old pump's `finally` removes the new binding (`rio/backend.ts:226`).
- A rollback starts the buffer anew before it hands it over (`rollback.ts:120`),
  which forgets what was held; it never starts a source that hot swap had stopped,
  and its caller ignores its result.

Checkpoints:

- Overlapping writes share one temp file: they can leave garbage, which the reader
  refuses, under both names. Nothing keeps shutdown, a signal or `checkpointNow`
  apart from the trigger. `CheckpointNotLost` is false without its exception.
- A cleanup that listed the backup as safe ("If `checkpoint.json` exists, the backup
  is safe to terminate", `recovery/orphan-detection.ts:26`) removes it later by name, in the
  meantime perhaps the only copy.
- Activity recorded while a checkpoint is written is reset with the counter when the
  write ends, though the snapshot was taken before it.
- Nothing reads the checkpoint when the layer starts; `readCheckpoint` and `restore`
  wait to be called. The next process's first checkpoint therefore replaces the dead
  one's, which stays as the backup until the one after. Changes that no checkpoint
  held are gone.
- The handlers of SIGTERM and SIGINT stop the scheduler and leave the process running.
  During the layer's shutdown the timer is still set while the last write is under way.
- `startDurability` on a started layer calls `setSnapshotter` without its receiver
  (`durability_wiring.ts:173`): it throws.

PTYs:

- A spawn that finds the registry full has started its shell already and leaves it
  running (`pty/spawn.ts:77` to the failing `register`). A shell that exits by itself
  stays "active" and keeps its place.
- `recordOutput` and `disableFor` after a termination leave entries behind in the
  monitor's maps. No start-up code of the runtime calls the PTY reconciliation.

## 7. Assumptions, and what is not modelled

- One reconciliation at a time. Nothing in `reconcileOrphans` excludes a second;
  only tests call it so far.
- Lane ids are never reused, pids are not reused by the operating system.
- Renderers: callers name the active renderer as the old one. Left out are rio's
  feature toggle, input, resize, metrics, what becomes of a stray, contents and order
  of buffered chunks, the buffer's byte limit, and `restart_restore.ts`, which no path
  reaches (`canHotSwap` is constant).
- The cooldown file is replaced by the engine only; damage from outside is seen when
  it is loaded, not by the saves between.
- Checkpoints: an operation that returned has reached the disk (no loss of power).
  The sessions are in memory only, and a new process takes none over.
  Left out are checks of version and age, `adjustInterval`, the retention of other
  files, restoration, safe mode and the stages of the recovery state machine.
- PTYs: the record of a new shell and the entry of its state machine are made in
  one step. In the code one resumption of an await lies between them. Left
  out are resize, SIGHUP, the idle settings per PTY and output buffers.
- The storage is a transaction: a batch is committed or rejected whole.
- Payloads, wording, metrics, transition histories, events' contents and ids'
  formats carry no property and are left out. So are `LaneManager`'s unused
  `_closeLaneRecord`, `RemediationEngine.stop`, the sink's `destroy` and its
  records of `append`.
- What a cleanup of an orphan does to the resource is one step: the suggestion
  goes whatever its result.
- The parts without a module, with the reason, are in `PROJECT.json` under
  `components`: drivers of external programs, parsing and validation, user
  interfaces, support libraries.

## 8. Plan

In this order, most important first. Each component gets its module, an MC
module with one or two runs, and, where listed, a proof module.

| Module | Of | Questions | Proofs |
|---|---|---|---|
| `OrphanWatchdog` | `lanes/watchdog/orphan_watchdog.ts`, `checkpoint.ts` | one chain of cycles across start and stop; composed with `Remediation` | |
| `Sessions` | `sessions/registry.ts`, `registry/terminal_registry.ts` | one active session per lane, indexes agree | index agreement |
| `Bus` | `protocol/bus_in_memory.ts` | order of lifecycle topics per correlation | |

Not worth a module as the code stands: approvals (an expiry timer and checks for
presence), share sessions (the worker is a mock), providers, Zellij, configuration,
diagnostics. They are single requests or pure functions, and what a model would say
of them is what their lines say.

Composition worth checking: `ParTasks` with `Lanes`, where a cleanup leaves a
binding behind.
