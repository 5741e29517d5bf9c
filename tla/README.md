# localm: models and proofs of its concurrent core

localm serves local language models over HTTP. One server process keeps several
models resident, swaps them in and out of GPU memory on demand, runs native
work on threads and worker processes, and shares its data directory with other
localm processes. The modules here model the parts of it where steps of several
actors meet, or where a process may die between two steps; TLC checks them on
small instances and TLAPS proves what it can of their properties for every size.

Paths are relative to `src/localm/`; `http_server.py` is
`inference/http_server.py`, and `_slots.py` and `_runner.py` are in
`inference/backends/llamacpp/`.

## Inventory

| Component | State it keeps | Operations | What is hard |
|---|---|---|---|
| Inference gate (`inference/inference_gate.py`) | capacity, shared count, exclusive flag, deque of waiters with futures | shared and exclusive entry, release, capacity setter, cancellation | a grant crossing a cancellation; batching of generations against an exclusive waiter; no lost wake-up |
| Engine pool (`http_server.py`, `inference/switch_admission.py`, `inference/residency.py`) | registered engines, LRU list, gate per model, active and last active names, names being evicted, desired switch and its cancel event, flags and pins of engines | `get_engine`, `switch_engine`, `unload_one_model`, idle unload, `unload_all_models`, rename, reload for placement or context | state read before an await and used after it; eviction takes no gate of its victim; a superseded switch that ends late; partial failure |
| Engine (`inference/engine.py`) | backend, load lock | load, unload, lazy reload in `chat_stream` | a reload of something another task freed |
| Slot scheduler (`_slots.py`) | slots, queue, reservations and promises of cells, context size, exclusive callers | submit, cancel, step, extend, grow, admit, abort, exclusive section, close | exclusive sections against a stream of replies; replies that wait for one another's cells; failure with replies in flight |
| GGUF worker protocol (`_runner.py`) | process, three queues, two locks, demux thread, early cancels | load, inline and multiplexed stream, count, cancel, shutdown | the worker dies or hangs with calls pending; envelopes name no call; a cancel overtakes its stream |
| HuggingFace worker protocol (`_hf_*`) | the same, inline only | the same | the same |
| RAG write lock (`rag/collection_lock.py`) | lock file, its record and mtime; watches and held tokens of a process | create, heartbeat, watch, takeover, release by token | crash of a holder, silent holders, two processes taking over |
| RAG store (`rag/store.py`, `rag/_store/`) | collection files | index, resync, repair, remove, delete | publication of a new version, a crash between its files |
| Embedder, reranker, speech (`inference/embedder.py`, ...) | shared workers, two locks, pins | get, embed, reset | lock order with the load lock; reset against use |
| Interrupted downloads (`model_manager/pull.py`, `pending_pulls.py`) | lock directory, partial file, its identity, record per pull | lock, takeover, transfer, resume, list, delete | death between any two file operations; a record or a lock that outlives its process |
| GUI jobs (`plugins/gui/jobs.py`) | jobs, subscribers, persisted history | submit, cancel, end, subscribe | cancel against end; subscribers that come late |
| Scheduled jobs (`plugins/builtin/jobs/`) | jobs with due times, single run slot | tick, run, edit, delete | edit or delete during a run |
| Configuration lock (`config.py`, `storekit.py`) | lock file, replaced files | lock, reclaim after 30 s, write | a live holder taken for a dead one |
| Updater (`updater.py`, `_apply_update.py`, `updater_components.py`, ...) | installed names, venv, stable backup, scratch folder of each run, kept venv, lock directory | apply, roll back | death or a refused call between any two steps of the swap, of the promotion of its backup and of a restore; a kept copy that belongs to another update |
| Memory store, sessions | JSONL files | add, replace, consolidate | revisions of concurrent writers |
| Instances and GPU peers | registry of servers | register, ask a peer to unload | two servers unloading for each other |
| Coder agent, MCP server, plugin engine | child tasks, leases | spawn, wait, cancel | limits, leases on engines |
| Latch and health watchers, compaction, media runtimes, VRAM measurement, routes, browser, CLI, installer, front end | little shared state | requests, readings, formatting | mostly I/O |

How they interact: routes ask the pool for an engine (`get_engine`), pin it, and
generate inside its model's gate; the pool loads and frees engines through the
gate and executor threads, frees the embedder and asks peers when it needs room;
engines talk to workers; the RAG store and the memory store take the write lock
around every change; GUI and scheduled jobs call all of these.

What makes each correct is the list of hazards in `PROJECT.json`; the
properties named there say it in TLA+, and a hazard without one is planned.

## Modules

| Module | What it is |
|---|---|
| `InferenceGate` | the gate of one model: one action per piece of `_acquire`, `release`, `exclusive` and the capacity setter that runs between two awaits |
| `FairAdmission` | what a gate promises: tasks are let in in the order they came, a generation beside others up to a capacity, a load alone |
| `EnginePool` | the pool: requests, switches, unloads of one model or of all, and idle unloads of several tasks |
| `SlotScheduler` | the thread that decodes several replies in one cache, and its callers |
| `SharedExclusive` | what the scheduler promises: replies share the model, an exclusive caller has it alone |
| `WorkerProtocol` | the server's side and the child's side of the three queues to a worker process |
| `CollectionLock` | the write lock of a RAG collection or a memory namespace: lock file, heartbeat, watch, takeover, release |
| `PartLock` | the lock on a partial download: staging directory, rename, takeover under a guard, tombstone |
| `DownloadLock` | what that lock promises: one task works on the partial file; the lock of a dead one is given up |
| `UrlPull` | pulls from a direct address, and listings and deletions of what they leave; composed with `DownloadLock` for the lock |
| `Updater` | updates and rollbacks of the installed names and of the venv: lock, swap, promotion of the backup, dependency step, restore |
| `...Proofs` | the theorems about `InferenceGate`, `EnginePool`, `SlotScheduler`, `WorkerProtocol`, `CollectionLock`, `PartLock`, `UrlPull`, `Updater` |
| `MC...` | instances for TLC |

`FairAdmission`, `SharedExclusive` and `DownloadLock` are abstract
specifications: `InferenceGate`, `SlotScheduler` and `PartLock` implement them
(`ImplementsAdmission`, `SharesTheModel`, `ImplementsLock`). `UrlPull` takes its
lock steps from `DownloadLock`, so the two halves of the download code meet at
that module: what is proved of a pull assumes of the lock no more than what is
proved of `PartLock`.

Definitions called "Mutant of X" are faulty versions of X, in no specification:
each property was seen to fail with the mutant `PROJECT.json` names for it.

### InferenceGate

`capacity`, `shared`, `exclusive` and `waiters` are `_capacity`, `_shared`,
`_exclusive` and `_waiters`. Where a task is (`pc`) stands for its future:
`waiting` (pending), `granted` (result set, not resumed), `cancelled` (future
cancelled, not resumed), `revoked` (granted, then its task cancelled before it
ran), `inside`. `Wake` is `_wake`, `GiveBack` is `_give_back`; the asyncio loop
is a free interleaving of the tasks' steps. Capacities below one are clamped as
the setter does.

### EnginePool

A step is what a task does between two awaits. Native loads and frees run on
executor threads: their end and the task that resumes after it are two steps,
so that another task sees an engine whose `loaded` has flipped and whose load
is not yet committed, and the like. Engines and gates are objects: a detached
engine and the gate popped with it live on in the tasks that hold them.

A reply is made by a producer thread that its task starts inside the gate
(`Produce`); on the thread `chat_stream` looks whether the engine is loaded and
may load it again (`LazyLoadEnds`), which may raise. The task leaves the gate
when the thread has ended (`Replied`), or, when its client disconnects or it
fails or is cancelled during the reply, without waiting for the thread
(`Abandon`); the thread then runs on by itself, with no pin and in no gate, until
it reads its cancel event (`AbandonedEnds`).

| State | Code |
|---|---|
| `engines`, `lru`, `sems`, `active`, `last`, `evicting` | `_engines`, `_engines_lru`, `_inference_sems`, `_active_model_name`, `_last_active_model_name`, `_evicting_names` |
| `loaded`, `unloading`, `Pins(e)` | `engine.loaded`, `engine.unloading`, `engine.active_requests` |
| `desired`, `publisher`, `cancelled` | `_switch_desired`, whose event `_switch_cancel` is, which events are set |
| `line` | the line of each gate (capacity 1): its head is inside |
| `job` | the locals of each task |
| `ran` | the order of the event loop's ready queue: once a gate was granted, each other task runs at most once before the task it was granted to |

What the VRAM probe, the unload policy, the user's limits and the backend answer
is a choice at the step that asks; the sizes of models are not counted.

### SlotScheduler

One step is what the scheduler thread does under `_cond` or between two looks at
it; callers of `submit`, `cancel`, `exclusive` and `close` step in between.

| State | Code |
|---|---|
| `queue`, `slots`, `admissions`, `dirty`, `touched`, `closed` | `_queue`, `_slots`, `_admissions`, `_dirty`, `_touched`, `_closed` |
| a slot's `kv`, `todo`, `pending`, `generated` | tokens cached, tokens of the prompt or reply still to decode, whether a sampled token waits, tokens generated |
| a slot's `reserve`, `promise`, `seen`, `order` | its reserved cells, the cells promised at admission, `room_seen` of a paused reply, its admission number |
| `cap` | the context's size, 0 while there is none |
| `foreign` | ghost: the cache holds tokens no slot records (an exclusive section ran) |
| `ended` | the `_End` items each reply's queue received |
| `pc`, `toExtend` | where the thread is in `_run`/`_step`, and what `_extend_pending` has left |
| `xpc` | where each caller of `exclusive` is |

Which prefix a prompt shares with a cache, which idle cache is the oldest and
what decode, sampling and the VRAM check return are choices.

### WorkerProtocol

| State | Code |
|---|---|
| `handle`, `closing`, `load`, `mux` | `_proc`, a `shutdown` under way, `spawn_and_load`, `_mux` |
| `req`, `resp`, `ctrl` | the three queues: independent of one another, so a cancel may overtake its stream |
| `lock` | `_q_lock`, or with `mux` `_simple_lock` |
| `inbox`, `simple` | the streams' queues and `_simple_q`, which the demux thread fills |
| `pc`, `got`, `cancelled` | where each caller is, what it read, whether it sent its cancel |
| `child`, `running`, `made`, `stopEvent`, `muxEvents`, `early` | the process, its streams, `stream_cancel_event`, the events of multiplexed streams, `early_cancels` |
| `mixed` | ghost: the callers that read an envelope of another call |

A crash cuts what the child's feeder thread had not written. A hung child is one
that takes no step: nothing makes it.

### CollectionLock

A writer is a thread in one call of `collection_write_lock`, and stands for the
token of that call. A step is one access to the file system, so that another
process may act between a judgement, its recheck and the unlink, or between the
read and the unlink of a release.

| State | Code |
|---|---|
| `file` | the lock file: who created it, and the token its record has (`NONE`: none yet) |
| `pc` | where the writer is in `_hold_lock_file`, `_reclaim`, `_remove_own_lock` |
| `heart` | its `_Heartbeat` thread: off, asleep, or between its read and `os.utime` |
| `watch` | `_watches` of each process: how long it has read the file as it is |
| `judged` | the local `quiet` of a writer on its way through `_reclaim` |
| `age` | how long the file has not been touched |
| `calm` | ghost: nobody died and no unlink was refused so far |

Mtimes are compared only for equality and with a wall clock that may be wrong by
any amount. So a change of the file resets what was read of it before (`watch`
and `judged` become `NONE`), and what the wall clock says about its age is a
choice. `_read_record` takes its stat and its read apart; they are one step,
because every write of the record also moves the mtime and a torn read
therefore differs from what was judged. The intervals `Confirm`, `Grace` and
`StaleAfter` are in ticks. Three constants say what may go wrong: `Timely` (no
holder is silent for `Confirm`), `ProbesFail` (a liveness probe may have no
answer) and `CallsFail` (unlinks and touches may be refused); `Mortal` says who
may crash. A token is not used again while its old file is there.

### PartLock

A pull takes the lock once and stands for its token; `Crash(p)` kills a process
between any two steps, and its pulls with it.

| State | Code |
|---|---|
| `lock` | the lock directory: absent, empty, or with the record of a pull |
| `staging`, `tombs` | the directories prepared and renamed away, swept by later pulls |
| `guard` | who holds the reclaim guard, which the system releases at a death |
| `pc`, `todo` | where a pull is in `_acquire_part_lock`, `_sweep...`, release |
| `alone` | ghost: the pull no other one ran beside and no process died beside |

Windows' behaviour (a rename onto an existing directory fails) and POSIX'
(it succeeds on an empty one) differ; the model has the POSIX one, of which the
other is a part.

### UrlPull

Every pull and every listing or deletion is a process of its own that may die
between any two file operations. A file is the set of addresses its bytes came
from and their number, so a mixture of two downloads can be told from a whole
one.

| State | Code |
|---|---|
| `part`, `ident`, `dest` | `<name>.part`, `<name>.part.json`, the finished file |
| `rec` | the record of each pull in `pending_pulls`: none, running, ended |
| `resume`, `ok` | whether a pull appends to the partial file; whether it succeeded |
| `target` | the record a deletion is about |
| `spoilt` | ghost: a write or a deletion of a file failed |

A pull that dies between the two halves of `_save_current` (old records removed,
its own not yet written) ends at `cut`.

### Updater

Every task is a process that runs one `apply` or one `rollback_last`. A step is
one operation on the file system, or on one top-level name of the install, and
each may be refused; `Crash` ends the process between two of them or in the
middle of one, which tears what it was changing.

| State | Code |
|---|---|
| `tree` | the installed top-level names: the build each is of, `TORN`, or absent |
| `venv` | the dependencies in `.venv`, as the build they were installed for |
| `stable` | `<home>/updates/backup`, the only backup a rollback reads |
| `aside` | `backup-replaced-*`, where a promotion moves the earlier backup |
| `run` | the backup in the scratch folder `updates/runs/<id>` of each update |
| `snap` | the kept venv (`snapshot_dir`) and the version of the backup it is for |
| `lock` | the process whose pid `apply.lock` names |
| `job` | where a task is; the names left, those that failed, the venv kept meanwhile |
| `found` | what the task found as it entered; a backup carries what its maker found, which only properties read |
| `overlap` | ghost: two tasks were inside the lock at once |

An update ends `ok`, `failed` (an error that says the previous version is back),
`broken` (one that asks for a manual recovery) or `refused` (by the lock). What a
build contains is the set of names it ships (`Holds`), `VERSION` among them, and
its dependencies (`Deps`); a file is the build it is of. Whether the download, a
check or a signature stops the update before the swap is one choice
(`Unprepared`).

## Runs

| Run | Configuration; distinct states | Shows |
|---|---|---|
| `gate` | `MCInferenceGate`; 60 225 | Four tasks, capacities 1 to 3, every cancellation: the counters and the queue are right, the gate implements FairAdmission, and every waiter gets in or is cancelled. |
| `pool_two_models` | `MCEnginePool`; 1 199 498 | Three overlapping requests, switches and unloads of two models that evict one another (no load ends up on the CPU): the active pointer, the published switch and the names being evicted stay consistent. |
| `pool_one_model` | `MCEnginePoolOneModel`; 314 235 | Four overlapping jobs on one model, of every kind but an unload of all (which frees one model as an unload does): while no eviction pops it, the gate of the model keeps loads apart, and frees from each other and from every reply whose client has not left. |
| `pool_liveness` | `MCEnginePoolLive`; 462 418 | Two jobs of any kind on two models, fair: every job ends; jobs that are over hold nothing, two that overlapped leave no registered engine flagged and an unnamed request resolves, and one that ran alone leaves the pool in order. |
| `lock` | `MCCollectionLock`; 99 622 | Three writers of two processes, one of which may die; unlinks and touches are refused, probes fail: one writer holds the lock until something of that happens, a running holder keeps it, and an abandoned lock goes. |
| `slots` | `MCSlotScheduler`; 2 644 487 | Three replies, one with a budget, on two slots with one exclusive caller: every reply is in one place, reservations fit the cache, nobody waits for one another, and the model is shared as SharedExclusive says. |
| `slots_liveness` | `MCSlotSchedulerLive`; 178 061 | Two replies without a budget and one exclusive caller: every reply ends, a cancelled one even while a section is held. |
| `worker` | `MCWorkerProtocol`; 1 521 495 | Two streams and a token count, inline or multiplexed, with a worker that crashes, hangs or is unloaded at any moment: nothing of one call is left for the next, a cancel stops its own stream, and a reply that ends is whole. |
| `worker_liveness` | `MCWorkerProtocolLive`; 262 972 | Two streams and a load, with a worker of which nothing is assumed: every call and every load ends. |
| `part_lock` | `MCPartLock`; 964 899 | Four pulls of three processes, each of which may die anywhere, one of them unprovably: one pull works on a partial file at a time, and a pull that runs alone is not locked out by what died and tidies it up. |
| `url_pull` | `MCUrlPull`; 1 669 835 | Two pulls of one address, one of another and a deletion, each of which may die anywhere: what is resumed is what the identity says, a finished file is whole, a running transfer keeps its file and its record, and interrupted data stays offered. |
| `updater` | `MCUpdater`; 2 628 630 | Three updates and rollbacks of three builds, each of which may die anywhere, with every copy, removal and rename refused at will: what an update found stays whole in one place, a failure that asks for no manual recovery has undone itself, and a rollback that succeeds restores what the backup's maker found. |

Bounds. Four tasks at a gate are a holder, a waiter that does not fit, one
behind it and one that changes places; three capacities let a capacity be
lowered below the holders. Two models are a model and its victim; three tasks
are two jobs that cross and one that sees them, and with one model four tasks fit. What
the first two pool runs leave out for time, `pool_liveness` has with two tasks:
reloads of a model that ended up on the CPU among two models, and unloads of all;
and what they check is proved with both. `Copies`
bounds the engine and gate objects of one model that are alive together: more
than the tasks, each of which can hold on to one that was detached, so that one
is free whenever a task makes one. The scheduler has one reply
more than slots; a ceiling of seven cells is less than its three replies want
together and grows in two steps; a budget of four is the smallest that is
admitted with less than it asks for (a step of one cell, then promises). Two
streams and one count contend for a lock, and one token tells a whole reply from
one that was cut. For the lock on a partial file four pulls are a victim, a
takeover, a second one that judged the same lock, and a newcomer; two of them
are threads of one process, so that a death takes both. Two pulls of one address
and one of another leave bytes of either kind in one name, and a file of two
bytes can be half written. The collection lock has a holder that may die, and two
writers that share a watch; confirmation takes two ticks, which a beat can fall
between. Three runs of the updater are an update, a second one whose promotion
meets the first one's backup and kept venv, and a rollback; two names are
`VERSION` and one that some builds do not ship; of three builds two share their
dependencies, so that an update with and one without a dependency step follow
one another. `CONSTRAINT OneInside` ends a behaviour where two tasks are inside
the lock at once, of which nothing is claimed. `CHECK_DEADLOCK FALSE` is set where each actor does one job and stops;
the gate and the collection lock repeat and check deadlock.

Fairness. `FairSpec` of the gate assumes that a task the loop has made ready is
run, that an entered task eventually leaves, and nothing of cancellations. That
of the pool assumes that every step of a job, and every native call, ends: the
loop is a FIFO, executor calls return, generations end by length or stop, and a
producer thread whose client has left by its cancel event. That
of the collection lock assumes that writers come back (a scheduled re-sync does;
without it nobody would look at an abandoned file), that threads run, that time
passes, and that an unlink which is tried again and again is not refused for
ever (`SF`). That of the scheduler assumes that its thread runs and that an
exclusive caller that may enter does; that a section ends is not assumed but is
the hypothesis of `EveryReplyEnds`. That of the worker protocol is about the
server's threads and its time limits only: of the child nothing is assumed, it
may hang for ever. None assumes that a new job comes.

### Where claims stop, and why

The pool's statements about the gate are claimed for one model. With two, an
eviction pops the gate of its victim, and `FreesSpareReplies` and `OneLoadPerModel`
do fail (below). With any number of models, a client that disconnects during its
reply leaves the gate and the pin while its producer thread is still in
`chat_stream` (`http_server.py:7101`, "self-terminates within ~one token"), so an
unload that waits for the gate, or an idle unload, frees the engine under that
thread, or the thread loads it again beside a load by a switch.
`FreesSpareReplies` excepts such a thread and says that a free meets no other:
what is cut off is a reply nobody reads. That the native context itself survives
this is due to the layer below, which is not part of `EnginePool`
(in the worker, `LlamaCpp.close` stops the generation and frees under `_gen_lock`);
`OneLoadPerModel` counts the loads of switches, as the sentence it quotes does.
Both are about requests that generate inside a gate: what a request runs before
it (compaction while it prepares), and plugins that drive a pinned engine without
the gate, are kept from a free by their pin only, which a forced unload or the
second departure below overrides, and are not in these statements. `ActiveIsRegistered` is claimed without idle unloads:
`_switch_commit` appends to the LRU list without removing an earlier entry, and
an idle unload may then make the entry of an evicted model active.
`SettledBetweenJobs` claims of any number of jobs that they hold nothing; that no
registered engine stays flagged, and that an unnamed request resolves, of two;
and that the pool is in order, of one: with three jobs that overlap neither of the
latter two is so (below).
`MutualExclusion` of the collection lock is claimed until a process dies or an
unlink is refused (`calm`): two processes that take over one dead holder at once
may both go on, a window the docstring of `_reclaim` admits.
`WholeReplies` excepts a reader that read envelopes of another call (the first
departure below); `NothingIsForgotten` excepts `cut`, where only the orphan
listing shows the bytes.
The updater's properties are claimed until two tasks are inside its lock at once
(`overlap`). In the model that takes the death of a holder (below). In the code
also the age rule `_APPLY_LOCK_STALE_S` leads there: a lock in which no pid is
recorded or readable is reclaimed after half an hour (`updater.py:875`), although
its holder may be running; that rule is not modelled, and of what follows nothing
is claimed. What they say of the venv
is claimed where no process died and nothing was left broken, or else where the
version still tells whose kept venv it is (`Told`).

### Departures

Met while modelling. No run checks them; each is a behaviour of the model, and
its place in the code is given:

- a worker dies under a stream whose caller then stops reading; the cancel finds
  it dead and returns without draining, and the stream that waited for the lock
  reads the rest of the first reply as its own before it notices the death, while
  `_runner.py:841` says that "envelopes can never interleave across threads";
- an eviction, or an unload, chooses by `loaded`, which is true before the load
  is committed; the engine is then committed and pinned while it is flagged and
  freed, without force (`http_server.py:887`, `2204`, `3059`);
- an unload of all models lists the names first: one that an eviction or a
  placement reload took from `_engines` meanwhile ends it with a `KeyError`, the
  rest stays loaded and the active pointer is not reset (`http_server.py:3040`);
- a switch reloads an engine that is registered and unloaded; `loaded` turns true
  before it commits, a request's fast path lists the name meanwhile, and
  `_switch_commit` (`http_server.py:2206`) appends it a second time. An eviction
  later removes one entry, so the name of an evicted model stays listed, and
  `exceeds_resident_cap` (`residency.py:403`) counts it;
- from the same start another switch evicts that engine, flags and frees it,
  before the first commits it: it stays registered, unloaded and flagged, and
  `get_engine` does not hand it out again;
- a superseded switch whose native load ended first still commits and becomes
  the active model (`http_server.py:908`);
- an eviction pops a gate that a placement reload holds; the next request makes
  another one, and two loads of one model overlap (`http_server.py:1768`);
- a switch that evicts the active model and fails leaves an older name
  remembered, if there is one (`http_server.py:930`);
- a placement reload that read `was_active` before it replaces a newer choice
  (`http_server.py:908`);
- the release of a collection lock reads its token and then unlinks; between
  the two, after a death, a third writer's file may have taken its place
  (`rag/collection_lock.py:520`, `722`);
- in the worker protocol: a cancel of an inline stream whose end was read
  already may stop the next stream; the inline drain ends only on `done` or a
  refusal and so waits out its limit after a fault; with `mux` a cancel that is
  not confirmed counts the other streams and then kills the worker, and one that
  opens in between dies with it; an interrupt in `_simple_request` leaves its
  reply in the queue;
- the identity of a partial file has no etag, so a file replaced at its address
  by another of the same size is appended to when no digest was given; a record
  of a pull that dies inside `_save_current` is gone, with the older records
  (`pending_pulls.py:180`);
- two updates that both judged the lock of a dead one may both get in: the later
  removal takes the lock the other one has made since, so that its own `mkdir`
  succeeds, where the comment says it fails (`updater.py:900`);
- an update after a death in a swap backs up the half-swapped tree; a later
  rollback restores that and reports success, and names that only the dead update
  shipped stay (`_apply_update.py:267`);
- a death between the move of the stable backup and the rename that replaces it
  leaves none, and the next promotion sweeps away the one moved aside
  (`updater.py:983`);
- a kept venv that could not be removed is restored with a later backup when
  `VERSION` is missing there, or of the same build after a death in a swap
  (`updater_components.py:1374`);
- a death in the write of the kept venv's state file stops every rollback until
  the next update or a repair (`updater.py:1888`).

## Proofs

All theorems hold for every value of the constants that satisfies the
assumption named in the module.

`InferenceGateProofs`: the type invariant, every safety invariant of the run
`gate`, and three facts no run checks because `ImplementsAdmission` implies
them: `ExclusiveAlone`, `FirstComeFirstServed`, `AdmittedWithinCapacity`. None
is inductive alone: a release lowers the counter of a place, and the counter is
right only if grants, revocations and the queue all agree. `IInv` conjoins the
types, the kinds of the tasks inside, the counters (`Accounted`), the queue
(`Queued`) and that the head does not fit (`HeadDoesNotFit`), each stated over
explicit arguments so that one lemma, `WakeEstablishes`, serves every action
that ends in `_wake`. `GateImplementsAdmission` is the refinement: an arrival, a
release or a change of the capacity maps to the one step of `FairAdmission` that
lets in the whole run of tasks a `_wake` grants, and a task that was granted but
has not resumed counts as inside.

`EnginePoolProofs`: the type invariant, every invariant of the runs with two
models and with one, and two parts of the third. The pool's steps are many and
each changes the job of one task, so the argument goes through relations between a step and its task: it changes its
own job only (`Moved`), publishes its own event only and unpublishes it with the
load's end (`Publishes`), and adds a name only when it starts to free it and
takes the name out when done (`Evicts`). `TaskStep` shows them action by action;
`BookInv` follows from them alone. `ActiveRegistered` adds what each step does to
the registry: whatever takes a name out of it has made another one active or
none, where idle models are not unloaded. `LoadsAreSerial` and `RepliesAreSpared` are about one
model, and rest on its gate: who holds or waits for it is in its line once
(`LineInv`), and who loads, frees or generates for a client that is there is at its head. A task
that makes a gate finds one nobody holds, by counting: there are more copies
than tasks. `TypeCorrect` needs of a job that it has an engine where it reads one
(`Sound`), and of the LRU list what removing a first entry leaves.

Of `SettledBetweenJobs` two parts are proved. `NothingIsHeldOver`: a task without a
job is in no gate's line, evicts no name and publishes no event, and an event that
is set belongs to a load in progress (`RestInv`). `SettledAfterOne`: while one task
at most has begun a job (`Alone`), where that job is tells everything that is not
in order (`Orderly`): the one loaded engine that is not registered or not listed
yet, the name that is listed though its engine is freed, the flag on the engine
being freed (`Registry`), and the evicted active model a switch will remember or
replace (`Resolves`). With no job left there is nothing to tell, which is the
order. The part about two jobs that overlap is only model-checked.

`SlotSchedulerProofs`: the type invariant, the refinement of `SharedExclusive`
and every invariant and action property of the run `slots`. A step of the thread is looked at
through the slot table it leaves: it takes replies away and tells just those
that they are over (`Frees`, `Ends`), except the assignment in `AdmitNext`, which
looks at the callers again. So while a section is held no slot serves a reply
(`SectionAlone`), and that each reply is in one place needs no counting
(`OnePlace`): no reply is twice in the queue or the table, or in both, or told
while there. `CacheInv`: a cache that may hold foreign tokens is marked dirty,
and nobody runs or is being admitted while it is.

The reservations are totals over slots. A total is defined as the number of the
cells of its slots (`CellsOf`, `Sum`), so that totals are compared and split as
finite sets are; a sum that is folded would need induction over data. `RoomInv`
bounds two of them: what the slots take up (a reply its reservation, an idle slot
its cache) by the context, and what they may come to take up (a reply its promise,
where that is more) by the ceiling. A step that ends, drops or decodes makes slots
lighter in both (`LighterTable`), which is all it has to show; `ExtendRoom` and
`AdmitRoom` make one slot heavier, and `PutTable` asks them for the totals of the
others, which is what the code has looked at. `NoStall` is not inductive: it speaks of the table
when every reply is paused. `Unstalled` speaks of every set of paused
replies instead: one of them saw more cells taken by others than this set has,
because the reply that ran when the last of them paused was outside it or has
since left. `BudgetIsHonoured` follows from the tokens each reply
has counted: a budget that fits is reserved or promised as a whole, and a
promise is never refused. `TypeCorrect` rests on all of these: that a
reservation, or what a paused reply saw, is a number is the same arithmetic.

`WorkerProtocolProofs`: the type invariant and every invariant of the run
`worker`. What is in the three queues, in the child and in the demux thread is
tied to the call it belongs to. Inline, the one that holds `_q_lock` owns
everything in flight, unless its worker died under it; multiplexed, an envelope
is in the stream of its tag (`Own`, `Stages`). A cancel is in the control queue or
has set the event of its own stream, of no other (`Cancelling`). A reply is whole
because as many tokens as the child generated have been read or are on the way,
and an end is the last envelope of its call (`Counted`).

`CollectionLockProofs`: the type invariant; `RunningHolderIsKept` where holders
are timely or probes answer, whatever else fails; `MutualExclusion` where holders
are timely, until the first death or refused unlink (`calm`). The first two rest
on `IInv`: no watch is longer than the file is untouched (`WatchesAreShort`),
the owner of the file is in time (`OwnerIsInTime`), and a holder whose file is
there is named in it and beats (`HolderBeats`). Exclusion needs in addition that
whoever is past the create owns the file (`OwnerIsAlone`), which no judgement
disturbs, by the same bound on watches.

`PartLockProofs`: the type invariant, `HolderIsRecorded`, the refinement of
`DownloadLock` and the two invariants about a pull that is alone. The hard step
of the refinement is `Move`, which takes away whatever is at the path on an
earlier judgement. It is safe because a dead owner's lock only leaves under the
guard, which the mover holds, and because an empty directory is at the path only
while nobody has found the path free (`EmptyIsOld`, `JudgedStays`). While a pull
is alone the others are over or have not started, so that every step is its own
and its path through `_acquire_part_lock` can be followed.

`UrlPullProofs`: the type invariant and the five invariants about the partial
file, the record of a running transfer and what is remembered. One task works on
the partial file (`OneAtATime`, from the lock), so that what it saw still holds
when it acts (`Resuming`, `Writing`); records are written and removed outside the
lock, and hold because others remove only those of tasks that are over
(`Recorded`). That no bytes are forgotten needs who covers them: a record, or the
task at work, which leaves one behind at every point it may die at but `cut`.

`UpdaterProofs`: the type invariant, `PreviousIsKept`, `FailedIsUndone` and
`RollbackIsExact`. By itself the first does not say where the backup is while it
moves. `KeptInv` does: while nobody got past the lock beside another, the one
task inside either has not touched the tree, or has a whole backup of what it
found in its scratch folder until the promotion, and in the stable place from
then on; a task that died left one of these, and nobody who enters later owes it
anything. Every action of an update moves it from one of these places to the
next. The other two follow that task name by name: what of the tree is swapped,
and what has been put back, is told by the names it has left and those that
failed, and the kept venv by what it was kept for (`ExactInv`).

Only model-checked: all liveness (`EveryWaiterIsServed`, `EveryJobEnds`,
`AbandonedLockIsTakenOver`, `EveryReplyEnds`, `CancelledEnds`, `EveryCallEnds`),
which is out of the provers' reach, and what `SettledBetweenJobs` says of two
jobs: the flags, and the resolution of an unnamed request.
`HolderIsRecorded` of the partial file's lock is proved and in no run, because
`ImplementsLock` implies what it is for; every `TypeOK` is proved, and
only that of `WorkerProtocol` is in a run.

## Not modelled

In `EnginePool`: reload for a larger context, rename, the
`_engine` and `_inference_sem` aliases (but for the gate an idle unload picks),
a task cancelled while it waits for a gate (`InferenceGate` has that), an
`unload()` that raises, amounts of VRAM, an
idle pass over several models (one per job), gates of capacity above one,
the load path of image requests. The wait for `built`, for the fingerprint and
for the process-wide `_LOAD_LOCK` is part of the load. In `SlotScheduler`:
statuses, decode rates, checkpoints' data, the choice of a slot by prefix. In
`WorkerProtocol`: statuses, progress, logprobs, the in-process backend, retries
of a failed load with other settings, the native model. In `UrlPull`:
HuggingFace and CivitAI sources, the dismissal of a record, the registry of
models, copies found by digest. In `Updater`: downloads, signatures, keys and the
trust bridges; the native runtime and the other components, kept and restored as
the venv is; a build's own finishing step; the updates of runtime and components
that wait for the next start; the manifest older builds read; the watchdog. Everything listed `not_modelled` in
`PROJECT.json`, with its reason. Most of the source is outside any state
machine: request parsing, formatting, sizing tables, GGUF decoding, the user
interface and clients of external services.

## Plan

In this order:

1. `EnginePool`: rename, reload for a larger context.
2. The RAG store's publication of a saved collection, on top of the lock.
3. GUI and scheduled jobs: a cancel against an end, edits during a run.
4. Configuration lock; embedder and its lock order; the HuggingFace worker as an
   instance of the inline protocol.
5. As theorems: `SettledBetweenJobs` for two jobs.
