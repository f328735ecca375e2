# eventfold-es: specifications and proofs

`eventfold-es` is an embedded CQRS / event-sourcing layer over an `eventfold-db`
server. Aggregates are folds of a stream of events; each aggregate instance in use
is served by an *actor* (a tokio task with a mailbox); commands are decided by
the actor on its copy of the aggregate and appended to the stream under an
expected version; projections and process managers follow the global log.

This directory holds TLA+ modules that model the crate, TLC configurations that
check them on small instances, and TLAPS proofs that hold for every instance.
Paths such as `actor.rs:464` are relative to `src/src/`.

## 1. Inventory

| Part | State it keeps | Operations | Interacts with |
|---|---|---|---|
| Aggregate actor (`actor.rs`) | aggregate value, `stream_version`, mailbox | Execute (with retry), GetState, Inject, Shutdown, idle timeout, channel closed, spawn with catch-up | server (append, read), snapshot file, callers by oneshot |
| Handle cache (`store.rs`, `get`) | `(type, id) -> handle` under an `RwLock` | fast path, evict, spawn, insert | actors |
| Builder (`store.rs`, `open`) | registrations, dispatcher map | register, open: load every checkpoint | projections, managers, actors |
| Injection (`store.rs`, `inject_event`) | none | append with `Any`, optionally run process managers | server, process managers |
| Snapshot and checkpoint files (`snapshot.rs`, `projection.rs`, `process_manager.rs`) | a file and its `.tmp` | save (create or truncate, write, rename), load | actors, runners |
| Event encoding (`event.rs`, `actor.rs:274`) | none | `stream_uuid`, `encode_domain_event`, `decode_domain_event`, `decode_stored_event` | all readers and writers |
| Client (`client.rs`) | connection | append, read_stream, subscribe_all_from | server |
| Projections (`projection.rs`, `store.rs`) | `(state, last_global_position)` in memory and on disk | catch_up, apply_event, save, `projection()`, `live_projection()` | server, live loop |
| Process managers (`process_manager.rs`, `store.rs`) | the same pair, a dead-letter file | catch_up, react_event, dispatch, dead-letter, save, `run_process_managers()` | server, actors, live loop |
| Live loop (`live.rs`) | `caught_up`, position watch, back-off delay, shutdown watch | subscribe, fan out, dispatch, tick, reconnect, shut down | all of the above |
| Authentication, stream layout, generated protocol | none over time | - | - |

What is hard to get right here, and to test:

* two `get()` calls that miss the cache together start two actors for one
  instance; nothing prevents both from writing, only the expected version does;
* an append whose answer is lost, or which arrives after its caller was told it
  failed, or after the process that sent it has died;
* the idle timeout against a caller that has just cloned the handle;
* an aggregate assembled from a snapshot, a catch-up read, local applies and
  re-reads, with events in the stream that do not decode;
* positions of process managers that are saved before the commands they stand for
  are dispatched, by another call, a checkpoint tick or a shutdown;
* runners at different positions that are fed from one subscription, or by the live
  loop and a pull call at once;
* locks held across awaits, and a `select!` loop that stops polling one of its
  branches while another awaits the same locks;
* streams that end without their sentinel, break half way, or are reopened;
* commands that took effect but whose answer was lost, commands repeated after a restart,
  and the events they cause coming back to the managers that sent them;
* a save that is killed between its write and its rename, and savers that overlap.

`PROJECT.json` lists these and the others under `hazards`, at their lines, with the
properties that would catch each.

## 2. Modules

| Module | Models | Kind |
|---|---|---|
| `EventCodec` | how an event becomes `(event_type, payload)` and back | operators |
| `EventStore` | expected versions, one stream's append and read (external server) | operators |
| `Actor` | `get`, spawn, mailbox, retry loop, injection, exit, snapshots, crash | state machine |
| `CommandLog` | what the write side promises: commands apply atomically, once | abstract specification |
| `ActorInv` | the inductive invariant of `Actor`, in parts | invariant |
| `MCActor` | `Actor` on the Counter aggregate of the repository's tests | model for TLC |
| `Actor_proofs` | types and folds of `Actor` | proofs |
| `Command_proofs` | what `Actor` promises its callers, and that it implements `CommandLog` | proofs |
| `Cursors` | what the read side promises: positions that move one event at a time, saved positions, restarts, commands of events passed | abstract specification |
| `Runners` | projections, process managers, checkpoints, `projection()`, `run_process_managers()` | state machine |
| `Runners_proofs` | that `Runners` is exact and implements `Cursors`, its types and mutexes | proofs |
| `Coverage_proofs` | that the calls of `Runners` cover the log | proofs |
| `LiveLoop` | `start_live`, `run_live_loop`, its stream future, `LiveHandle`, `live_projection()`; composes with `Runners` | state machine |
| `LiveLoop_proofs` | that live mode is exact, implements `Cursors`, and that the handle tells the truth; its types and mutexes | proofs |
| `Lossless_proofs` | that only a crash loses commands in live mode | proofs |
| `EventRecords` | identity and context of an event, `stream_uuid`, `encode_domain_event`, `decode_stored_event`; on top of `EventCodec` | operators |
| `Delivery` | the closed loop: `open()`, dispatch to aggregates and dead letters, `inject_event`, restart; composes `Runners` and `EventRecords` | state machine |
| `Delivery_proofs` | that the closed loop delivers what saved positions cover, repeats commands only after restarts, and attributes effects to their causes | proofs |
| `SavedFile` | tmp-write-rename and load, by several savers, with kills and power losses | state machine |
| `SavedFile_proofs` | lemmas and theorems about `SavedFile` | proofs |
| `MCRunners`, `MCLiveLoop` | one projection and one or two managers | models for TLC |
| `MCDelivery` | a process of two managers over three aggregate types, one without dispatcher | model for TLC |
| `MCSavedFile` | three savers, four files, a long and a short value | model for TLC |

### How `Actor` corresponds to the code

The model has one aggregate instance, a set `Calls` of uses of the public API and
a set `Actors` of task slots. A step is the code between two await points, since
tokio may switch tasks, or another thread may run, only around those as far as
shared state is concerned (each lock of the cache is taken and released within
one step).

* `cpc[k]` follows a call through `get` ("get", "evict", "load", "read", "insert":
  the gaps between the cache's lock sections and the spawn's awaits), the send
  ("ready") and the wait for the oneshot ("queued"). `Abandon` drops the caller's
  future at any of these points.
* `apc[a]` follows `run_actor`: "recv" (`rx.recv()` under the idle timeout),
  "decide" (top of the retry loop), "append" and "reread" (its two awaits),
  "inject" and "inject_read" (the two awaits of Inject), "exiting" (a snapshot is
  being saved, the receiver still exists), "gone".
* `rpc[k]` is the append on the wire. `ServerAppend` carries it out at any later
  time; `AppendFails` and `InjectFails` are a transport error that may come before or after
  that, so a request may take effect although its caller got an error.
* `state[a]` is the list of what the fold loop visited: the domain event it
  applied, or `NoEvent` where decoding failed and only the version advanced. Every
  aggregate is a function of that list, so the properties hold for all of them.
* `snapshot` is what `load_snapshot` would return. `SavedSnapshots` gives the
  outcomes of a save: the new file, the old one (errors are logged only), or one
  that no longer parses (two actors share one `.tmp` path; nothing is fsynced). That
  these are the outcomes is what `SavedFile` looks into. `Crash`, which is possible in every state, keeps the
  file or loses it; the one outcome of a power loss that it leaves out, the file before the last save, is what a save that
  failed with its error logged leaves there.
* `OtherAppend` is any other process, and `inject_event` of this store, which
  bypasses the actors.
* `Crash` loses tasks, channels and cache; requests already sent stay under way.

`base` and `reply` are history: they record what a call was told and what the
actor knew when it took the command.

`shutdown` and `inject` messages are sent only by tests in this version of the
crate (`actor.rs:134, 143`); they are modelled as part of the actor's interface.

### How `Runners` and `LiveLoop` correspond to the code

The read side sees one global log, `log`; who writes it does not matter to it, so
`Write` appends an arbitrary event. Events are those a manager answers with a command and
those `decode_stored_event` refuses.

* `checkpoint[r]` is a runner's pair in memory: `pos` is `last_global_position`, `seen` the positions of the
  events `apply` or `react` was given; every state is a function of that list. `file[r]` is what loading
  `checkpoint.json` would give.
* `lock[r]` is the runner's `tokio::sync::Mutex`: the holder, then the waiters in order.
  The mutex is fair and hands itself to the first waiter when released, whether
  or not that waiter is polled; this is why a queue is kept and not a flag.
  The outer `RwLock`s are only ever read-locked after the store is built and are left out.
* `cpc[c]` follows `projection()` and `run_process_managers()`: "lock", "subscribe", "read", and for
  managers "dispatch", "save" and "saving"; `live_projection()` has "peek" and "peeking". The lock is held
  from "subscribe" to the end of the catch-up, and taken again, one manager at a time, for the saves
  (`LockForSave`, `SaveManager`: to hold it and to release it are two steps, so others queue in between).
* A subscription delivers the log from a position on; the sentinel comes some time after the events
  that were there when it was opened (`upto`).
* `handled` collects the envelopes that were dispatched or dead-lettered. Which of the two is
  left open: a dispatch ends in one or the other (what it does to the aggregate is `Actor`).
* `loop` holds the loop's program counter and locals. "min" and "save" walk over the
  runners; "retry" and "reconnect" are the two back-offs; "stream" is the inner `select!`.
  `loop.then` says where a save was started from.
* `fut` is `process_stream_with_dispatch`. Its steps need `loop.pc = "stream"`: while a branch of the `select!`
  awaits `save_all_checkpoints`, the future keeps its place in lock queues but is not polled.
* `handle` is the `LiveHandle`. The watch stores a value only if there is a receiver, as
  `watch::Sender::send` does.
* `begun`, `announced` and `start` are history.
* `Faults` says what may go wrong in a run: "stream" (cannot be opened, breaks), "eof" (ends without
  sentinel, or at any time in live mode), "letter" (a dead letter cannot be written),
  "abandon" (a caller drops its future), "crash" (restart from the files, any of which may be lost
  or torn, as nothing is fsynced). `FragileDirs` are the runners whose checkpoint may fail to be written.
* `reply[c].short` records by how many events a result falls short of the log at the time of the call.
* The refinement `Positions` maps `pos` and `saved` of `Cursors` to the positions in memory and in the
  files, `done` to `handled`; both `Runners` and `LiveLoop` are checked against it.

The branch of `run_live_loop` for unrecoverable errors is never taken
(`process_stream_with_dispatch` returns only `Ok`) and is not modelled.

### How `Delivery` and `EventRecords` correspond to the code

`Delivery` puts the pull side into a process that is opened, killed and opened again, and closes the
loop: what an aggregate appends for a command is in the same log the managers read.

* `Builder` is what was registered; `ProjectionMap`, `ProcessManagerList` and `DispatcherMap` are what
  `open()` makes of it (maps by name, a list), `OpenAssumption` relates them to the constants of `Runners`.
  `Open` loads every runner's checkpoint.
* The dispatch of `Runners` is replaced by its two halves. `DispatchCommand`: the envelope is routed by its
  aggregate type and the aggregate refuses, appends, or appends with the answer lost; the decision of an
  aggregate is not repeated here, `Actor` has it, nor is an append that the server carries out only after the caller was
  told it failed: here it takes effect before the answer or not at all. `Settle`: the caller gets the answer, and an
  error goes to the manager's dead-letter log.
* An event in the log is a record with the identity and context that `encode_domain_event` gave it;
  the envelope that caused it is its correlation id, which the event carries through encoding, recording and
  decoding. `Cause`, and with it the properties, only see what `decode_stored_event` returns.
* A name is the sequence of its parts between slashes, because `stream_uuid` hashes
  `"{type}/{id}"` without escaping.
* `InjectEvent` and `InjectAndRun` are `inject_event` without and with `run_process_managers`; `WriteOutside` is a
  program that knows nothing of this metadata.

### How `SavedFile` corresponds to the code

`save_snapshot`, `save_checkpoint` and `save_pm_checkpoint` are the same three steps: `fs::write` creates or truncates the
`.tmp` file and then writes to what it opened, `fs::rename` moves the entry. `data` holds the blocks of each
file, `tmp` and `final` are directory entries, `fd[w]` is the file a saver has open: when another saver has
renamed it meanwhile, a late write goes to the file that readers see. A write may fail part-way, a saver
may be killed at any step. Nothing is ever synced, so a power loss may leave any beginning of a file's data (`Remains`), and
the directory may come back without the last rename and all that came after it: `prev` is the file that rename has replaced,
whose blocks are not given out meanwhile. Only the last rename can be undone. `alone`, `settled` and `before` are
history: whether a save was overlapped, what a load should give, and what it should have given before the last rename.

For the other modules the older file that an undone rename brings back is the file that a failed save would have
left, and failed saves are steps of theirs (`SavedSnapshots`, `FragileDirs`); in pull mode such a save also ends the pass, and the proofs
hold for every choice of `FragileDirs`.

## 3. Runs

The write side (`actor_*`, `phantom_*`): all runs use two calls and two actor slots: enough for two actors of one instance to
coexist, for one to be evicted or idle out under a caller, and for each call to
race the other and an outside writer. `MailboxCapacity` is 1 so that the channel
is full when the second caller sends. `ForeignLimit` bounds the stream length up
to which other writers append. `MAX_RETRIES` is 3 as in the code.
Calls and actors are symmetric in the safety runs; no symmetry is used for liveness.
Deadlock is not checked: when every call has returned and the actors have left,
the system really has nothing to do.

| Run | Instance | Shows |
|---|---|---|
| `actor_full` | stream of one event, snapshots writable, all requests, a decodable and a malformed foreign event | aggregate and snapshots are exact folds; commands are atomic; `Ok`, errors and answers tell the truth; `Actor` implements `CommandLog` |
| `actor_contention` | stream not created yet, snapshots not writable, up to 3 foreign events | the retry loop is bounded and gives up only under real contention; the inductive invariant of `ActorInv` holds while appends lose |
| `actor_liveness` | `FairSpec` | every call returns |
| `phantom_snapshot` | stream not created yet, snapshots writable, no other writer | **violation**: a snapshot claims an event that was never applied |

On its way out `run_actor` saves
`stream_version.unwrap_or(0)` (`actor.rs:391, 402, 416`). For an instance whose stream
has no event yet this is a snapshot "at version 0". The next actor starts from
it, reads from version 1, never applies event 0 if somebody writes it, and if
nobody does, appends under `Exact(0)` to a stream that does not exist until its
retries are used up: on the same instance `GaveUpOnlyUnderContention` fails too, a
command being refused with `WrongExpectedVersion` although nobody else writes. The
passing runs therefore keep to instances where such a snapshot cannot arise
(`NoPhantomSnapshot`): the stream exists, or the directory is not writable.

The read side (`pull_*`, `live_*`) uses one projection, one or two managers, at most two events and one
or two callers. Two events and two runners are enough for runners to be at different
positions, for an event to be delivered again to one of them, and for a stream to break between
two reactions; two managers for one to have produced commands when the other fails.
The live runs use one caller, which starts live mode and makes the calls
the run is about (`projection()` while live is on is `live_deadlock`'s; the theorems hold with every call); the loop and its future are the other two parties. The back-off delay is
counted in doublings, up to `MaxDelay` = 1. TLC's deadlock check looks for a state without any step, and
of the runs of this side it says something only in `delivery`, where crashes and other writers are bounded: there a call that
waits for ever would show. In `pull_faults`, `live_safety` and `snapshot_files` a crash or a power loss is possible in every state, in
`live_liveness` a watcher can always come or go, so there the check passes whatever hangs; `ShutdownReturns` and `EventsArrive`
are what would find it, as `live_deadlock` does.
Nobody watches in `live_safety` (the run would take too long), so the last conjunct of `AnnouncedIsProcessed`, on the watch, says nothing
there; `AnnouncedIsTrue` proves it for every choice of operations, and the watchers of `live_liveness` are the subject of `WatchersLearn`.
Commands that a pull call has taken from the loop may still be in that call's hands when their event is announced: the property is
about the loop's own.

`delivery` has a log of four events, two of which nobody's command causes (`WriteLimit`): an order, the reservation it
leads to, and the reservation again after a restart, or an event without metadata in between. One crash (`CrashLimit`) is
enough for each command to be repeated. The second manager's command has no dispatcher, so only a dead letter can deliver it. One task runs the managers, the other injects. `snapshot_files` has three
savers, so that one can be killed or overtaken while two others overlap, two values of different length, so that a short text
can be written over a long one, and four files: the one readers see, the one it has replaced, a `.tmp` file, and one that a saver
overtaken twice may still have open. Savers and files are symmetric.

| Run | Instance | Shows |
|---|---|---|
| `pull_faults` | two callers, both calls, every fault | state and position belong together, in memory and on disk; no pass is ahead of its runner; `Runners` implements `Cursors` |
| `delivery` | `FairDeliverySpec`: two managers, injections, lost answers, a crash that may lose files | a saved position covers only commands that reached an aggregate or the dead-letter log; a command takes effect at most once per life of the process; effects follow their causes under the right identity; `projection()` and `run_process_managers()` cover what was there when they were called; every command owed is delivered in the end |
| `snapshot_files` | three savers, failures, kills, power losses that cut files or undo a rename | loads give whole saves unless saves overlap, and the next save that nobody overlaps repairs that |
| `pull_partial` | broken streams | **violation**: commands collected before the error are lost |
| `live_safety` | ended streams, ticks, failing saves, crashes and restarts, `live_projection()` (which pulls before live mode starts) and `run_process_managers()` meanwhile | announced positions are processed and only go up; caught up means replayed; the subscription is never ahead of a runner; only a crash costs a command; no runner skips or repeats an event; `LiveLoop` implements `Cursors` |
| `live_liveness` | `FairLiveSpec`, ended and broken streams, unwritable letters | events reach every runner and whoever watches the handle; `shutdown()` returns |
| `live_shutdown` | shutdown only, no fault at all | **violation**: shutdown saves the position and drops commands |
| `live_deadlock` | `FairLiveSpec`, `projection()` meanwhile | **violation**: the loop waits for ever behind its own future |

The deadlock takes one `projection()` call that holds a mutex across its catch-up, an event that makes
the future queue for it, and a tick: the loop's save queues behind the future, the
call ends, and the mutex now belongs to a future that only the loop could poll. From
then on `projection()` hangs too. `findings` in `PROJECT.json` quotes what the repository says in each case.

The limits of the passing runs are the code's, not the model's. The same properties fail

* `SavedMeansDelivered` (and `SavedMeansHandled`), when two tasks run the managers, `inject_event` with its option
  being one: the mutex of a manager is free between its catch-up and its save, and the second call saves the
  position that the first has reached but not yet dispatched for (`Operations` with such a call for both callers);
* the same, when a dead letter cannot be written: the call leaves with `?`, the envelopes in hand are dropped and the
  positions in memory have moved, as in `pull_partial`;
* `CallsCoverTheLog`, when a subscription ends without the sentinel (fault "eof"): `process_stream` takes the end
  for `CaughtUp`, and `projection()` returns an incomplete state as a success;
* `NothingLost`, when a tick saves between reaction and dispatch and the process then crashes;
* `LoadsAreWholeSaves` without its exception: two `get()` calls that miss the cache together spawn two actors of
  one instance in one store (`store.rs:151`), and when both leave, the file can be torn, although `snapshot.rs:50-52` says
  that readers never see a partially written file. `load_snapshot` then finds nothing, and the actor reads the whole stream.

Further places where documentation and code differ, met while modelling: the watch does not carry the latest
position for a receiver that comes after the event (`FutAnnounce`; `live.rs:93`); `CaughtUp` does not reset the
back-off, only a clean end after it does (`SaveDone`; `live.rs:58, 365`); the `metadata` of a `CommandContext` is not
forwarded to events (`Metadata`; `command.rs:33`). Names with slashes can share a stream (`stream_uuid`; `event.rs:43`), an
empty instance id makes an event that the actor applies and projections never see (`event.rs:183`), and a process manager that
is registered twice runs twice over one directory (`store.rs:757`); the models keep to names and registrations without these.

Every property of a passing run is also checked against a mutated definition
(`mutants` in `PROJECT.json`; the operators marked *Mutant*), which TLC finds
to violate it.

### Fairness

`FairSpec` assumes weak fairness of the steps of each call, of each actor and of
the server: tokio polls every task that has been woken, and the server answers
the requests it receives. No fairness is assumed of timeouts,
transport errors, crashes, abandoned futures or other writers: nothing may depend on them.
A caller that waits for a slot of a full mailbox is enabled again and again only
if the actor drains it, which actor fairness gives.

`FairLiveSpec` assumes weak fairness of the loop's own steps and of each caller, and strong fairness of the
stream future, of the `select!`'s shutdown branch and of subscribing. The future is not
polled during a save, so it is enabled again and again, not continuously; `select!` picks among ready branches at
random, so a ready branch is not passed over for ever. Subscribing again
and again succeeds some time: the server is not down for good. Ticks, ends of streams and errors are not fair.

`FairDeliverySpec` assumes that tasks are scheduled, that a process that died is started again, and that somebody calls
`run_process_managers()` again and again: nothing in the store does so by itself in pull mode, and its documentation leaves it to
the application. Since that task makes other calls too, calling is enabled again and again and not continuously, hence
strong fairness. No fairness is assumed of writers, injections or crashes.

## 4. Proofs

`Actor_proofs` proves, for any sets of calls, actors, requests and events, any
mailbox capacity and retry bound:

* `TypeCorrect`: `Spec => []TypeOK`, given `HandleOK` (the aggregate's `handle` returns
  either an error or a sequence of its events);
* `FoldCorrect`: `Spec => [](StateIsFold /\ SnapshotIsFold)`, given `HandleOK` and
  `NoPhantomSnapshot`; `SnapshotsAreFolds` is its second half.

`StateIsFold` is not inductive. `AppendOk` applies the produced events without
reading them back and jumps to the version the server returned: that this is
the fold of the stream needs to know what the answer says about the stream
(`AppendInFlight`), which in turn needs that no other actor holds the same call (`OnePlace`) and
that locals are what the task's position says (`LocalsOK`, `HandlesOK`). A saved snapshot
is a fold only if the actor has seen an event (`NotBeforeStart`). The parts are
proved one after the other: `TypeStep`, `PlaceStep`, then `StateFoldStep`,
`SnapshotFoldStep` and `FlightStep`, over lemmas about folds of extended streams
(`FoldExtend`, `FoldRead`, `FoldLocal`), the round trip of the codec (`RoundTrip`) and
lemmas that sum up what the actions do to one part of the state (`MessageSteps`, `LogSteps`,
`StateSteps`, `FlightSteps`).

`Runners_proofs` proves, for any number of projections, managers, callers and events, any order of visits and every
combination of faults (only `RunnersAssumption` is used):

* `RunnersAreExact`: `Spec => []CheckpointsAreCursors`;
* `PassesFollow`: `Spec => []CallersFollow`;
* `RunnersImplementCursors`: `Spec => ImplementsCursors`, the refinement;
* `ReadersExclude`: `Spec => []TypeOK`, types and mutual exclusion (below, with live mode).

The inductive invariant is `PassInv`: types, `CheckpointsAreCursors` and `CallersFollow`. `CheckpointsAreCursors` alone is
not inductive: a pass that was ahead of its runner would leave a hole, so one needs that none is (second part of
`CallersFollow`), and for the refinement that the commands in hand are of events already passed (third part). One lemma
per action; most are instances of `CallerMoves`, and `ReadEventInv` is the one with content: it uses
`AfterEventIsCursor` and that positions only grow while callers are alive. The mutexes are not used: the guard
on the position in `apply_recorded_event` and `react_recorded_event` is enough for exactness, and the locks are there for
the rest. In the refinement, `ReadEvent` is `Deliver` or a stutter, the two saves are `Save`, `Dispatch` is
`CarryOut`, `Write` is `Grow` (of one event; in `Delivery` a command may add several at once), `Crash` is `Restart`;
everything else stutters.

`Command_proofs` continues from `FoldInv` under the same two hypotheses and proves that `InductiveInvariant` of `ActorInv` holds
(`InvariantHolds`), and from it

* `CommandsAtomic`, `OkIsAppended`, `ErrorHasNoEffect`, `AnswersFromHistory`, `GivesUpOnlyUnderContention`:
  `Spec => []P` for `CommandsAreAtomic`, `OkMeansAppended`, `ErrorMeansNoEffect`, `AnswersComeFromHistory` and
  `GaveUpOnlyUnderContention`;
* `ActorsNeverGoBack`: `Spec => ActorNeverGoesBack`;
* `WriteSideImplementsCommandLog`: `Spec => ImplementsCommandLog`, the refinement.

None of these promises is inductive: whether a command's events may still be appended after its caller was told something
depends on where its message and its request are. `RequestsOK` says that a call leaves no trace before its append is sent, and that a
request under way was decided on the prefix its expected version names; `AnswersOK` that a call with a final answer is in
nobody's hands and has no request under way; `AppendsOK` what an accepted or refused append means to the actor
that awaits it; `RetriesOK` that each refused attempt has taught the actor an event. `AnswersOK` covers the mailboxes too: a first
version spoke only of the actor at work on the call, held in every reachable state, and was not inductive, because
an answered call whose message still sat in a mailbox would have been executed. The proof first sums up what any step can do to one actor, to one call's trace
on the server and to one reply (`ActorMoves`, `TraceMoves`, `CallMoves`) and then has one lemma per part. In the refinement an accepted
append is the command taking effect; answers, retries, loads and crashes stutter.

`SavedFile_proofs` proves, for any sets of savers, values and files:

* `ReadersSeeWholeSaves`: `Spec => []LoadsAreWholeSaves`;
* `SoloSaverOwnsTmp`: `Spec => []SaverOwnsTmp`;
* `FilesAreTyped`: `Spec => []FileTypeOK`.

None of the three is inductive. That a load gives the last save
after a rename needs that the renamed file held all of it, which is what `SaverOwnsTmp` says of a saver that nobody
overlaps, and that needs the entries to point to different files. Power losses need more: `FinalHolds` says of the file that readers see
not only what a load makes of it, but that it is a text or a beginning of one, because what is left of a torn file could by
chance be a text (`LossLeavesPieces`, `PiecesAreNoText`); `PrevHolds` says the same of the file that an undone rename brings back, and that nobody has it
open. `FileInv` is these two with types and ownership.

`Coverage_proofs` proves `CallsCover`: `Spec => []CallsCoverTheLog` for `Runners`, given that no stream ends before its
sentinel (`"eof" \notin Faults`; with it the property fails, section 3). Calls overlap, so a manager that this call has visited may
be moved and saved by another one before this call returns, and the answer is about the files, not about what this call wrote.
`CoverInv` says which managers are past the call's share of the log in memory and which on disk, by how far the call is in `Order`;
it is preserved by the other callers because positions and files only go up, for which `FilesBehind` is needed: no file is ahead of
the position that will overwrite it. That the least saved position exists is by well-foundedness of the naturals (`LeastNumber`).

`LiveLoop_proofs` proves for `LiveSpec`, under every fault:

* `LiveRunnersAreExact` (`CheckpointsAreCursors`) and `LiveModeImplementsCursors` (the refinement);
* `SubscriptionFollows` (`StreamFollows`);
* `CaughtUpIsTrue` (`CaughtUpMeansReplayed`);
* `AnnouncedIsTrue` (`AnnouncedIsProcessed`) and `AnnouncementsGoUp` (`AnnouncementsAdvance`), given that the store has a runner;
* `LiveModeExcludes` (`LiveTypeOK`).

`LiveInv` adds to `PassInv` types, what the loop's position says about the future (`Phases`), and `StreamFollows`: while the
minimum is taken it is at most the position of every runner already visited, and once the stream is open, its next event is
at most the position of every runner (past it, for those the event was already fanned out to). This survives the pull calls that move
runners meanwhile because every step but a crash goes `Forward`. As in pull mode no mutex is used. The two theorems about
announcements need a runner: without any, `min_global_position` is `u64::MAX`, every reconnection starts at 0
(`live.rs:240-241`), and positions are announced again; nobody processes them, so this is harmless, but it is what the code does.

`Lossless_proofs` proves `OnlyCrashesLoseCommands`: `LiveSpec => OnlyCrashesLose`, given `Calm`: no broken stream, unwritable dead letter or
abandoned call, and no shutdown. Each of these four does lose commands (`pull_partial`, `live_shutdown`, section 3); streams that end, failing saves and
crashes remain. Besides `LiveInv` it needs to know in whose hands commands may be (`Places`): only a `run_process_managers()` that has not
dispatched everything has any, so no call that returns drops one; `projection()` feeds only projections, so it produces none.

`ReadersExclude` and `LiveModeExcludes` are about types together with
the ownership of the mutexes: a caller in a catch-up, a save or a look is first in its runner's queue. This is not inductive
either: a place left behind in some queue would later make its owner the holder of a mutex it does not want. `CallerPlace`, `StreamPlace` and
`LoopPlace` say that a client queues only at the runner it is at, and the lemmas `WaitLocks`, `HoldLocks`, `ReleaseLocks` and
`DropLocks` that a client's move on the locks leaves the others as they were. It is assumed that the names of the loop and its future are not
those of callers (`LiveAssumption`). Mutual exclusion is all it gives; the deadlock of `live_deadlock` happens with every place in order.

`Delivery_proofs` proves for `DeliverySpec`, with any number of managers, callers, commands per event, events per command,
crashes and lost files, and with the answer of any dispatch lost:

* `SavedPositionsAreDelivered` (`SavedMeansDelivered`), given `SoleRunner`: at most one task calls
  `run_process_managers()` or `inject_event` with its option. With two the property fails (section 3). That a broken stream, a dropped
  call or an unwritable dead letter cuts a pass short is not a step of `Delivery`: these lose commands (`pull_partial`);
* `AtMostOncePerProcess` (`OncePerProcess`), without that hypothesis: tasks that run the managers at once do not repeat each
  other's commands;
* `EffectsHaveCauses` (`EffectsFollowCauses`);
* `LoopCallsCover` (`CallsCoverTheLog`), given `"eof" \notin Faults`, as in `Coverage_proofs`;
* `LoopIsExact` (`CheckpointsAreCursors`), `LoopImplementsCursors` (the refinement) and `DeliveryTyped` (`DeliveryTypeOK`).

The steps `Delivery` takes over from `Runners` are covered by the lemmas of `Runners_proofs` and `Coverage_proofs`; its own (`Open`, the two
halves of a dispatch, injections, `Die`) get lemmas here. `BaseInv` puts the earlier invariants together and adds that a process that is down holds
nothing and has its files for its positions. On top of it are three layers, each needed because the promise above it is not inductive:

* `FlowInv`: a command in hand answers an event of the log (`WorkAnswers`), it is in hand once, with one caller (`WorkOnce`), and an event in the log is
  somebody else's or was caused by such a command, before it in the log (`LogCaused`). `WorkOnce` holds because a manager answers an
  event only when it moves past it, and no command in hand is ahead of its manager. That a recorded event names its cause rests on a
  round trip through `encode_domain_event`, the record and `decode_stored_event`;
* `DeliveredInv`: a command of an event its manager has passed is delivered or in hand, one of an event its file covers is delivered, and so is one
  with a positive answer. A save is the step that needs `SoleRunner`: the saving call has nothing in hand, and nobody else can have anything;
* `CountInv`: a command has had at most `crashes` effects while it is pending (its manager has not passed the event, or it waits in some hand without an answer)
  and `crashes + 1` otherwise. A bound without the distinction is not preserved by the dispatch. `Die` may make every command pending again, which
  is what the additional crash pays for.

`CoverInv` is that of `Coverage_proofs`, with the start of an injection being the log that already has its event.

With this every invariant of a passing run, every action property and every refinement is proved. Only model-checked: liveness
(`EveryCallReturns`, `OwedIsDelivered`, `EventsArrive`, `WatchersLearn`, `ShutdownReturns`), which is out of the prover's reach.

## 5. Assumptions and what is left out

* The server is modelled from its use: appends to one stream are atomic, ordered and
  accepted exactly under their expected version; reads return the whole
  stream from a version. It does not deduplicate event ids.
* No event variant carries data whose JSON is `null`: serde writes it as it writes a unit
  variant, and it would not survive a re-read (`CodecAssumption`).
* Aggregates do not panic in `handle` or `apply` (the trait asks for pure, total functions).
* In `Actor`, command contexts, event ids, metadata and timestamps are data no property tells
  apart; the author of an event stands for them. `EventRecords` and `Delivery` have contexts and metadata.
* Managers address instances by names that are not empty, so that what a command leads to decodes; other writers do not name a command of
  this store as the cause of their events (`DeliveryAssumption`, evaluated by `delivery`).
* Hashes of stream names are taken to be injective, and event ids fresh.
* Files: a rename is atomic in the directory; a write goes to the file that was opened; a power loss keeps a beginning of a file's
  data and undoes at most the last rename. No beginning of a JSON text is itself one (the files hold objects).
* Not modelled: authentication (a header added to each request, from a string the application owns), `storage.rs`
  (joins path names; not used by the store), the wording and conversions of error types, generated code,
  examples, tracing, and durations: how long a back-off or an idle timeout lasts.

## 6. Plan

1. (done) `EventCodec`, `EventStore`, `Actor`, `CommandLog`, `ActorInv`, proofs of types and folds.
2. (done) `Runners`, `LiveLoop`.
3. (done) `Cursors`, with `Runners` and `LiveLoop` checked to implement it and `Runners` proved to.
4. (done) `SavedFile`: the tmp-write-rename steps, checked and proved.
5. (done) `EventRecords`: `decode_stored_event` against `encode_domain_event`.
6. (done) `Delivery`: a manager's dispatch and what it causes, with redelivery after a crash.
7. (done) Proofs of the promises of `Actor` and of its refinement; of `Runners` and `LiveLoop`: exactness, refinement,
   coverage, announcements, commands not lost, mutexes.
8. (done) Proofs of `Delivery`: types, exactness, refinement, coverage, causes, at most once per process, delivery of what is saved.

What is left is liveness beyond the instances TLC checks.
