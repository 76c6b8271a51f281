# A formal model of qtfra

qtfra is a Go utility library: goroutine groups, a publish/subscribe hub, duplicate
suppression, reference-counted byte buffers, stream copies that go through kernel pipes, a
metrics collector, and small helpers. It has no main program and no documentation of its own;
what it promises is in its code, comments and tests. This directory holds TLA+ models of its
stateful parts, the TLC configurations that check them, and machine-checked proofs
of every safety property that a passing run checks: see section 6.

Paths are relative to the root of the repository; line numbers are those of the files the
models were written from.

## 1. Inventory

| Component | State | Operations | What is hard |
|---|---|---|---|
| `threads.Group` (`src/threads/group.go`) | tasks, `queue` (a channel of slots), `fastFail`, `cleanup`; per call of `Run` two contexts, `taskCount`, `returnError` under `errorAccess` | `Append`, `Append0`, `FastFail`, `Concurrency`, `Cleanup`, `Run` | one goroutine per task, a limit, cancellation from three sides, `g.queue` read again after the call has returned |
| `threads.SubHub` (`src/threads/sub.go`) | `subscribers[topic][id]` under `access`; one channel per subscriber; a package-level id counter | `Subscribe`, `Unsubscribe`, `Publish`, `PublishN`; on the subscriber `Channel`, `Unsubscribe` | receivers and `close` run outside the mutex, full queues drop, the counter is shared by all hubs |
| `singleflight` (`src/enhancements/singleflight/singleflight.go`) | `g.m[key]`, and per call `val`, `err`, `dups`, `chans`, a WaitGroup | `Do`, `DoChan`, `Forget`, `doCall` | join and forget race with the end of a call; panics and `runtime.Goexit` in the function; `dups` read without the mutex |
| copy: splice and generic (`src/enhancements/iolib/copy.go`, `splice_linux.go`) | a pool of kernel pipes with what is in them; per copy the bytes read, left to write, counted | `copyPure`, `splice`, `copyGeneric`, `getPipe`, `putPipe` | pipes are shared one after another; partial writes; errors in the middle; fallbacks; the finalizer |
| copy: cached readers and handshakes (`copy.go`, `cache.go`) | a chain of readers with a buffer each, its references, the list of buffers to write | `BufCachedReader.Read`, `ReadCache`, `PickReaderCacheList`, `copyEarly`, `CopyCounters` | who holds which reference, when memory goes back, what is counted when a step fails |
| `buf` (`src/buf`) | cursors `r`, `w`, `size`, `ref`, `data` of a buffer; the free lists of the allocator; the deprecated `Pool` | 25 methods of `Buffer`, `Get`/`Put` of the allocator and the pool | long sequences of legal calls, sizes at powers of two, use after `Free` |
| `sysmetrics.Collector` (`src/sys/sysmetrics/collect.go`) | `done`, a SubHub, a Group of producers | `Start`, `Collect`, `Close` | the order of `Start`'s goroutine, `Close`, and the end of the group |
| `iolib.BufWriter`, `SafeWriter` (`rw.go`) | a `Buffer` in front of a writer; a mutex | `Write`, `WriteString`, `WriteByte`, `ReadFrom`, `Flush`, `UnderlayWriter`, `Close`, `Free` | a flush that fails half way and is tried again, `Close` without a flush |
| `iolib/counter`, `iolib/underlay`, closers | the counters of a reader or writer | `NewReader`, `NewWriter`, the unwrapping loops, `Read`, `Write` | a loop without progress, a counter told twice |
| `registry` (`src/registry/context.go`) | `serviceTypes` under `access`, one registry per context tree | `NewServiceContext`, `ContextWith`, `MustContextWith`, `ContextFrom`, `ContextFromPtr`, `Register`, `Get` | a service that is replaced while others use it |
| `services` (`src/services/inf.go`) | none | `Start`, `Close` with hooks before and after | a half-finished start or close |
| `log/loghandler`, `log/metadata.go` | the metadata of a handler; the counter of anonymous keys; per record a BufWriter on the shared SafeWriter | `Handle`, `WithAttrs`, `NewMetadata`, `NewFixedMetadata` | records that share one writer, an error after the answer, a counter without a lock |
| the rest of `log`, `ex`, `values`, `maplib`, `slicelib`, `contextlib`, `pool`, `sysvars` | a default logger; none | formatting, error values, generic helpers | little: see section 8 |

How they interact:

* the Collector runs its producers in a Group and talks to them through a SubHub;
* `Copy` takes the buffers of a chain of cached readers (`buf`), writes them, and hands the rest
  to `copyPure`, which uses `splice` and falls back to `copyGeneric`;
* the console handler writes each record through a `BufWriter` of its own to one `SafeWriter`;
* a Collector is a service: it is found in a registry and started and closed by `services`;
* `BufWriter` and `Copy` take their memory from `buf`, and `buf` and
  `splice` keep free memory and free pipes in a `sync.Pool` (`enhancements/pool`);
* `SafeWriter` and `SubHub` answer the interface `threads.Safe`.

What makes each part correct is in section 4, property by property; the places where it could
go wrong are listed, line by line, under `hazards` in `PROJECT.json`.

## 2. Modules

| Module | Models | Role |
|---|---|---|
| `RunPromise` | nothing in particular: what a caller of `Group.Run` may rely on | abstract specification |
| `ThreadGroup` | `threads.Group` | specification; implements `RunPromise` |
| `ThreadGroupProofs` | - | theorems about `ThreadGroup`, and that it implements `RunPromise` |
| `SubHub` | `threads.SubHub` and its channel subscribers | specification |
| `SubHubProofs` | - | theorems about `SubHub` |
| `SingleFlight` | `singleflight.Group` | specification |
| `SpliceCopy` | `copyPure`, `splice`, `copyGeneric`, the pool of pipes | specification |
| `SpliceCopyProofs` | - | theorems about `SpliceCopy` |
| `SingleFlightProofs` | - | theorems about `SingleFlight` |
| `CachedCopy` | `BufCachedReader`, `copyEarly`, `CopyCounters`, `counter.Reader` | specification |
| `CachedCopyProofs` | - | theorems about `CachedCopy` |
| `ByteBuffer` | `buf.Buffer`, the allocator, `buf.Pool` | specification |
| `ByteBufferProofs` | - | theorems about `ByteBuffer` |
| `BufWriter` | `iolib.BufWriter`, any number of them on one `SafeWriter` | specification |
| `ConsoleLog` | the console handler and metadata, on top of `BufWriter` | composition (EXTENDS) |
| `ConsoleLogProofs` | - | theorems about `BufWriter` and `ConsoleLog` |
| `Collector` | `sysmetrics.Collector` | actions, used by `Services` |
| `Services` | `registry`, `services`, and the Collector as one of the services | composition (EXTENDS) |
| `ServicesProofs` | - | theorems about `Services` and `Collector` |
| `MC...` | - | the values and the symmetry sets for TLC |

Conventions. A variable has the name of the field it stands for where there is one. Every
action is one critical section, or one step between two points at which another goroutine can
see or change something. Operators ending in `Slip` are the definition that follows them with a
plausible mistake in it (a lost guard, an off-by-one, a forgotten reset); no specification uses
them, and each property was seen to fail when its slip takes the place of the definition.
Data is abstracted to what the properties tell apart: a task's error is the name of the task, a
byte of a stream is a numbered unit, a buffer's contents are its cursors. Wording, formatting
and logging are left out.

## 3. How state and actions correspond to the code

**ThreadGroup.** `tasks`, `fastFail`, `cleanup` are the fields; `g.queue` is its capacity
(`limit`, `NoQueue` while the channel is nil) and its length (`tokens`). `holding` and `foreign`
are history: which goroutines took their slot from the present channel, and how many slots came
into it from elsewhere. Per call of `Run`: `ctx` (the caller's context), `cause` (why
`taskCancelContext` is done), `finished` (`taskContext` is done), `roster`, `count`, `errs`, the
program counter `main` of `Run` and `pc` of the goroutines. The section under `errorAccess` is
`CountDown`; the two cancels after it are `CancelLast` and `Finish`, since the lock is released
in between; the skip branch cancels inside the lock and is one action. The select of `Run` is
two actions, both enabled when both channels are ready. A context cancels its children after its
own channel is closed (`Propagate`). The owner may build the Group between calls, also while
goroutines of a call that has returned are still to give their slots back (`Quiet`).

**SubHub.** `busy[h]` says what the holder of the mutex of hub `h` is doing; `Subscribe` is three
steps because `internalSubscriberID++` and the read after it are not atomic between hubs.
`PublishN` is one step per subscriber, so receivers (`Receive`, `Park`) and `CloseSubscriber` run
in between. A channel is `queue`, `capacity`, the receivers `parked` on it, and `closed`.
`addressed`, `offered`, `dropped`, `answers` record what became of each published value.

**SingleFlight.** A call is named after the caller that made it. The lookup in `Do` and `DoChan`
with the join or the creation is one critical section; the function's end and the deferred
function of `doCall` are one step each; `return c.val, c.err, c.dups > 0` is a step without the
mutex. A panic with channels waiting leaves the mutex locked (`stuck`) until the process dies
(`crashed`).

**SpliceCopy.** One step per `splice(2)` call, per return, and per update of the counters. A pipe
keeps what is in it when it goes back to the pool. `Data(p)` is the field `data`, which no
statement assigns. The generic copy is one step per read-and-write pair. `EAGAIN` is a wait.

**CachedCopy.** A `Read` on the outermost reader is one step, since a chain is read by one
goroutine; `Copy` is one step per handshake, for `PickReaderCacheList`, per buffer written, and for
`copyPure`. Between any two steps, those of a `Copy` too, the owners of buffers may free them and the
other holder may release its reference (`FreeApart`): a buffer that `Copy` has picked and not yet
written is then `snatched`, and its `WriteTo` panics. One `Read` or `WriteTo` of one buffer is a step
of its own, as `buf.Buffer` is not made for use by two goroutines at once (`buffer.go:16`).
`copyPure` answers as `copy.go:58-76` and its callees can: at the end of the stream or before it, with
an error or with one that Is `io.EOF`, which line 40 swallows (`rest`); after a part was spliced, whose
count the generic copy replaces (`forgot`); or with a splice whose last round was not counted. There
may be a `counter.Reader` around the chain and one under it (`wrapped`): `told` is what their own
counters have been told, `counted` what the counters that `Copy` found were told by its parts, and
`appended` is how often `counter.NewReader` has put the outer's counter into the inner reader (the
fast path at `counter/rw.go:74`). After an error the user may read on or try again (`TryAgain`).

**ByteBuffer.** One action per method, grouped where methods do the same to the state (`Write`
stands for `Write`, `ReadFrom`, `ReadFromOnce`; `Read` for `Read`, `WriteTo`, `WriteToOnce`). A
call that slices out of range is the action `Panic`. Freed names are used again for new buffers.

**BufWriter.** `data` and `r` are the bytes up to the write cursor and the read cursor of the buffer. A
call is its first test and what it does up to the first `Write` of the sink, then one step per such
`Write`, which takes any number of the units it is given and fails unless it takes all; so calls of
several writers interleave at the sink, where `SafeWriter` has its mutex. The caller offers the units
1, 2, 3 ..., each time from the unit after those that the answers so far said were taken (`said`, and
`n` inside `ReadFrom`): that is how a caller that retries behaves. `jammed`, `lost` and `passed` are
history.

**ConsoleLog.** A record is the sequence of the calls that `Handle` makes on its BufWriter (`Calls`): a
record is abstracted to the lengths of its level, its message and the number of its attributes.
`Format` is one such call, with the test of `state.Err` before it; `FreeState` is the deferred `Free`,
after the answer is known. `anonymousKey++` and the read after it are `LoadKey`, `StoreKey`,
`NewFixedMetadata`. `UniqByLast` and `WithMetadata` translate the two functions that merge metadata.

**Collector and Services.** `Start` returns before its goroutine makes `c.done` (`MakeDone`); a producer
subscribes, handles tasks, leaves; `CloseDone` is the `close(c.done)` that the end of the group
and `Close` share. The ways in which the process can die are the values of `crash`. In `Services`
each registry function is one step, as it holds the lock of one registry once; `services.Start` and
`Close` are one step per hook or method, so that two goroutines may start and close one service at a
time. The service `metrics` has the Collector's methods, the others only succeed or fail: `Runs` says
of these what their methods made of them (`up`), but of the Collector what `runOnce` and `c.done` say,
whatever was answered. `Register` takes any value under any key, nil included: `form` is what kind of
value is there, and `Look` the type assertion on it, which panics on another kind. A goroutine
has a pointer to what it was given, made or found (`holds`), also when the registry has replaced it.

## 4. What the runs check and show

Passing runs:

| Run | Instance | Distinct states | Properties |
|---|---|---|---|
| `group_safety` | 2 calls of `Run`, 2 tasks, `Concurrency` 0 or 1 | 2.6 million up to symmetry | `RunWaitsForTasks`, `NoErrorLost`, `NilMeansAllRan`, `SlotsConserved`, `ConcurrencyBound`, `CauseIsTrue` |
| `group_progress` | 1 call, 3 tasks, `Concurrency` 0 or 1, fairness | 100,646 | `Promise`, `CancelledRunReturns`, `FinishedTasksEndRun` |
| `subhub` | 1 hub, 2 topics, 2 subscribers, queues of 0 or 1, 2 values, fairness | 555,505 | `OrderedDelivery`, `StaysRegistered`, `PanicNeedsMisuse`, `NothingAfterUnsubscribe`, `PublishEnds` |
| `singleflight` | 3 callers, 2 keys, fairness | 291,893 | `OneInFlight`, `SharedIsTrue`, `FailureReachesAll`, `NeverStale`, `EveryCallerEnds` |
| `splice` | 3 copies of 3 chunks, 2 pipes | 653,034 up to symmetry | `PipeExclusive`, `CleanCopyExact`, `CountsTrue` |
| `cached` | a chain of up to 2 readers, 2 units each, 2 units behind, 2 calls of `Copy`, fairness | 241,374 | `TypeOK`, `LiveWhileNeeded`, `StreamKept`, `CountsTrue`, `CopyReturns` |
| `buffer` | 2 buffers, 2 chunks, classes of 2 and 4 bytes, sizes 0, 1, 3, one reference | 872,722 up to symmetry | `TypeOK`, `CursorsOrdered`, `ChunkOnce` |
| `console` | 2 goroutines, a buffer of 3 units, 3 records, 2 metadata each; or one user, 4 units | 122,000 up to symmetry | `StreamKept`, `AnswerIsTrue`, `RecordsUnbroken`, `HandleTold`, `MetadataLatest`, `AnonymousKept` |
| `services` | 2 goroutines, 2 services (one the Collector with 2 producers), 1 type, 5 calls, fairness | 1.56 million | `ServicesAccounted`, `AnswerTellsState`, `PanicNeedsCause`, `CloseIsHeard` |

The type invariants of all modules are proved (section 6); most runs spend their properties on the rest.

* `group_safety` shows that `Run` never returns while a task is unsettled, that no task's error is
  lost (unless the caller cancelled and `Run` says so), that a nil answer means success of all,
  and that no slot of a channel is lost: each is in it, still to be put there, or owed by a goroutine
  that has yet to give one back. Slots may be gained: a goroutine that outlives its call gives its
  slot to whatever channel `g.queue` is by then, so after a later `Concurrency(n)` up to `foreign`
  more tasks than n may run.
* `group_progress` shows that `ThreadGroup` implements `RunPromise`, and that a call ends when it is
  cancelled, or when its tasks do. Two cases wait for ever and are excluded by name: `Run` without
  tasks that nobody cancels (nothing counts down to zero), and `Concurrency(0)`.
* `subhub` shows that publishing never blocks, drops only for want of room, keeps the order per
  subscriber, answers the number of those it offered to, and that taking a subscriber out of the hub
  before closing it is always safe.
* `singleflight` shows duplicate suppression through panics, `Goexit` and `Forget`, and that a caller
  which ends, ends the way its function did, with the result, the panic or the `Goexit`. A listener of
  `DoChan` whose function calls `Goexit` is never answered; the property names that exception.
* `splice` shows that pipes are used by one copy at a time and that copies are exact, in any
  interleaving, as long as no write has failed; and what is counted in every case. When a splice gives
  up after some rounds, the generic copy goes on from there, but the n that `copyPure` returns leaves
  those rounds out, while the counters were told of them (`spliced` in `CountsTrue`).
* `cached` shows who holds which reference, that the stream is delivered in order and without a gap over
  all calls, and what the counters are told. It has these exceptions by name:
  - a buffer that `Read` emptied loses a second reference when `Copy` picks it, which may free it under
    another holder (`robbed`);
  - from `ReadCache` to `WriteTo` the picked buffers have no reference of `Copy`: if an owner or the last
    holder frees one meanwhile, its data is gone and `Copy` panics (`snatched`);
  - without a base reader, a `Read` of more than is cached loses what it took from the last buffer
    (`hasBase` in `StreamKept`) and `Copy` panics;
  - an error of `copyPure` that Is `io.EOF`, of the destination too, makes `Copy` answer nil before the
    end of the stream (`rest` in `StreamKept` and `CountsTrue`);
  - a write of a buffer that fails counts in n and not in the counters ("writeCache" in `CountsTrue`),
    and the n of a splice that gave up is forgotten (`forgot`);
  - `Copy` never returns from a `WriteCounter` with no writer under it;
  - a reader that is used again after a `Copy` that appended to its counters is counted twice (`again`).
* `buffer` shows that memory is in one place only, and that a panic needs a buffer that was freed,
  shrunk below `w` with `Resize`, or grown past its data with `Truncated`.
* `console` shows that a BufWriter keeps the stream of its caller through partial and failed writes and
  retries (but for what goes through `UnderlayWriter` past a full buffer), that an error is told before
  the answer or lies in the last `Flush`, that records are not mixed as long as they fit the buffer, that a
  handler has the latest value of every key, and that anonymous metadata lose their key only to others
  made at the same time.
* `services` shows what becomes of a replaced service, what the answers of `Start` and `Close` say about
  whether a service runs, and that each panic of the Collector and of the registries has the cause the
  property names: among them a second `Close`, `Close` before the end of the group, the first collected
  task, and something else than a T that `Register` has put under `*T`. Of the Collector the answers say
  less, and `CollectorTells` names the cases: its context may end it at any time; a `Start` after a
  `Close` that was heard answers nil and starts nothing (`runOnce`, `collect.go:110`); and a `Close`
  before the goroutine of `Start` has made `c.done` answers nil and stops nothing (`deaf`, line 214).
  Every other `Close` is heard.

Violation runs, each one property that a comment or a test of the repository states and the code
does not keep (`findings` in `PROJECT.json` quotes the lines):

| Run | Property | What TLC finds |
|---|---|---|
| `subhub_ids` | `StaysRegistered` | two hubs that subscribe at once set the shared counter back; a later subscriber of one hub gets the id of an earlier one and evicts it |
| `splice_residue` | `PooledPipesEmpty` | after a failed write the pipe goes back into the pool with data in it: the test for that data reads a field that nobody sets |
| `splice_fallback` | `NoPipeFallsBack` | without a pipe `splice` says it handled the copy, and the copy fails instead of falling back |

### Bounds, and why they are enough

* Two calls of `Run` are needed for slots that outlive their call and for overlapping calls; two
  tasks and one slot for waiting, skipping and handing on; three tasks (in `group_progress`) for a
  task that is skipped while one runs and one is counted. `MaxSlots = 1` makes the limit bite
  with two tasks; 0 is the unbuffered channel.
* Two subscribers and two topics give the wrong-topic, the wrong-subscriber and the n-smaller-
  than-the-topic cases; two values the order; a queue of one value can be full. `subhub_ids` has
  four subscribers because the lost update needs an id to be given, the counter to be set back and
  the id to be given again. It publishes nothing.
* Three callers are the creator, one who joins, and one who comes after `Forget`; two keys show that
  keys do not disturb each other.
* Three copies and two pipes: a pipe passes from one copy to another while a third holds the other.
  Three chunks allow a partial write that is followed by another read.
* A chain of two readers has an inner and an outer one; two units per buffer allow half-read
  buffers; requests go up to one unit more than there is; the second `Copy` is the retry.
* A buffer of 3 units and pieces of up to 4 have every comparison with the capacity and with the room that
  is left; 4 units (`MaxUnits`) fill the buffer and start it again. A record that just fits, one in seven
  pieces, and one with a message as long as the buffer (`MCRecords`) are the cases of
  `RecordsUnbroken`. `Roles` leaves out goroutines that use the writer beside others that log: the two
  share only the steps at the sink, which two loggers show.
* Two metadata per goroutine are in one `WithAttrs` or in two, with names that are equal or not.
* Five calls (`MaxOps`) are two registrations, a start and two closes, or a context that is passed on with
  a start, a close and a collect; one type makes services replace each other.
* Two classes of chunks and sizes below, at and between them; two buffers compete for a chunk.
* `MaxValues`, `Length`, `MaxRef`, `Sizes`, `MaxCopies`, `MaxUnits`, `MaxPiece`, `MaxMeta` and `MaxOps`
  bound what a user asks for, nothing the code does by itself.

Symmetry (tasks and calls, subscribers and topics, copies and pipes, buffers and chunks, writers) is used
in runs without temporal properties only. `CHECK_DEADLOCK FALSE` is set everywhere: each system
comes to rest when its users ask for nothing more, and the states in which the process has died
have no successor. That nothing is stuck for another reason is what the liveness properties say.

## 5. Fairness

* `ThreadGroup`: weak fairness of every step of `Run` and of the goroutines, because the Go scheduler
  runs what can run and a blocked channel operation proceeds when its channel stays ready. A task's
  function is assumed to return only once its context is cancelled (that is what the context is
  for), or in `FinishedTasksEndRun` under the explicit hypothesis that no task runs for ever. The
  owner and the caller owe nothing.
* `SubHub`: weak fairness of the steps of the holder of a mutex; receivers owe nothing.
* `SingleFlight`: weak fairness of the deferred function, of callers whose call is done, and of the
  panic that ends the process; the function may run for ever.
* `CachedCopy`: weak fairness of the steps of `Copy` after the handshake: a read or write of it returns. A
  handshake waits for a peer and is not fair, the user owes nothing.
* `Services`: weak fairness of what the goroutine of `Start` and the producers do when `c.done` or their
  context is done; callers owe nothing.
* The other modules state safety only.

## 6. Proofs

### `ThreadGroup`

`ThreadGroupProofs` proves, for all finite sets `Runs` and `Tasks` and every natural `MaxSlots`
(`GroupAssumption`):

| Theorem | Statement |
|---|---|
| `TypeCorrect` | `Spec => []TypeOK` |
| `SettleCorrect` | `Spec => []SettleInv` |
| `RunWaits` | `Spec => []RunWaitsForTasks` |
| `ErrorsComplete` | `Spec => []NoErrorLost` |
| `NilIsSuccess` | `Spec => []NilMeansAllRan` |
| `CauseTrue` | `Spec => []CauseIsTrue` |
| `SlotsCorrect` | `Spec => []SlotInv` |
| `SlotsAreConserved` | `Spec => []SlotsConserved` |
| `BoundedConcurrency` | `Spec => []ConcurrencyBound` |

None of the safety properties is inductive by itself. `RunWaitsForTasks` follows from `finished`,
but why `finished` implies that all is settled needs the counter: `SettleInv` therefore says
(`CountInv`) that `count[r]` is the number of tasks whose goroutine still counts (`Pending(r)`),
(`RosterInv`) that goroutines exist only for the tasks of a started call, and for all of them once
`Run` has left its loop, (`EndInv`) that nothing is pending when a goroutine is about to end the
contexts, or when `finished` holds, (`ErrorInv`) that `errs` are the failures but for those not yet
counted, and (`StopInv`) that each cause is true and a task is skipped only after a cancellation.
Each part needs the others: a goroutine may set `finished` only because the counter is right, and
the errors are complete only because nothing is pending when `finished` holds.

For the slots, `SlotInv` is their balance (`Balance`: what is in the channel, held and to be filled in
is n and the foreign ones) together with `HolderInv`: who is in `holding` is in a control state between
taking and giving back, and a running task of a limited Group holds a slot. `SlotsConserved` follows
from both: the holders are among those that have yet to give a slot back (`Owing`), so what is not in
the channel is owed by somebody who will. The bound on running tasks is arithmetic: they are a subset
of `holding`, and the balance bounds its cardinality.

`QuietMeansIdle` links the two: `Concurrency` replaces the channel only while no task runs, which
follows from `SettleInv`.

Each invariant has a lemma (`SettleStep`, `SlotStep`) with one step per action, and under it one per
conjunct that the action can disturb; actions that leave the variables of the invariant alone share
a step. A theorem then combines initial states, steps and the temporal rule. The facts about
cardinalities come from `FiniteSetTheorems`.

### `ThreadGroup` implements `RunPromise`

The end of `ThreadGroupProofs` has two theorems about the promise, from the same assumptions:

| Theorem | Statement |
|---|---|
| `CallCorrect` | `Spec => []CallInv` |
| `PromiseKept` | `Spec => Promise`, where `Promise` is the abstract specification under the mapping `Abstract` |

`PromiseStep` maps each step: the step of a goroutine in which a function returns, or in which it is
skipped, settles its task; the step that cancels the tasks' context, by whomever, is the abstract
stop; `Return` is the answer; and all else, such as slots, counting and the two cancels at the end,
is no step of the promise (`MoveKeepsOutcomes`). That the abstract guards hold when the concrete
step happens needs the invariants: `Run` answers only when each member has an outcome, which is
`SettleInv` (`SettledMeans` restates it in terms of outcomes), and an answer must have a reason to
stop, which is `CallInv`: whoever ends `taskContext` cancelled the tasks' context before, and was a
task's goroutine.

### `SubHub`

`SubHubProofs` proves, for any hubs, topics, finite set of subscribers and length of their queues
(`HubAssumption`):

| Theorem | Statement |
|---|---|
| `HubTypeCorrect` | `Spec => []TypeOK` |
| `HubCorrect` | `Spec => []HubInv` |
| `PanicsNeedMisuse` | `Spec => []PanicNeedsMisuse` |
| `RemovedGetNothing` | `Spec => NothingAfterUnsubscribe` |
| `DeliveryIsOrdered` | `Spec => []OrderedDelivery` |
| `OneHubKeepsSubscribers` | with one hub, `Spec => []StaysRegistered` |

`HubInv` says what the mutex is for: a hub lists a subscriber only where it was made for
(`ListInv`), the one a `Subscribe` is about to register is nobody else's (`SubscribeInv`), a
`PublishN` under way has before it only subscribers that are still listed (`PublishInv`), who was
taken out stays out (`RemovedInv`), and a closed channel is out of its hub unless its user misused
it (`CloseInv`). A panic then needs a misuse because a send goes to a listed subscriber.

`OrderedDelivery` relates what a receiver has taken, what is queued, what was offered and what the
calls have answered, while a `PublishN` is under way and other hubs publish between two of its
sends. `DeliveryInv` adds what is true in the middle: `Offering(h)` says that the call under way has
a value of its own, has offered it to those of `addressed` that are not in `left`, has counted them,
and that this value is above all that those in `left` have; two calls under way have different
values (`OfferInv`), and a call that is over has told its count (`AnswerInv`). The order of the
channels follows from the third: a value is appended only to a channel whose values are all smaller
(`ArrivedInv`, `AppendedLast`), because the mutex lets nobody else publish to those subscribers in
between. Here the mutex is used with `ListInv`: a subscriber is listed in one hub.

`StaysRegistered` is false of two hubs: the run `subhub_ids` shows it, and it is a finding. The
theorem says that this is the only reason: with one hub (`OneHub`) the increment of
`internalSubscriberID` and the read after it are both under the one mutex, so the ids differ and a
new one is above all others (`IdInv`), and no subscriber takes the place of another.

### `SpliceCopy`

`SpliceCopyProofs` proves, for any sets `Copies` and `Pipes`, finite or not, and sources of any
length (`LengthAssumption`; `NoPipeAssumption` says that the absence of a pipe is no pipe):

| Theorem | Statement |
|---|---|
| `FlowCorrect` | `Spec => []FlowAndPipes` |
| `PipesAreExclusive` | `Spec => []PipeExclusive` |
| `CountsAreTrue` | `Spec => []CountsTrue` |
| `TypeCorrect` | `Spec => []TypeOK` |
| `ExactCorrect` | `Spec => []ExactInv` |
| `CopiesAreExact` | `Spec => []CleanCopyExact` |

`PipeExclusive` is inductive with the types (`ExclusiveStep`). The counts are not: that `n` is what
the destination got needs to know, in the middle of a round, how many chunks are still in the pipe.
`Flow(s)` therefore accounts in each state of a copy for the chunks that left its source: delivered,
or still to be written (`left`), or read but not yet counted (`readN`), and it says that the pipe
holds at least `left` chunks. It is true after a failed write too: how many chunks arrive does not
depend on whose they are, which is why `CountsTrue` holds where exactness is lost. When a splice gives
up, what it had delivered moves from `n` to `spliced`, and the account goes on with the sum.

For exactness, `ExactInv` says what is in the pipe. As long as no write has failed, a pipe in the
pool is empty, one that is about to be filled is empty, and one that is being emptied holds the part
of the source from what was delivered to what was taken. Failed writes are for ever
(`FailuresStay`), so a step into a state without one starts in a state without one, and the
invariant may be used. The step for a partial write splits that part in two (`SplitPart`) and
appends the front to what was delivered (`Adjacent`). `ExactInv` contains the claim of the comment
that the run `splice_residue` refutes, under the hypothesis that makes it true: without failed
writes, pooled pipes are empty.

The steps of the other copies and of the garbage collector are dealt with once (`OthersUntouched`,
`NoneUntouched`): copies work with pipes of their own.

### `SingleFlight`

`SingleFlightProofs` proves, for any finite set `Callers` without `NoCall` (`CallerAssumption`) and
any `Keys` without `NoKey` (`KeyAssumption`):

| Theorem | Statement |
|---|---|
| `FlightCorrect` | `Spec => []Inv` |
| `TypeCorrect` | `Spec => []TypeOK` |
| `OneIsInFlight` | `Spec => []OneInFlight` |
| `SharingIsTrue` | `Spec => []SharedIsTrue` |
| `FailureIsTold` | `Spec => []FailureReachesAll` |
| `NothingStale` | `Spec => NeverStale` |

`Inv` says how the pieces of a call hang together: who waits for a call names it (`Linked`), the map
holds only calls that are not over, each under its own key (`Mapped`), what was decided when a call
ended is never undone (`Over`), the listeners of a call are those of `DoChan` that joined it
(`Listening`), and `dups` is the number of the callers that joined (`Counted`). Two calls of one key
in flight cannot both be in the map, so one was forgotten; `shared` is true because the count that
it compares with 0 is that of the joiners and no caller can join a call that has left the map (which
is what makes the unlocked read at line 114 of `singleflight.go` harmless). `FailureReachesAll` needs
two parts of its own: who has panicked or exited did so because its function did (`Told`; who returned
had a result, which is part of `SharedIsTrue`), and who waits for a call that is over waits for the
process to die, for a Goexit, or is about to return (`Waits`).

### `BufWriter`

The first part of `ConsoleLogProofs` proves, for any set `Writers`, any capacity above 0
(`SizeAssumption`) and any bounds (`BoundsAssumption`):

| Theorem | Statement |
|---|---|
| `WriterCorrect` | `Spec => []Inv` |
| `TypeCorrect` | `Spec => []TypeOK` |
| `StreamIsKept` | `Spec => []StreamKept` |
| `AnswersAreTrue` | `Spec => []AnswerIsTrue` |

`StreamKept` is nearly inductive: each step moves units between the caller, the buffer and the sink,
and the lemmas about sequences (`UnitsConcat`, `PendingStore`, `StoreKeeps`, `PassKeeps`) say that
the pieces fit. It needs to know that nothing is in the buffer whenever a call writes past it, and
that nothing is thrown away before `Free`: `Control` says that the cursors have met in the states
"flushed", "read" and "direct", but for a user of `UnderlayWriter` after a failed `Flush` (who sets
`passed`). `Answer` ties the read cursor to `jammed`: the cursors meet behind the first unit only
after a write that took everything and failed.

The lemmas are about one call of one writer (`CallStep`, `ProceedStep`), not about the
specification, so they serve for the calls that a handler makes too.

### `ConsoleLog`

The second part of `ConsoleLogProofs` proves, for any records whose lengths are numbers
(`RecordsAssumption`), and any `Writers`, `Names` and capacity:

| Theorem | Statement |
|---|---|
| `LogCorrect` | `LogSpec => []LogInv` |
| `LogKeepsStreams` | `LogSpec => []StreamKept` |
| `LogAnswersAreTrue` | `LogSpec => []AnswerIsTrue` |
| `RecordsStayWhole` | `LogSpec => []RecordsUnbroken` |
| `HandleTellsTrue` | `LogSpec => []HandleTold` |
| `MetadataIsLatest` | `LogSpec => []MetadataLatest` |
| `AnonymousKeysKept` | `LogSpec => []AnonymousKept` |

`LogInv` has four parts.

* `Inv` of `BufWriter`: each step of a handler on a writer is a call of `BufWriter`, a step of a
  call in progress, or nothing (`WriterSteps`), and `WriterStep` applies the lemmas of the first
  part to it.
* `MetaInv`: the metadata of a handler have no key twice and are, as a set, the last of each key
  among all it was given (`LatestOf`). `UniqByLast` and `WithMetadata` are folds over sequences.
  What the first keeps is ranked by a set of positions (`Ranks`, `UniqKeepsLast`); `Put` replaces or
  appends (`PutReplaces`), and `LatestOfBoth` says that to merge is to take the latest of both.
* `KeyInv`: the lost update of `anonymousKey`. Of two goroutines that are making a key both are in
  `raced`; a number made by one alone is below what anybody else can make next, whatever is loaded
  and not yet stored.
* `RecordInv`: what of a record has been said, what the call in progress offers, and what is still
  to do are the whole record as long as no call has failed; and if the record fits the buffer
  nothing has left it before the last `Flush`. `HandleTold` and `RecordsUnbroken` are the ends of
  that account.

The operators are folds, and a fold is a recursive function chosen by its equation. That a function
with that equation exists is proved for each length (`FoldExists`); what one step of it does is then
its equation (`SumSteps`, `PutSteps`). Where an induction is needed the proof takes the least number
at which the claim fails (`SmallestOf`, `Climb`), which needs no rule with an operator parameter.

### `CachedCopy`

`CachedCopyProofs` proves, for chains of any length with buffers of any size above 0 and any number
of copies (`BoundsAssumption`):

| Theorem | Statement |
|---|---|
| `CacheTypeCorrect` | `FairSpec => []TypeOK` |
| `BuffersLive` | `FairSpec => []LiveWhileNeeded` |
| `StreamIsKept` | `FairSpec => []StreamKept` |
| `CountsAreTrue` | `FairSpec => []CountsTrue` |

One number determines most of the state: c, the units that have left the readers. Buffer i then has
what is ahead of c up to its end and not up to the end of the buffer under it (`AtUnit`), the base
reader has the rest (`Base`), what was got and what was lost are the first c units between them, the
first of these in order (`Stream`), and the counters have been told of c, or of less after a failure
(`Tally`: nothing is lost as long as the course of `Copy` is `Whole`, c is all of the stream when it is
`Complete`, and the outer counter has c unless a write of a buffer failed, `Written`). The invariant says
that there is such a c. A `Read` of q units, a buffer that is written,
and `copyPure` each add to c; `AnswerIs` says what a `Read` takes from where in a chain of any
length, and `ReadLeaves` what it leaves. `Left` and `Cached` are recursive functions over the chain:
they are shown to exist and to answer by position (`LeftIs`, `CachedIs`), by the least reader at
which they would not.

The other parts are about one buffer at a time (`BufferInv`): its references are its reader's and the
other holder's, less the one that is taken twice, and it is live as long as one of them needs it, or
`Copy` has picked it and nobody snatched it (`FreeApartIs` is the one lemma for all who free from
outside, at whatever point of a `Copy`); about where `Copy` is (`ControlInv`): all readers have their
buffers or none has, how often the counters were appended; and about its two counters (`CountInv`). Each
action has a lemma for the buffers (`...Buffers`) and one for the whole (`...Inv`); what the deferred
function frees leaves the stream in one piece (`FreePickedMoves`), after a failed write and after a
panic.

### `ByteBuffer`

`ByteBufferProofs` proves, for any buffers, chunks, sizes and classes (`BitsAssumption`,
`NamesAssumption`, `SizeAssumption`):

| Theorem | Statement |
|---|---|
| `BuffersCorrect` | `Spec => []BufferInv` |
| `BufferTypeCorrect` | `Spec => []TypeOK` |
| `CursorsStayOrdered` | `Spec => []CursorsOrdered` |
| `ChunksHaveOneOwner` | `Spec => []ChunkOnce` |

`ChunkOnce` promises that `Put` finds the class a chunk came from. That needs the memory of a chunk
to be a power of two and the class to be determined by it: powers with different exponents differ.
The provers know nothing of powers, so 2^n is counted as the subsets of 1 .. n (`PowerCounts`), a
bijection shows that one more element doubles them (`PowerDoubles`), and that powers grow follows by
a least counterexample (`PowerGrows`). `MsbCorrect` and `GetClassFits` say what the index computed
from a size is: a class that is large enough, and not twice too large unless it is the smallest.
`MemoryInv` is then `ChunkOnce` with the length that a buffer claims of its chunk.

`CursorInv` separates what is true of every buffer (it never claims more memory than it has, even
after a misuse) from what is true of those that were not misused (the cursors are in order). The
first part is needed because `Reset` makes a misused buffer sound again.

### `Services` and `Collector`

`ServicesProofs` proves, for any services, any finite sets of goroutines and types, any producers,
any length of their channels and any number of calls (`ServicesAssumption`, `CollectorAssumption`):

| Theorem | Statement |
|---|---|
| `CollectorTypeCorrect` | `ServicesSpec => [](TypeOK /\ crash \in Panics)` |
| `ServicesTypeCorrect` | `ServicesSpec => []ServicesTypeOK` |
| `ServicesAreAccounted` | `ServicesSpec => []ServicesAccounted` |
| `AnswersTellState` | `ServicesSpec => []AnswerTellsState` |
| `PanicsHaveCause` | `ServicesSpec => []PanicNeedsCause` |

`StepOfCollector` says that each step of the composition is a step of the collector or leaves it alone,
so what is proved of the collector needs one case per operation of it. `ServicesAccounted` is inductive
with the types: `ReplaceAccounts` moves one place from the old service to the new one and counts both.
`AnswerTellsState` speaks of the moment after a call; `CallInv` adds what is true during one: only one
call of the service is in progress, and `up` is what it was at the begin until the method has run, and
what the method made of it after. The Collector may end while nobody calls it: `CollectorCallInv` says
the same of it with what may happen meanwhile. A step of the composition is a `Start`, a `Close`, or a
drift that neither starts nor closes it (`StepHears`), and a drift ends it only after its context was
canceled (`DriftEnds`), because `EndInv` says that without a cancel and without a `Close` that was heard
no producer leaves and `c.done` stays open. For the panics, `Traces` says what must have happened for
the state to be as it is (a closed `done` needs a `Close` or the end of the group, a queued task a
`Collect` after the start, a producer that left a cancel or a `Close`); the step that panics then has
its cause, and nothing happens after it. The cause of the panic of `ContextFromPtr` is found by
`ServicesAccounted`: what is found in a registry has been placed.

### Induction without an induction rule

The induction theorems of the library take an operator as a parameter, which the provers cannot
instantiate. Where a claim about every number is needed (powers, folds, chains), the proof forms the
set of the numbers at which the claim fails, takes its least member (`SmallestOf`, from the
well-foundedness of <) and contradicts it; `Climb` does it once for claims about 0 .. k.

### Not proved

Only model-checked: the liveness properties (`CancelledRunReturns`, `FinishedTasksEndRun`,
`PublishEnds`, `EveryCallerEnds`, `CopyReturns`, `CloseIsHeard`), since fairness and `ENABLED` are
beyond the prover. The properties of the violation runs are false of the code. Every safety property
of a passing run, and the refinement `Promise`, is a theorem.

## 7. What the models assume

* A writer that takes fewer bytes than it was given returns an error, as `io.Writer` requires
  (`HandshakeWrite`, `WriteCacheFails`).
* A buffer made by `As` has the capacity of its length; counts below 0 are not asked for; nobody
  gives up a reference that was not taken (`ByteBuffer`; `CachedCopy` shows a caller inside the
  library that does).
* In `ThreadGroup` the builder methods are not called while a `Run` is in progress: they write
  fields that `Run` reads without a lock.
* The sizes that a program asks `buf` for are numbers and 0 is among them, the largest managed size
  is within the largest class, and the size of the deprecated `Pool` is valid (`SizeAssumption` of
  `ByteBuffer`). A buffer in a chain of readers is not empty (`BoundsAssumption` of `CachedCopy`),
  as `NewCacheReader` sees to.
* The counter of the ids of `SubHub` does not wrap (it is a `uint64`), and the subscribers of a
  program are finitely many (`HubAssumption`), as are the goroutines and types of `Services`.
* A subscriber's channel has one receiver; the values of `PublishN` are told apart by number.
* The comment in `src/buf/alloc.go:23-25` bounds the waste of the allocator by half; that is false
  below the smallest class, the exception `ChunkOnce` names.
* A `BufWriter` is not used after `Free` or `Close`, and by one goroutine at a time.
* The Collector has a producer, as its `Start` adds five (`CollectorAssumption`). A value in a registry is
  no T and a *T at once, which only T = any could make it.
* A hook that a service lacks is one that succeeds. The first services of `Services` are in one
  goroutine's hands; contexts are passed on as a whole.
* The counter of anonymous keys does not wrap; a torn read of it is not modelled.

## 8. Not modelled

* `src/log` beyond metadata (levels, attributes, the caller's source line) and what the pieces of a record say:
  the properties would be about text. `WithGroup` and attributes formatted ahead change text only. The two
  package variables of the default logger are assigned one after the other without a lock; nothing relates
  them but the wording of the source line.
* Closers and handshake interfaces (`close.go`, `handshake.go`): type assertions that choose a wrapper.
* `counter.Conn`: a reader and a writer that count, in one.
* `src/ex`, `src/values`, `maplib`, `slicelib`, `contextlib`, `pool`, `sysvars`: helpers without
  state, generated constants.
* The metrics the collector reads (gopsutil), and `WaitGroup`, `context`, `sync.Pool` beyond what the code
  uses of them.
* `splice_stub.go`: the other platforms always take the branch `StartGeneric`.

## 9. Plan

Order, the most important behaviour first:

1. *Done*: `ThreadGroup` with `RunPromise`, its runs and its proofs; `SubHub`; `SingleFlight`; the two
   halves of `Copy`; `buf`; a first `Collector`.
2. *Done*: `BufWriter`, the console handler on top of it, and metadata.
3. *Done*: the readers that count and both unwrapping loops, in `CachedCopy`.
4. *Done*: `registry`, `services`, and the Collector as a service.
5. `Collector` composed with the modules `SubHub` and `ThreadGroup` instead of its own abstraction of them.
6. An abstract specification for `SingleFlight` (each execution of a function serves the callers that
   joined it) and for `SpliceCopy` and `CachedCopy` (a stream that is a prefix of its source), with
   refinement runs.

Theorems to prove, in this order:

1. *Done*: the safety of `ThreadGroup`, `SpliceCopy`, `SingleFlight` and `BufWriter`.
2. *Done*: `ThreadGroup` implements `RunPromise`, from `SettleInv`, one step per action.
3. *Done*: `SubHub`, with `StaysRegistered` for one hub, from the ids being different and below the counter.
4. *Done*: `Services` and `Collector`: the account of the registries, the answers, the causes of panics.
5. *Done*: `OrderedDelivery` of `SubHub`: what was received and is queued is what was accepted, in order.
6. *Done*: `ByteBuffer`: cursors, and chunks with their classes.
7. *Done*: `ConsoleLog`, with its writers; metadata and anonymous keys.
8. *Done*: `CachedCopy`: the buffers, the stream and the counters, from the units that have left the readers.
9. That `SingleFlight` implements the abstract specification of part 6 of the plan above, from
   `SingleFlightProofs!Inv`.
