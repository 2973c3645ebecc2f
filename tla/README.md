# A verification of gjsify

gjsify runs Node.js and Web APIs on GJS, GNOME's JavaScript engine.  Its
packages reimplement the Node modules and the Web standards in TypeScript over
GLib, Gio, Soup and GStreamer.  This directory models the parts whose
correctness depends on the order of things: what a call does now, what it puts
off to a later tick, and what user code may do in between.

## The system

JavaScript runs on one thread, so nothing is preempted.  What interleaves are
*calls of user code*: the functions a user gives to a stream (`_write`,
`_read`), callbacks, event listeners, and the callbacks of GLib.  Each of
them may call the API again, and a completion may arrive within the call that
started it or at any time later.  Workers are processes; they interleave freely
and talk over pipes and sockets.

| Component | State | Operations | Hard part | What must hold |
|---|---|---|---|---|
| `gjs/utils` nextTick | one queue, an armed flag | nextTick, the drainer, its re-arming | a callback that defers more; one that throws | FIFO, each callback once, the queue is drained |
| `node/stream` Writable | four queues of writes, the write lock, end state | write, end, cork, uncork, destroy, the completions | sinks that answer at once or later, construction, cork | one write at a time, in order; finish last; drain follows |
| `node/stream` Readable | the buffer, flowing, ended, two scheduled flags | push, read, on, pause, resume, pipe, destroy, async iterator | scheduled flows that find the state changed | every chunk once and in order, end after the last |
| `node/stream` pipe, pipeline, finished | listeners | data, drain, end, close | the two ends disagree about backpressure | no chunk lost, a paused source is resumed |
| `node/stream` Duplex, Transform | both sides | the same, transform and flush | a writable side of its own, with its own cork and end | as for both sides |
| `worker_threads` MessagePort, `web/message-channel` | two queues, started, closed, moved | postMessage, start, close, transfer | transfer of a port with queued messages | delivered once, in order, to the port's present owner |
| `worker_threads` Worker | process, pipe, read loop, placeholders | postMessage, terminate, exit | messages that need a descriptor sent on a second channel | the n-th placeholder gets the n-th descriptor; exit once |
| `node/sab-native` | shared words, futex waiters | load, store, wait, notify | notify between the check and the sleep | no wake-up is lost |
| `node/net` | connection, read loop, half-close | connect, write, end, destroy, listen, close | completions after destroy | close once, after the I/O; connections counted |
| `node/http`, `http2`, `ws`, `web/websocket`, `eventsource` | request and connection life cycles | | the library's signals against the user's calls | one terminal event |
| `web/webrtc` | signalling state | offers, answers, rollback | GStreamer promises against close() | the table of JSEP |
| `infra/cli` install | lock file, store, links | resolve, fetch, extract, link | parallel fetches, interruption | a package is complete or absent |
| the rest | | | pure functions, wrappers, rendering | not modelled (see `PROJECT.json`) |

## Plan

1. **Writable** - everything else writes into one.  `FifoSink` says what it
   promises.  `WritableProofs` proves that it loses nothing, is serial and in
   order, and that it implements `FifoSink`.  *Done.*
2. **NextTick** - the queue the streams' ticks go through, which the other
   modules take to be a FIFO; `PipeProofs` proves that it is.  *Done.*
3. **Readable** - *done but for the async iterator*, with `ReadableProofs`.
   **Pipe**, which composes Readable with Writable on one tick queue, with
   `PipeProofs`: *done but for pipeline() and finished().*  **Duplex**, the writable side of Duplex and
   Transform, which has cork and end paths of its own: *done but for destroy*,
   with `DuplexProofs`.
4. **MessagePort** with **Channels**, what its ports promise across close and
   transfer (`PortProofs`); then **Worker**, the two pipes and the descriptor
   channel (`WorkerProofs`).  *Done but for BroadcastChannel.*
5. **Net**, two sockets and a server over a connection: *done but for failing
   connects and timeouts*, with `NetProofs`.
6. The shared words of `sab-native`, and the candidates marked "later" in
   `PROJECT.json`: the WebSocket closing handshake, EventSource, the
   EventEmitter, http2 sessions, the install command.

Every invariant that a passing run checks, and the two refinements, are theorems.
The temporal properties need fairness and stay with TLC.  Each module
declares its parameters as CONSTANTS with named assumptions, has one action per
operation and uses no RECURSIVE operator, so that what is added to it can be
proved about as it stands.

**What the proofs are written with.**  Each `...Proofs` module EXTENDS the module
it is about; its theorems hold for every value of the constants that satisfies
the module's named assumptions.  `PipeProofs` uses those of the two streams as
instances; such a theorem has the assumptions of its module as hypotheses, which
`DestAssumptions` and `SourceAssumptions` derive from `PipeAssumption`.  `DataTheorems` has what they need of the folds
of the community modules: `FlattenSeq` and sums over finite sets are defined by
recursion, and the facts about them (how each changes when a sequence is
extended, shortened or joined, when a set grows or is split) are proved once,
by induction.  The library's induction theorems speak of a formula that is a
parameter; `SetInduction` derives induction for a *set* of numbers from the
well-foundedness of the naturals, and the lemmas apply it to the set of lengths
or cardinalities for which the fact holds.

Abstract specifications: `FifoSink`, which Writable implements, and `Channels`,
which the ports of MessagePort implement.

| Run | Distinct states | Question |
|---|---|---|
| `writable` | 124,107 | Without cork, with a late `_construct`: serial, in order, callbacks, `drain`, `finish`; it implements `FifoSink`. |
| `writable_all` | 3,167,992 | With cork, `writev`, a failing `_construct` and all else at once: no write is lost, `writableLength` is right. |
| `nexttick` | 1,561 | Is the queue of `nextTick` a FIFO that loses nothing. |
| `readable_safe` | 443,661 | Order, conservation and the end of a Readable in both modes. |
| `readable_live` | 11,710 | Does all that is pushed arrive, and `end` after it. |
| `pipe` | 415,831 | A Readable piped into a Writable: back-pressure, the end, no stall. |
| `duplex` | 105,313 | Duplex and Transform: order of the sink, the flush, `finish` and `end`. |
| `message_port` | 117,696 | Ports under close and transfer implement `Channels`. |
| `worker` | 312,388 | Pipes and descriptor channel of a worker: order, descriptors, exit. |
| `net` | 2,110,547 | Two sockets over a connection: one read at a time, transfer, half-close. |
| `worker_fds` | violation | Does a line that the child reads find its descriptors sent. |
| `net_close` | violation | Does Server.close() shut or reset the connections that it accepted. |

Two of the runs find a property violated that the code states of itself; the
others pass.

## Writable (`Writable.tla`, from `packages/node/stream/src/writable.ts`)

The variables are the fields of `Writable_` and of its `_writableState`, and
four parts that are not fields: `pc`, `arg`, `cont`, `cur` hold the call in
progress, `ticks` the nextTick queue as far as this stream is concerned,
`inflight`, `batches` and `pending` what the user's `_write`, `_writev`,
`_construct`, `_final` and `_destroy` have not called back for, and `issued`,
`called`, `endCalled`, `events`, `owed` record the past for the properties.

A call of the stream runs until it calls user code.  Where it is interrupted,
the model has an intermediate state: `_doWrite` is called with `pc =
"doWrite"`, hands the write over and goes on in `_drainWriteBuffer` when the
sink answers at once, or back to `cont`.  A tick is divided at its calls of
user code (`cur` is what is left of it), so that user code that runs in a
write callback or a `drain` listener finds the stream in the state the code
leaves it in at that point, with the rest of the tick still to come.

| Code | Model |
|---|---|
| `write` | `Write`, `WriteAfterEnd`, and `Accept` for the part `_doEnd` shares |
| `end`, `_doEnd`, `_maybeFlush` | `End`, `DoEnd`, `EndRest`, `PendingEnd` |
| `cork`, `uncork`, `_flushCorkedBuffer` | `CorkCall`, `Uncork`, `BatchDone`, `BatchCallback` |
| `_doWrite`, its completion and ticks | `DoWrite`, `WriteCallback`, `RunTick`, `DrainCheck`, `FlushPart` |
| `_drainWriteBuffer`, `_maybeFinish` | `DrainWriteBuffer`, `MaybeFinish`, `FinalCallback`, `ClosePart` |
| constructor, `destroy` | `Init`, `Constructed`, `ConstructCallback`, `DestroyBody`, `DestroyCall`, `DestroyCallback` |

A chunk is the number of its write; `Size` gives its length.  Left out:
encodings, the errors' texts, `setDefaultEncoding`.  Assumed of the user: the
sink calls back once for each write, `_write`, `_final` and `_construct` do
not call the stream's methods before they return, and `error` has a
listener (without one `emit` throws and the rest of that tick is skipped).

### Runs

Writes of sizes 1, 2 and 1, with a high water mark of 2: one write alone
reaches the mark, a queue behind a write in flight has two in it, and a
flushed batch leaves a rest behind its first write, which is the least that
shows an order.  Two end() calls show the duplicate.  Corks are not nested and
at most one tick for a write after the end is waiting, as a second would only
emit the same error again.

- `writable`: every mixture of completions at once, later and with
  errors, destroy(), and a `_construct` that succeeds, during which writes and
  end() wait in buffers of their own.  One write at a time, in
  order, callbacks in order, finish after all of them, and the refinement of
  `FifoSink`; and under the fairness below, drain, callbacks, finish and the
  callbacks of end() follow.  Those four assume `NoStuckLock`: after a
  completion with an error within `_write` the code neither drains nor releases
  the lock (writable.ts:162) and the stream stays where it is.  `DrainFollows`
  speaks of a stream that is constructed: a write refused before is not followed
  by drain (writable.ts:253).
- `writable_all`: everything at once, with cork, `_writev` and a `_construct`
  that may fail, which destroys the stream as a call of destroy() does: with a
  `_destroy` that calls back at once or later, or with none.  Every accepted write
  is in one place, and `writableLength` is the size of what is held.  The order of
  the writes is not its question.

The model also has these behaviours: end() of a corked stream finishes it with
the corked writes unwritten, as `_maybeFinish` does not look at the corked
buffer (writable.ts:198), so `FinishLast` is checked without cork; uncork() during a write starts a second one, ahead of those that wait, so that
`SerialWrites` and `FifoDispatch` are stated without cork; a second end() before
construction replaces the first; after a failed `_construct` the writes that
waited for it stay where they are, and later ones go to the sink.

Deadlock is not checked: a stream that finished, or a user who stops, is at
rest.

**Fairness.** Weak fairness of the calls in progress and of the tick queue: a
JavaScript call returns and the main loop runs its sources.  Weak fairness of
the sink's callbacks: the contract of `_write` is that it calls back.  Nothing is
assumed of the user.

### Proofs (`WritableProofs.tla`)

- `TypeCorrect`: `TypeOK`, for every value of the constants.
- `NothingForgotten`: `Conservation`, without any further assumption: with cork,
  `_writev`, failing completions and a `_construct` of any outcome.
- `Serial`, `Fifo`, `CallbacksInOrder`, `FinishComesLast`: `SerialWrites`,
  `FifoDispatch`, `CallbackOrder` and `FinishLast`; `NothingLost`: what the sink
  was given and what waits are the writes 1..nw; `Implementation`: the stream
  implements `FifoSink`.  They assume `Uncorked`: the user does not cork the
  stream, and a `_construct` succeeds.  Without either of them the model has
  counterexamples, those listed above.

*Conservation.*  The invariant `PlacesInv` says that the sets of writes in the
three queues, in the call of `_doWrite`, and given to the sink are disjoint and
make up 1..nw, that those in flight or in a batch were given to the sink, and that
`writableLength` is the sum of the sizes of all that the stream holds.  Each
step moves one write or one whole queue from a set to another, and `DataTheorems`
says what that does to the sum.

*Order.*  The inductive invariant `SerialInv` has four parts.  `LockInv`: while a
write is with the sink, or its tick that will drain the queue is waiting or
running, the lock is taken and there is only one of those things, the *baton*, and
the queue is empty when the lock is free.  `QueueInv`: what was dispatched, what
is being handed over and what waits are, one after the other, the writes
1..nw.  `ConstructInv`: before construction nothing was dispatched and only
`_construct`'s own callback, of which there is one, constructs.
`UncorkedInv`: nothing is ever in the corked buffer or in a batch.
`SerialWrites` alone is not inductive: a step to a state with two writes in
flight is excluded only by knowing that the tick that drains comes after the
write it belongs to is done, and that there is one such tick.

On it rests `OrderInv`.  `CallbackInv`: the writes called back are 1..n for some
n, and those after n are in order the ones that a tick will call back and the one
at the sink.  `EndedInv` and `FinishInv`: once `_final` is called or `finish`
deferred, no write waits, the lock is free, and the tick of `finish` is behind the
ticks of all the writes.  The refinement maps the queue of `FifoSink` to the
writes handed over, waiting, or put off by `_construct`, and is proved action by
action from these invariants.

Only model-checked: the temporal properties, which need fairness.

## NextTick (`NextTick.tla`, from `packages/gjs/utils/src/next-tick.ts`)

`queue` and `armed` are the module's two variables.  `draining`, `left` and
`running` say where `drainOnce` stands; while `running` is not 0 a callback
runs, which may call nextTick (`NextTickCall`), return, or throw.  The rest is
GLib as far as the queue depends on it: a timeout is `delayed` until its time
has passed, `ready` until the main loop polls, and `due` until it is
dispatched, in any order with the input event that stands for all other
sources.  The fallbacks for other hosts are left out: on Node.js the host's
queue is used.

`nexttick` makes up to eight calls, in chunks of two, so that chunks fill, are
extended by their own callbacks, and leave a rest that needs another timeout,
more than once.  One drainer, call order, and an event waits for at most two
chunks: the one in progress when it arrives and, when the poll finds both
ready, one more.  All callbacks run, whichever throw; fairness: callbacks
return, time passes, and the main loop iterates.  The callers of nextTick are
not assumed to stop: the bound stops them.

The last part of `PipeProofs`, which needs nothing of Pipe, proves the safety
properties for every `ChunkSize` and `MaxTicks`: `SingleDrainer`, `Order` and `EventsDispatched`.  The invariant
adds to them that `left` is at most the length of the queue (a callback cannot
take from it), and `WaitInv`: what an event has waited is bounded by the chunks
that ended since it arrived, of which there can be two, since the second chunk
re-arms with a delay and the event is due before that.  Only `AllRun` is left to TLC.

## Readable (`Readable.tla`, from `packages/node/stream/src/readable.ts`)

The variables are the fields of `Readable_` and of its `_readableState`.
`flow` and `rd` say where `_flow` and `read` stand in a call of user code: in a
listener of `data` or in `_read`.  A listener of `data` may do what any user
code may; in `_read` the model lets it push and destroy.  `ticks` holds the
nextTick callbacks by kind.  The source is modelled four ways, by `MayPush`
and `AskSource`: it pushes when it likes; once for each `_read`, within it or
later; over a Gio stream, which refuses a read while another is pending
(`ReadStream` of fs and the standard output of a child process); or as
`Readable.from` does.

Chunks are sequences of bytes numbered in the order they are produced, so
that `Conservation` can compare what was handed over, and what is still held,
with what was pushed, however read(n) splits and joins it.  `use` says how the
stream is used, and does not change: its source and consumer, whether it is in
object mode, and which of pause(), unshift(), `_construct` and destroy() occur.
`MCReadable` lists the uses of each run, so that one run covers several.

| Code | Model |
|---|---|
| constructor, `_construct` | `Init`, `Constructed`, `ConstructCallback`, `RunTick` |
| `push` | `Push`, `PushEnd`, `ScheduleReadable` |
| `on`, `pause`, `resume` | `OnData`, `OnReadable`, `Pause`, `Resume` |
| `_flow` | `EnterFlow`, `FlowHead`, `FlowData`, `FlowRead` |
| `read`, `_readBytes` | `Read`, `ReadReturn`, `ReadRest`; `Taken` and `Left` |
| `unshift` | `Unshift` (of bytes the consumer got, before `end`) |
| `_emitEnd`, `destroy` | `RunTick`, `DestroyCall`, `DestroyCallback`, `SourceFails` |

Left out: the async iterator, `toWeb` and `fromWeb`, `setEncoding`, listeners
that are removed, pushes of a wrong type, and a push after `push(null)`: the code
has no test for that mistake of a source and buffers the chunk (readable.ts:209),
while the model's sources end at `push(null)`.

### Runs

Three chunks, of lengths 0, 1 and 3 with reads of up to 2 bytes, so that a read
takes nothing, a part, a whole chunk, and parts of two.  pause() and resume()
are not called while `MaxTicks` ticks wait: each cycle at the end of a stream
schedules one more `end`, without a limit.

- `readable_safe`: nothing is lost, repeated or reordered, `readableLength` is
  the size of what is held, and for a consumer of events `end` comes after
  the last chunk.
- `readable_live`: a stream that is kept flowing gets to its end, `end` is
  emitted once all is consumed, `readable` follows every push, and a stream
  over a Gio source that is never paused, nor read with read(), has one read
  pending at a time.

The model has these departures, which the properties leave out: a consumer that
uses read(n) never gets `end`, since `_readBytes` does not test for it and an
ended stream with an empty buffer makes read() return at once (readable.ts:136);
read() emits `end` before it returns the last chunk; `Readable.from` waits for a
`drain` that a Readable never emits (readable.ts:569), so it stops at the high
water mark for good (`stalled`); and resume() during a pending Gio read starts a
second, whose error destroys the stream (readable.ts:353).

**Fairness.** Weak for the calls in progress.  Strong for ticks, the callback
of `_construct` and the source: between two of a user's calls the
model does not say whether the main loop ran, and a user who never returns to it
is a program that hangs.  Nothing is assumed of the consumer:
`FlowReachesEnd` speaks of one that ends up flowing.

### Proofs (`ReadableProofs.tla`)

- `TypeCorrect`: `TypeOK`, for every set of uses and every bound.
- `NothingLost`: `Conservation`, for every use.
- `EndComesLast`: `EndLast`.
- `OneReadOnly`: `OneReadAtATime`.

*The bytes.*  `Conservation` is inductive together with the types (`ByteInv`).
Four steps change the bytes, and each is a fact about `FlattenSeq`: a push
appends to it, `_flow` takes its head, `unshift` puts one in front, and read(n)
takes what `ReadTakes` says: `Whole(n)` is the maximum of a set that is never
empty, so the part it splits off the next chunk is no longer than that chunk, and
what is taken and what is left are, joined, what was there.

*The end.*  `EndInv`, for a consumer of events: read() is not called, and
while an `end` waits in the ticks, or once it was emitted, the source has ended
and the buffer is empty.  Nothing fills it again, and by `Conservation` what the
consumer got is then everything.

*One read.*  `OneReadAtATime` is not inductive: `_flow` asks the source at the end
of its loop whatever is pending.  `Orderly` says that no turn of `_flow` can
begin during a read: at most one `flow` tick waits, and none in a turn of `_flow`
or while the source was asked; before construction, and before the stream
flows, nothing was asked; `_construct` calls back once.

Only model-checked: `FlowReachesEnd` and `ReadableFollows`, which need fairness.

## Pipe (`Pipe.tla`, from `packages/node/stream/src/utils/pipe.ts`)

`Pipe` instantiates Readable for the source, under its own names, and Writable
for the destination, with a `w` before each variable, and adds the closure of
pipe(): whether its listeners are attached, where `ondata` stands, what
`write` answered and `drainListenerAdded`.  The two streams have tick
queues of their own; `order` says whose tick is the next of the one queue the
program has.

A step is one of the source, one of the destination, or one of both:

| Code | Model |
|---|---|
| `source.on('data', ondata)` | `Start`, which begins to flow (`R!OnData`) |
| `ondata` | `OnData` (`W!Write`), `OnDataReturn` (pause, wait for drain) |
| `ondrain` | `OnDrain`, within the destination's tick (`W!DrainCheck` and `R!ResumeBody`) |
| `onend`, `onclose`, `cleanup` | `SourceTick` (`R!RunTick` and `W!End`), `DestTick` |

Only the innermost call runs: the source goes on when the destination's
calls have returned, ticks run when both are at rest.  `Ahead` keeps the order
of the queue where end() defers ticks within the source's tick, before
that tick defers its own `close`.

`pipe` transfers up to four objects to a destination with a high water mark of
two: one write is accepted without waiting, the next fills it, and a tick of the
first may come when the third is queued, which is the least that brings the
destination beyond its mark.  The source answers each `_read` within it or later
(`MaxAsked` tells only one unanswered call apart) and may be destroyed, or pushes
when it likes; the sink answers within `_write`, later, or with an error, and may
be destroyed.

- `Backpressure`: the destination holds at most one object more than its mark.
  The bound is the best there is: write() answers false *at* the mark
  (writable.ts:266), but `drain` is emitted already when no more than the
  mark is held (writable.ts:157, 175).  When a first write is answered within
  `_write`, the second is not and the third waits, the tick of the first finds
  two held, emits `drain`, and the source goes on and writes the fourth.  With
  three objects this cannot happen and the mark itself seems to be the bound.
- `FinishAfterAll`: `finish` of a destination that was not destroyed means that
  all that the source produced was written and called back.
- `PipeCompletes`: a pipe begun before the source's `end` finishes, unless an end
  of it is destroyed or a write fails.  A pipe begun after `end` never ends its
  destination: pipe() does not look whether `end` was emitted.

**Fairness.** That of the two streams: calls return, ticks run, the sink calls
back and the source answers; it is strong for the source, which answers
between other calls.

Left out: a destination with a `_construct` (a write refused before it is not
followed by drain, and a pipe to it stops there), the option `end: false`,
several destinations, unpipe(), and sources that are not `Readable_`.

**Proofs** (`PipeProofs.tla`), for every mark, every number of objects and all
sources that `PipeAssumption` admits (object mode, the pipe as the only consumer,
no Gio source):

- `DestinationIsWritable`: every step of the pipe is a step of the destination's
  own specification or leaves it as it is, so that the theorems of
  `WritableProofs` hold of it; `DestinationIsSink`: it implements `FifoSink`.
- `BackpressureKept` (`Backpressure`).
- `FinishIsComplete` (`FinishAfterAll`).
- `InSourceOrder`: until the destination is destroyed, what its sink was given is
  a prefix of what the source emitted.  No run checks it; it relates the histories
  of both streams.

The same is not true of the source: the pipe pauses and resumes it in the middle
of the destination's calls, where Readable's specification has no such step.
`SourceNext` says that these steps (`Turned`) are the only others, and
`TurnedKeeps` that they keep the byte and end invariants of `ReadableProofs`.

The inductive invariant `PipeInv` has six parts.  `FillInv`: the destination is at
its mark at most whenever the source flows, except for the object being written;
a source flows when `data` is due, and stays there until `ondata` returns.
That is what bounds the excess by one: `drain` comes at the mark or below, and the
one write after it is answered false if it fills the destination again.
`SourceInv`: `end` is emitted with an empty buffer, and `close` follows `end` or
destroy().  `ListenInv`: as long as the source flows the pipe listens, or an end
of it is over; `ondrain` and `ondata` are not left behind.  `DestInv` and
`EndedInv`: the destination was ended only by the source's `end`.  `HandInv`: a
chunk is one object, and what the consumer got is what was written but for the
object that is due.  At `finish` the destination was ended and its writes called
back (`FinishLast`), so that `end` was emitted, the buffer is empty, and what was
produced is what was written.  `PipeCompletes` needs fairness and stays with TLC.

## Duplex (`Duplex.tla`, from `packages/node/stream/src/duplex.ts`, `transform.ts`)

The writable side of Duplex shares no code with Writable.  The lock
`_duplexWriting` is not taken and released by each write but handed on by the
tick of one write to the next, and held through that tick; end() is put off in
one field; uncork() gives all corked writes to the sink past the queue.  The
variables are the fields; `inflight`, `flushed` and `finals` the calls of the sink
that have not called back, `cur` what is left of the tick or call in progress,
`out` what a Transform has pushed.  A tick is divided where it calls user code:
at the write's callback, at `error` and at `drain`, whose listener may write and
end (`use.reenters`).

| Code | Model |
|---|---|
| `write`, `_duplexDoWrite` | `Write`, `WriteAfterEnd`, `Accept` |
| `_duplexStartWrite`, its callback and tick | `StartNext`, `WriteCallback`, `RunTick`, `NextPart`, `SettlePart`, `ReleasePart`, `ErrNextPart` |
| `end`, `doFinal` | `End`, `EndBody`, `DoFinal`, `FinalCallback` |
| `cork`, `uncork` | `CorkCall`, `Uncork`, `FlushCallback`, `UncorkRest` |
| the listener of `end` without allowHalfOpen | `ReadableEnd` |
| `_transform`, `_flush`, `_final` of a Transform | `Output`, `Answers`, `DoFinal`, `FinishTick` |

The `_final` of Duplex itself does not fail; one that its user gave may, and
`finish` is emitted after its error (`FinishTick`).

`duplex` checks four uses with three writes and two calls of end(): a Duplex whose
`drain` listeners write, one that is corked and whose `_write` and `_final` may
fail, and two Transforms that may fail, one without allowHalfOpen and one with a
`_final` of its user:
`SinkOrder` (one write at a time and in order), `Conservation` (no write lost and
`writableLength` right, with cork), `OutputComplete` (`finish` and the end of a
Transform's output come after every write), `DrainFollows` and `FinishFollows`.
Three writes are the least with a queue of two behind a write in flight, and
two ends show the tick of allowHalfOpen racing a call.

What the properties leave out, because the code departs: a listener of `drain`
that writes a chunk which is answered at once, a second one, which is queued, and
calls end() has `_final` run before the queued chunk (duplex.ts:219 tests only
`_pendingWrites`, where the comment at line 263 asks for the queue too); a
listener of `error` that writes overtakes the queue (duplex.ts:199); a second
end() runs `_final` and `finish` again; after a write that failed last a pending
end() is not resumed.  Fairness: calls return, ticks run and the sink calls back.

**Proofs** (`DuplexProofs.tla`).  `TypeCorrect`, `NothingLost` (`Conservation`),
`SinkInOrder` (`SinkOrder`) and `FinishIsComplete` (`OutputComplete`) hold for
every number of writes, all sizes and marks, and every use; what `SinkOrder` and
`OutputComplete` ask of the use is in the properties themselves.  `PlacedInv` and
`PartsInv` are for the duplex what `PlacesInv` is for Writable.  `LockInv` says
who has the lock: the write at the sink, the tick of its callback, or the part of
that tick that waits for user code to return (`HolderInv`: exactly one of them,
while the lock is taken, and none else); together with `NumberInv`, what was
issued and what is queued are the writes in order.  This is why a lock that is
handed on is as good as one that is taken anew.  `AloneInv` is about the end: when
`_final` or the flush is on its way the queue is empty and nothing will write
(`EndingInv`), each issued write was called back, is at the sink or has its tick
(`CalledInv`), and the output is in order with nothing behind its end (`OutInv`).
`DrainFollows` and `FinishFollows` need fairness and stay with TLC.

## MessagePort (`MessagePort.tla` and `Channels.tla`)

From `packages/node/worker_threads/src/message-port.ts`, over
`packages/web/message-channel/src/index.ts`.  A port is a wrapper with
EventEmitter listeners around a W3C port with a queue and `onmessage`; both are
told of each message by microtasks of their own.  The model has the links
between ports (`other`), each port's queue, the ways it was started, `closed` and
`detached`, and the microtask queue `micro`.  A transfer makes a new port with the
same *end* of the channel, which is how the properties name it.

| Code | Model |
|---|---|
| `postMessage` | `Post`; with a port in the transfer list `PostTransfer`, `Relink` |
| `start`, `onmessage =` | `Start`, `OnMessage`, `StartInner` |
| `_receiveMessage`, `_dispatch`, `_dispatchEmit` | `Receive`, `Job`, `RunMicrotask` |
| `close`, `receiveMessageOnPort` | `Close`, `ReceiveOnPort` |

`message_port` has two channels, one more port made by a transfer, and two
messages: that is enough for a message to wait in the queue while another is in a
job, and for a transfer over the channel's own partner.  `SurfacesAgree`: both
kinds of listener are told of all messages, in order, however the port was
started.  `ImplementsChannels`: seen through `Channels`, a message is in transit,
told to the port that has the end, or lost with its owner's close or transfer.
`Arrives`, with fairness of the microtasks: what is posted to a started port is
told.

A departure: the transfer marks the wrapper closed and not the W3C port in it, so
`onmessage` on the old port still tells what waited there (message-port.ts:223,
327).  Left out: the transports (Worker has them), transferred buffers, values
that cannot be cloned, BroadcastChannel.

**Proofs** (`PortProofs.tla`).  `TypeCorrect`, `SurfacesTold` (`SurfacesAgree`) and
`Implementation` (`ImplementsChannels`), for every number of ports and messages.
The inductive invariant `PortInv` has these parts besides the types: links are
mutual and none of a closed port (`LinkInv`); each end has exactly one port that
was not transferred, its owner (`OwnerInv`); a started port has an empty queue and
only a started port has jobs (`StartInv`), so that a message never waits in both;
ports that were not created are as new ones (`FutureInv`, `CarriedInv`).  From it
follows for each action what it does to the messages that wait for the owner of
an end: none, one more at the back, the first taken, or all dropped.  For
`SurfacesAgree` one needs besides that an old wrapper with an end whose first port
is open does not exist (`FirstInv`): what the W3C port in a transferred wrapper
still tells is told for an end that was given away.  `Arrives` stays with TLC.

## Worker (`Worker.tla`, from `packages/node/worker_threads/src/worker.ts`)

Two processes.  The parent writes JSON lines to `stdin`, the child to `stdout`,
both with blocking writes to pipes that hold `PipeRoom` lines; descriptors of
SharedBuffers go through `fds`, each with a tag.  While a write waits
(`unwritten`, `childUnwritten`) its process does nothing else.  A *conn* is the
worker's own channel (0) or a transferred port, with the end that the parent keeps
(`kept`) and the one in the child (`conn`).

| Code | Model |
|---|---|
| constructor | `Init` (the init line is written before the child reads) |
| `postMessage`, `_serializeWithSabTransfer`, `_extractCrossProcessPorts` | `Post`, `Buffers`, `Placeholders`, `Write` |
| `SubprocessPortTransport` | `KeptPost`, `KeptClose` |
| `terminate` and its timer | `Terminate`, `WriteEnds`, `ForceExit` |
| `_onExit`, `_cleanup`, `_readMessages` | `OnExit`, `ParentReads`, `ParentThrows` |
| the bootstrap code of the child | `Boot`, `Deliver`, `Fail`, `PortLine`, `TakeTerminate`, `EndCode`, `Send` |
| parentPort and the child's ports | `Listen`, `ChildPost`, `ChildPortClose`, `ChildClose` |

`worker` has one port, messages of two buffers, pipes of one line and two
messages each way, so that a message waits in the pipe, another in write_all, and
a line for the port is written in between.

- `FdsPaired`: the descriptors in the channel are those of the placeholders in the
  lines ahead, in order.
- `PortKnown`: a line for a port follows the one that brings the port.
- `InOrder`: what a listener is told on a conn goes on without a gap; nothing that
  was posted to it is missing from the lines ahead.
- `TerminateExits`: terminate() ends in `exit`, whatever the child does, if the
  parent's writes end.  Without that it does not: with a full pipe and a child
  that does not read, terminate() waits in write_all and never sets the timer that
  would end the child (worker.ts:694).
- `LinesArrive`: what the child wrote is acted on, also after its death, unless
  an exception of a listener or foreign output has stopped the reading.

`worker_fds` shows that `BufferedOnRead` fails: a buffer that occurs twice in a
message has one tag and one descriptor but two placeholders, for which the child
waits in `recv_fd`; and a value that JSON refuses leaves its descriptors for the
next message.

**Fairness.** The parent's main loop runs what is ready, and the timer fires.  Of
the child nothing is assumed: it may hang or die at any moment.  Left out: stderr,
a missing file, resolving the file name, a limit of the descriptor channel.

**Proofs** (`WorkerProofs.tla`).  `TypeCorrect`; `DescriptorsPaired` (`FdsPaired`),
`DescriptorsThere` (`BufferedOnRead`), `PortsComeFirst` (`PortKnown`) and
`MessagesInOrder` (`InOrder`), for every number of ports and messages and pipes of
any size, under `Matching`: no value is of the two kinds with which `worker_fds`
shows that the pairing fails.  The comment of the code is thus true of every other
value.  The invariant `DownInv` speaks of all the lines ahead of the child, in the
pipe and in the parent's write: their tags, one line after the other, are what the
side channel holds (`Fed`), a line for a port has the one that brings it before it
(`Brought`), and on each conn the numbers go on from what the child was told
(`Order`).  `UpInv` is the same for what the child writes, as far as the parent
still listens; `GoneInv` closes the conns of a dead child.  `TerminateExits` and
`LinesArrive` need fairness and stay with TLC.

## Net (`Net.tla`, from `packages/node/net/src/socket.ts`, `server.ts`)

A client's socket and the one that the server made for it, over a connection that
holds `Room` units each way.  The socket drives Duplex and Readable, so the module
has the parts of those it uses: the write lock and queue, the buffer and flowing
mode, and the ticks of each process, together with the read loop over GIO (`reads`
counts its pending reads).

| Code | Model |
|---|---|
| `connect`, `_handleConnection`, `_setupConnection` | `Connected`, `Accept`, `SetUp` |
| `_startReading`, `_readLoop`, `_read` | `StartReading`, `ReadData`, `ReadEof`, `ReadFails` |
| `_write` and its tick | `Write`, `Written`, `WriteFails`, `TickWritten` |
| `end`, `_final`, the two listeners of `end` | `End`, `EndNow`, `DoFinal`, `EmitEnd`, `TickEndAgain` |
| `resume`, `pause`, `_flow` | `Resume`, `FlowAndPause`, `Flow`, `TickFlow` |
| `read` | `TakeAll` up to the listeners of `end`, then `TakeReturn` |
| `destroy`, `Server.close`, a lost connection | `Destroy`, `Close`, `Reset` |

`net` has a half-open client with two units to write, also before it is connected
(the write is then refused, and end() finishes without a shutdown: the properties
count what was accepted), a server's socket with one, a high water mark of two, so
that the read loop goes on after one unit, stops at two and must be started again, a
pause of each, and one fault: a reset, a destroy() or Server.close().  The client
may also flow or be destroyed before it is connected; a connection made after that
starts to read all the same, since `_setupConnection` does not test `destroyed`.

At the end of the data read() emits `end` before it returns what it took
(readable.ts:170-178).  The model therefore has two steps, `TakeAll` and
`TakeReturn`, with the units in `taken` between them: listeners may act there, and
no tick or callback of that process runs.

- `OneRead`: GIO never has two reads of a socket pending.
- `Transfer`: what was written is what the peer got, is about to be returned by its
  read(), holds, or has on its way, in order.
- `EndIsLast`: a half is shut only when no write is pending or queued, and a
  consumer that got `end` has the last unit that the peer wrote.  For a consumer
  that calls read() this holds from the moment that call returns; a listener of
  `end` that runs within it does not have its units yet, which is the departure
  named under Readable.
- `EndReaches`: when neither process has anything left to do, a connected socket
  that flows has
  consumed what its peer wrote, got `end` if the peer ended, and closed its own
  half unless half-open.  It is stated of states at rest, so it needs no fairness.

`net_close` shows that Server.close() does not "Close all existing connections", as
server.ts:169 says of its loop (`CloseReaches`: a connection that the server
accepted is shut or reset once the server is closed).  The loop calls `destroy()`,
which does not call the `_destroy` of `Socket.prototype`, so the connection stays
and the peer gets neither an end nor an error.  The code means this: its comment
(readable.ts:419-423) says why a `_destroy` of a prototype is not called, and the
test "should handle server close while client connected" (server.spec.ts:284)
expects data that is written after server.close().  The finding is that the comment
in server.ts disagrees with both.  `CloseReaches` covers the sockets no longer in
`_connections`, too, which `close` after `end` took out (server.ts:137).  The run
assumes that callbacks of GIO and ticks run.

Outside the bounds: a write of two units into room for one is counted as done
when one is written, since the code does not look at the number that
`write_bytes_finish` returns (socket.ts:321); with `WriteSizes = {2}` and
`Room = 1` `Transfer` fails.  Left out: a connect that fails, timeouts,
maxConnections, destroySoon, sockets over an IOStream, the `readable` event.

**Proofs** (`NetProofs.tla`).  `TypeCorrect` and `OneReadOnly` (`OneRead`), for every
value of the constants; `InOrder` (`Transfer`) and `LastUnit` (`EndIsLast`) under
`Whole`: each write is of one unit, which excludes the partial write above, and
with it every write of more units, also one that GIO takes whole.  `ReadInv` for `OneRead`: no read is pending while the loop does not run,
and one at most while it does.  `NetInv` is one invariant for each direction of the
connection: the lock of the writer is held by the write at GIO or by the tick of
its callback (`LockInv`); its half is shut only when it was ended and nothing is
left to write (`ShutInv`); `end` is due only at an empty buffer after the
connection's end (`EndInv`); what the consumer got, what its read() is about to
return, the buffer, the wire, the write in flight and the queue are one sequence of
units (`ChainInv`), until a write is
refused or the connection breaks, and after the end what the consumer got and has
buffered is all that was written (`LastInv`).

`NothingLeft` (`EndReaches`) needs no `Whole`.  Its invariant `AwakeInv` says what
each side of an end still has ahead of it while the connection holds.  The reading
side (`ReaderInv`): a loop that runs has its read at GIO; a socket that flows has a
`flow` tick ahead, or an empty buffer and a loop that runs or has ended; and after
the end of the data there is something in the buffer, or an `end` tick, or `end`
was emitted, with the listener of the read loop in place until then.  The writing
side (`WriterInv`): `_duplexWriting` is set exactly while a write is at GIO or its
callback is due, never both, so that an end() that waits has something to wait for
unless a write was refused.  Both (`LinkInv`): the data end only on a wire that is
shut and empty, and `end` shut the other half or left an end() waiting.  In a state
at rest no tick and no operation is left, and what remains of these is `EndReaches`.

## Not modelled

`PROJECT.json` lists every component.  What is left falls in three groups: life
cycles like those above that are candidates (http, http2, ws, WebSocket,
EventSource, child_process, dgram, timers, EventEmitter); wrappers whose state is
a library's (Soup, GStreamer, Gio, OpenGL); and pure functions, generated tables
and assets, by far the largest part of the source, which a state machine says
nothing about.
