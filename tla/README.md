# MarketPrism: a TLA+ verification project

MarketPrism collects market data from cryptocurrency exchanges, passes it over NATS to a *hot*
ClickHouse, and moves it from there to a *cold* ClickHouse.  This directory holds TLA+ models
of the parts of it whose correctness depends on the order of events, TLC configurations that
check them on small instances, and proofs checked by TLAPS.

In source paths `src/` stands for the root of the repository.  `PROJECT.json` maps every
definition that models code to its lines, and lists runs, mutants, hazards and theorems.

    tlc -workers 2 -config MCColdReplicator.cfg MCColdReplicator     # a run
    tlapm ColdReplicatorProofs.tla                                   # its proofs

## 1. The system

    exchanges --WebSocket/REST--> collector --NATS--> hot storage --> ClickHouse (hot)
                (order books, trades, polls)                              |
                                                  replicator (cold storage service)
                                                                          v
                                                                  ClickHouse (cold)

The collector runs one manager per exchange and data type.  Each normalizes what it gets and
publishes it on a NATS subject.  The hot storage service subscribes to one subject per data
type.  High-frequency types (order books, trades) come over core NATS and are buffered; the
other types come from a JetStream stream and are inserted before they are acknowledged.  The
cold storage service runs `INSERT ... SELECT FROM remote(...)` statements on the cold server,
window by window, and deletes old rows on the hot server. No two services share memory; what
they share is the NATS subjects, the hot tables and the state file of the replicator.  Inside
a service everything is asyncio: one thread, tasks that interleave at `await`.

### 1.1 Components

| Component | State it keeps | Operations | What makes it correct | Here |
|---|---|---|---|---|
| Cold storage replicator (`src/services/cold-storage-service/replication.py`) | state file (watermark per table, bootstrap flag), contents of both stores | bootstrap (full, recent, off), replicate a window, verify, advance, clean up, stop, restart | no hole below a watermark; nothing deleted that is not copied; duplicates only after failures; it catches up | `ColdReplicator`, proved |
| Hot storage, batch buffers (`src/services/hot-storage-service/main.py`) | buffer, lock and timer per type, subscriptions, `is_running` | message callback, timer flush, chunked insert with fallback and retry, start, stop | every acknowledged row is stored or knowingly given up; no needless duplicate; a bad row costs only itself; stop ends | `HotBatch`, proved |
| Hot storage, JetStream types (same file) and NATS publisher (`.../collector/nats_publisher.py`) | stream, durable consumer, messages owed an acknowledgement | publish, subscribe (deletes the durable), insert then ack, nak, redeliver | nothing acknowledged that is not stored; nothing skipped over a restart without a cause | `JetStreamIngest`, proved |
| Hot storage, singleton lock (same file) | lock file, its descriptor | open, lock, unlock, unlink | one instance at a time | `JetStreamIngest`, proved |
| Binance spot order book (`.../orderbook_managers/binance_spot_manager.py` and its base class) | book, last update id, message queue, connection | receive, enqueue or drop, apply, ignore, rebuild, publish, lose, reconnect | a published book is the exchange's at the id it claims; no update stays unnoticed | `SpotBook`, proved |
| Binance derivatives order book (`.../orderbook_managers/binance_derivatives_manager.py`) | book, `pu` chain, queue, buffer before the first snapshot | receive, drop early, buffer, replay, apply, rebuild, publish, stop; forced cleanup from outside | as for the spot book; ids ascend; a rebuild ends | `DerivBook`, proved |
| OKX order books (`.../orderbook_managers/okx_*_manager.py`, their base class, `.../exchanges/okx_websocket.py`) | book and chain of numbers per symbol, queue, buffer, error counters shared by all symbols, connection, subscriptions | snapshot, update, buffer and replay, refuse, checksum, count errors, resubscribe, reset, reconnect | no published book misses an update; a lost book comes back; a gap is healed | `OkxBook`, proved |
| Snapshot pollers (`.../orderbook_snap_managers/`) | in-flight fetches per symbol; Binance derivatives: a shared connection, its lock and reader, pending requests | one-second loop, fetch, send, answer, time-out, loss, reconnect, stop | an answer goes to its own request; nobody waits for ever for the lock; a connection that is lost comes back | `SnapPoller` (Binance derivatives and base class), proved |
| Collector main, manager launcher, process monitor (`src/services/data-collector/main.py`, `src/services/common/process_monitor.py`) | active managers, start-up results, stop event, restart request | launch groups, two layers of time-outs, signal, request a restart, stop, start over | what runs is known, but for what a slow or failed start leaves; one manager that starts is enough; a signal stops or restarts the collector, unless the stop hangs | `CollectorLife`, proved |
| Collector memory and resource managers (`.../core/memory_manager.py`) | registered buffers | forced cleanup | a cleanup breaks nothing | its one effect on a book, in `DerivBook` |
| Trade, liquidation, funding, open interest, ratio and volatility managers | none, or a poll timer | forward a message, poll | – | no: stateless |
| Normalizer, data types | none | pure conversion | format only | no: layout of messages |
| Collector processes and IPC (`.../core/process_manager.py`) | child table | spawn, heartbeat, stop | – | no: nothing starts them; the restart is a TODO (`process_manager.py:268`) |
| Collector circuit breaker and retry (`collector/circuit_breaker.py`, `retry_mechanism.py`) | state, counters | call, success, failure | – | no: not on any running path |
| Monitoring and alerting service, message-broker set-up | none shared | HTTP views; idempotent creation of streams | – | no |
| Core library (reliability, storage, caching, networking, middleware, discovery, observability, configuration) | per class | library calls | – | no: not on the path of the running services |

The production configuration polls order books (`method: snapshot` in
`unified_data_collection.yaml`); the WebSocket book managers are what `method: websocket`
selects.

"Proved" is said of the safety of the model that is named: its types, invariants, action
properties and, for the replicator, its abstract specification (section 5).

### 1.2 What is hard about it

* Statements on a remote server that fail after having been carried out, in whole or part
  (both storage services).
* A state file written in place: truncated first, filled later (replicator).
* An error that is indistinguishable from the answer 0 (replicator, `_scalar_*`).
* Three tasks that flush the same buffer, two of which can be cancelled in the middle of it
  (hot storage).
* State read before an `await` and used after it (spot book, pollers).
* Reconnections that overlap the processing of messages from the connection before.
* A chain of message numbers that must show every loss, and places where the chain is
  deliberately let go (a reset, a rebuild, numbers that start again).
* Error counters shared by streams that fail independently.
* Redelivery by a broker that has its own idea of what was acknowledged.
* A lock file that is unlinked by those who leave.
* Time-outs within time-outs.
* Shutting down while input still arrives.

`PROJECT.json` lists these as hazards, each at its line, with the properties that cover it or
the reason why none does.

## 2. Modules

| Module | What it is |
|---|---|
| `WindowCopy` | abstract specification: what the replicator promises |
| `ColdReplicator` | `HotToColdReplicator`, statement by statement |
| `MCColdReplicator` | instances of it for TLC |
| `ColdReplicatorProofs` | its safety, that copies have causes, and that it implements `WindowCopy`, proved |
| `HotBatch` | batch buffers of the hot storage service, await by await |
| `MCHotBatch` | instances of it for TLC |
| `HotBatchProofs` | its four promises about rows, proved |
| `SpotBook` | Binance spot order book manager, await by await |
| `SpotBookProofs` | a published book is exact but for two causes, proved |
| `SnapPoller` | Binance derivatives snapshot poller and the polling loop of its base class, await by await |
| `SnapPollerProofs` | answers are own, and nobody closes an open connection, proved |
| `OkxBook` | both OKX order book managers, several symbols on one connection |
| `OkxBookProofs` | a hole takes a lost message and a restart of the numbers, proved |
| `JetStreamIngest` | publisher, JetStream, processes of the hot storage service and their lock file |
| `JetStreamProofs` | the lock file excludes, nothing is acknowledged before it is stored, copies have causes, proved |
| `DerivBook` | Binance derivatives order book manager, await by await, with the forced cleanup |
| `DerivBookProofs` | what a published book lacks is accounted for, and ids ascend, proved |
| `CollectorLife` | the collector from start to exit: launcher, time-outs, signal, monitor |
| `MCCollectorLife` | an instance of it for TLC |
| `CollectorLifeProofs` | what runs unrecorded has a cause, and when a start is given up, proved |

`OkxBook` and `JetStreamIngest` compose components: the managers with the base class's queues
and counters and the WebSocket client; the publisher, the broker, the consumer and the lock
that decides how many consumers there are.  `DerivBook` composes the manager with the resource
manager, `CollectorLife` the launcher with the process monitor.  The remaining interfaces are
narrow: a book manager hands a finished message to the publisher, and the hot tables are all
that the two storage services share (`Ingest` of `ColdReplicator` is an insert of `HotBatch`
or `JetStreamIngest`).

Definitions named as a mutant in a comment are wrong on purpose: each is a plausible bug that
one property detects.  No specification uses them.

### 2.1 ColdReplicator

**State.** `hot` and `cold` are the two servers' tables (`cold` counts copies, for the table
does not deduplicate at once); `file` is `sync_state.json`, absent, torn (truncated and not
yet written) or readable, with a watermark per table and `_BOOTSTRAP_DONE`.  `pc`, `tbl`,
`cur`, `end`, `tally`, `tries`, `processed` and `start` are the locals of `run_once` and the
functions it calls.  `arrived`, `late`, `origin` and `faults` are history: which rows ever
reached the hot store, which of them after their safety lag, where each watermark started
from, and how much has gone wrong.

**Actions.** One per statement to a server or access to the file.  `run_once` never awaits
between statements, but the world does not wait for it: `Ingest`, `Tick`, `Crash` and
`ResetState` (the operator's `manage_all.sh cold:full-backfill`) happen between any two.

| Actions | Code |
|---|---|
| `RunOnce`, `TablesDone` | `run_once` |
| `ReadHotMin`, `ReadColdMin`, `CountColdTable`, `FillWindow`, `FillFails`, `SeedDone`, `BackfillDone` | full-history branch of `_bootstrap_if_needed`, `_range_insert_windows` |
| `CountRecent`, `CountColdTotal`, `InsertRecent` | older bootstrap of the last minutes |
| `MarkBootstrapDone` | writes `_BOOTSTRAP_DONE` |
| `StartTable`, `CopyWindow`, `CopyWindowFails`, `CountHotWindow`, `CountColdWindow`, `WindowsDone` | `_replicate_table_window` |
| `SaveSeed`, `SaveMark`, `SaveWindow` | the second half of `_set_state_ms`: write and close |
| `CleanTable`, `CleanupDone` | `_cleanup_by_watermark` |

`Scalar` makes an error read as 0; `Insert` and `InsertFails` let the server do any part of a
statement before its error comes back.  `cfg` bounds: `MaxTime` (the clock), `MaxFaults`.

**Abstraction.** Timestamps are small integers; "minutes" are ticks.  The columns of a row are
its table and its timestamp.  Lag reports, counters, error texts and HTTP status are left out:
nothing reads them back.

**Abstract specification.** In `WindowCopy` a copier copies any rows at any time; a mark
advances only over rows that have been copied; only rows below the floor, or copied, or too
late to be promised may be forgotten.  The refinement mapping shows `hot` as its source,
punctual rows as what it must not miss, rows with a copy as its destination, `origin` as its
floor.  Its mark is the watermark in the file, except while the file is being written: then it
is the one on its way (`Mark`), for from the truncation on nothing but a kill can keep it from
being read, and a kill there loses every mark at once (`LoseMarks`).

### 2.2 HotBatch

**State.** Per type the buffer, the FIFO queue of its `asyncio.Lock` (`line`: holder first),
the row of a callback that waits for it, and the timer task (`timer`).  `job` is the flush
that the lock's holder is in: rows not settled, how many of them still have to go one by one,
the attempt, and which await it is at.  `keys` and `timerKeys` are the key orders of the two
dicts that `stop()` iterates over; `scan` is the second iteration.

**Atomicity.** A step runs from one `await` to the next.  The TCP driver is a synchronous
library called inside a coroutine: while a job is at `"tcp"` nothing else runs, and neither
does anything where a task goes on without an await.  `Free` says so, and is a guard of every
step that begins with the event loop choosing a task.  Over HTTP a flush really waits.

**Actions.** `Receive`, `CallbackLocks`, `CallbackFlushed`: `_store_to_batch_buffer`.
`InsertAccepted`, `InsertFails`, `RetryWakes`: `_flush_batch_buffer` with its chunks, the
TCP–HTTP fallback, and `_store_to_clickhouse_with_retry`.  `Timer...`: `_batch_flush_timer`
with its `CancelledError` branch.  `Started`, `StopBegins` and `Stop...`, `Unsubscribe`:
`start()` and `stop()`.  An error may come after the server has stored the rows.

**Left out.** A second stop signal, the byte limit of a buffer, rows that cannot be rendered
as SQL, and the low-frequency types, which share none of this state (`JetStreamIngest` has
them).

### 2.3 SpotBook

**State.** `exch` and `sent`: the exchange's last update, and the last one in a message.
`wire` is what the connection holds, `queue` the symbol's `asyncio.Queue`; `book` and `last`
are `local_orderbooks` and `last_update_ids`; `worker` is at its `get`, at the publisher or at
a snapshot request; `main` is `start()`, or the reconnection.  `snap` is the answer each of
the two is waiting for.  `out` is the last book published.

A book is abstracted to what the property tells apart: per price level the number of the last
update that set it.  Update n sets level `n % NLevels`, so a book that misses an update
differs from the exchange's until that level is set again.

**Actions.** `Enqueue`, `Drop`, `LoopBreaks`, `LoopEnds`: `_websocket_message_loop`.
`Process`, `Ignore`, `Reinitialize`, `Published`, `WorkerFetched`, `WorkerFetchFails`:
`_symbol_worker`, `process_websocket_message`, `_validate_spot_sequence`,
`_process_depth_update`, `_reinitialize_orderbook`.  `Fetched`, `FetchFails`, `Connect`,
`ConnectFails`: `start()`, `_on_connection_lost`, `_attempt_reconnection`,
`_restore_orderbook_states`.  `Update`, `Send`, `Lose`, `TakeSnapshot`: the exchange,
external.

**Left out.** `stop()`; several symbols on a connection (they share only the connection); the
trimming of a book to its depth limit.

### 2.4 SnapPoller

**State.** `sock` is `_ws` (none, open, or closed by the peer), `reader` the task in
`_recv_task`, `line` the FIFO queue of `_ws_lock` with the holder first.  A symbol's entry in
`_inflight` is its `fetch`, which is at one of the awaits of `_fetch_one` and what that calls;
`request`, `pending` and `future` are the request it has made.  `cancelled` are fetches to
which stop() has sent a CancelledError.  `asked` and `inbox` are what the exchange may still
answer, and its answers.

**Requests.** `_next_id` grows for ever; in the model a request gets the least number that no
outstanding request has, which tells apart whatever the code could confuse.

**Cancellation.** Where a CancelledError comes out depends on what the task awaits, and this
is what the model is about.  Cancelling a fetch ends it at any await except two: a back-off
returns (with the same effect, since nothing is done afterwards), and a fetch that awaits the
reader passes its cancellation on to the reader.  A reader that is cancelled by a fetch
catches it and ends (`EndsQuietly`).  A reader that handles a loss itself cancels itself, the
error is raised inside its own handler, and it is dead (`ReaderNotices`): `_recv_task` still
names it, and whoever awaits it next is cancelled too (`ReaderAwaited`).

**Actions.** `FetchStarts`, `LockGranted`, `ReaderAwaited`, `SocketClosed`, `Connected`,
`Refused`, `BackoffEnds`: `_ensure_connection`, `_close_ws`, `_handle_connection_lost`,
`_schedule_reconnect`.  `Sent`, `SendFails`, `Answered`, `TimesOut`, `Published`,
`FetchCancelled`: `_fetch_one`, `_safe_fetch_one`.  `ReaderTakes`, `ReaderNotices`,
`ReaderCancelled`: `_recv_loop`.  `Tick`, `Stop`: `_fetch_loop`, `stop`.  `Answer`, `Lose`:
the exchange, external.

**Assumption.** `Closing`: a new connection is not opened while another task is still closing
a lost one.  Closing a connection that the peer has closed takes a step or two of the event
loop, opening one takes a TLS and an HTTP handshake.

**Left out.** A finite `max_reconnect_attempts` (the default is without limit), metrics, a
reader that dies of an exception while its socket stays open (180–182; JSON that cannot be
parsed does not get there), and the REST pollers, whose fetches share nothing.  stop() closes
neither the connection nor the reader; the process ends right after it.

### 2.5 OkxBook

**State.** Per symbol: the subscription, the queue, the book, the last number, the buffer, how
long it has waited for a snapshot, where its processor is, and the reset tasks created for it
(`later`).  For all symbols together: the connection and the three error counters.

**Numbers.** A message carries its number and its predecessor's.  Only equality matters, so
numbers are counted back from the exchange's last update: 0 is that one.  Every update makes
all numbers in use one older (`Older`), and beyond `Old` they are all the same, because
nothing on its way is as old as that.  This keeps the state space finite without a bound on
updates, which is why the liveness properties can be checked with an exchange that goes on for
ever.

**Actions.** `ApplySnapshot`, `ApplyUpdate`, `BufferUpdate`, `RefuseUpdate`, `MismatchSpot`,
`MismatchDerivatives`: `process_websocket_message` of the two managers, by what becomes of the
message. `GiveQueueUp`: the long queue of `_process_messages_serially`; the derivatives manager
does not reset a book again within `resync_delay` (1426–1429), so the queue goes but the book
may stay.  `Unsubscribe`,
`Subscribe`: `_resubscribe_symbol`.  `PauseEnds`, `ResyncEnds`, `ResetTask`: the sleeps and
tasks of a rebuild. `Receive` within `Update` and `Snapshot`: `handle_websocket_message`,
which drops when the queue is full.  `Lose`, `Connect`, `Reject`: `okx_websocket.py`.
`Publish` includes the throttle and the event-age check of `publish_orderbook`, which may drop
the queue and schedule a rebuild.

**Abstraction.** A book is its number and whether it misses an update.  The checksum agrees
for a whole book; for another it may or may not, since it covers only the best 25 levels.

**Left out.** Batches of a long queue (messages are taken one by one), the reset of the
counters after 300 quiet seconds (`base_orderbook_manager.py:1484`), start() and stop().  A
half-open connection is one that is lost later; the memory manager's clearing of
`orderbook_states` acts like a reset.

### 2.6 JetStreamIngest

**State.** `stream` and `consumer` are JetStream's: how many messages there are, and what the
durable consumer is to deliver next, waits for (`pending`, with the number of deliveries), and
to whom. `file`, `locked`, `fd` are the lock file: the inode at the path, the lock on each
inode, and what each process has open.  `pc`, `sub`, `inbox`, `tries` are the processes of the
hot service.  `rows` counts copies in ClickHouse.

**Actions.** `Start`, `Lock`, `Unlock`, `Unlink`: `_acquire_singleton_lock`,
`_release_singleton_lock`, one action per system call.  `NotReady`, `DeleteConsumer`,
`AddConsumer`, `Bind`: `_subscribe_to_data_type`, with its fallback to core NATS.  `Refuse`,
`Insert`, `InsertFails`: `_handle_message`.  `Stop`, `StopFails`: `stop()`.  `EnsureStream`,
`Publish`: the publisher. `Deliver`, `Expire`, `Redeliver`: JetStream, external.  `CutOff`,
`Crash`: the connection or the process ends.

**Subscribing.**  The code means to delete the consumer of the run before and to make one that
begins with the last message.  Errors of both calls are ignored (690–693, 709–713).  If the
deletion fails the old consumer stays, with what it still waits for; if the creation fails,
`js.subscribe` (716) makes a consumer of its own with `DeliverPolicy.ALL`, which begins with the
first message of the stream.  Either may bring again what is stored already; `replayed` counts
how many such messages there are when it happens.

**Simplified.** Insert and ack are one step with four outcomes (stored once or twice, ack lost
or not); a consumer that nats-py's `subscribe` creates itself keeps the model's `MaxDeliver`
(it would have no limit); a process whose stop() failed keeps its subscription until it
crashes.

**Left out.** The other low-frequency types (each has a consumer of its own), and message ids:
those of polled ratios, open interest and funding contain the time of the poll
(`nats_publisher.py:488-556`), so the stream's deduplication does not apply to them.

### 2.7 DerivBook

**State.** As `SpotBook`, with the `pu` chain (`expected`), the buffer kept until the first
snapshot, `ready` (`initialization_status`), `keyed` (is the symbol still in
`message_buffers`), and the rebuild task.  start() initializes symbols one by one: those
before this one are "ahead", the rest "behind".

**Actions.** `Enqueue`, `Drop`, `HandlerEnds`: `_websocket_message_handler`.  `Store`,
`StoreFails`, `NapEnds`, `Process`, `Published`, `Reinitialize`, `ReinitializeFails`:
`_process_message_queue` and what it calls. `RebuildFetched`, `RebuildFails`:
`_async_reinitialize`.  `Connect`, `OthersDone`, `Fetched`: `start()`.  `Cancel`, `Close`:
`stop()`.  `ForcedCleanup`: `_cleanup_data_buffers` of `core/memory_manager.py`, which calls
`clear()` on the dictionary of buffers (859), registered by `main.py:1957`.

**History.** `dropped` are updates thrown away by the early drop, `lost` those that were given
up at a point where the `pu` check cannot notice: pushed out of the buffer, arrived during a
rebuild, or before a rebuild without a snapshot.

**Left out.** Several symbols on one connection, and messages of other types.

### 2.8 CollectorLife

**State.** `main`, `current`, `began` are `main()` and the loop of `_start_data_collection`;
`launch`, `awaited`, `since` are `start_exchange_managers` of each exchange; `task` and `due`
the starts of the managers; `recorded` and `results` are `active_managers` and the successes
that count. `stopEvent` and `requested` are the two flags that end a run.  `left` are managers
whose start failed or was cut, but whose message processors and publish consumers go on.

**Time.** `clock` counts time spent in starting managers: the time-outs matter only relative
to each other. `Tick` is enabled only when nothing else can happen at this time, so tasks run
promptly; a manager's start that ends at the instant of its time-out may do either.

**Actions.** `LaunchFirst`, `LaunchNext`, `TakeResults`, `ExchangeTimesOut`:
`_start_data_collection`. `TakeResult`, `ManagerTimesOut`: `start_exchange_managers`.
`StartEnds`: `_start_single_manager`.  `Signal`, `StopBegins`, `LoopEnds`, `StartOver`:
`main()` and the loop around it.  `ManagersStop`, `StopHangs`: `stop()`, which awaits each
manager's stop() without a time-out; one that waits for room in a queue never returns.
`RestartNeeded`: the process monitor, at any time; its thresholds are abstracted to that
choice.

**What a start leaves.**  A book manager's start() creates its tasks
(`base_orderbook_manager.py:311–322`) before it does what can fail, and sets `_is_running`
last.  `NotStarted` says what follows: a start that fails calls stop(), which returns at once
(343–344); one that is cancelled does not even call it.  Either may leave tasks that no record
names.

**Left out.** The file locks, test mode, HTTP server and monitoring tasks, a NATS connection
that fails (the start goes on), and an exception after the last group (`main.py:1998–2000`,
1274–1276), which would give a start up with managers recorded: the tasks created there catch
their own.

## 3. Runs

| Run | Checks | Distinct states |
|---|---|---|
| `cold_copy` | `TypeOK`, `NoHoleBelowWatermark`, `NoneInNeitherStore`, `FaultFreeExactlyOnce`, `DuplicatesPaidFor`; implements `WindowCopy` (`KeepsPromise`); `OwedRowsAreCopied` | 465 000 |
| `cold_cleanup` | finds `DeletedRowsAreCopied` violated | – |
| `hot_batch` | `TypeOK`, `NoRowForgotten`, `BadRowCostsOnlyItself`, `CopiesPaidFor`, `StopSettlesEarlyRows`; `TimedRowsLeave`, `StopCompletes` | 403 000 |
| `jetstream` | `TypeOK`, `NothingForgotten`, `CopiesPaidFor`, `OneRuns`; `PublishedIsStored` | 373 000 |
| `spot_book` | `TypeOK`, `HolesHaveCauses`; `UpdatesAreCovered` | 92 000 |
| `spot_hole` | finds `PublishedExact` violated | – |
| `deriv_book` | `TypeOK`, `HolesHaveCauses`; `IdsAscend`, `UpdatesAreCovered`, `RebuildEnds` | 137 000 |
| `okx_book` | `TypeOK`, `HolesTakeARestart`; `BookComesBack`, `GapHeals` | 350 000 |
| `okx_gap` | finds `GapHeals` violated, with two symbols | – |
| `snap_poller` | `TypeOK`, `AnswersAreOwn`; `OnlyPeersClose`, `LockIsPassedOn`, `FetchHeals` | 201 000 |
| `snap_stuck` | finds `ConnectionComesBack` violated | – |
| `collector` | `TypeOK`, `RunningIsRecorded`, `GivesUpWithoutAny`; `SignalEnds` | 210 000 |

### 3.1 What they show, and why the bounds are enough

The types, the other invariants, `IdsAscend`, `OnlyPeersClose` and `KeepsPromise` are proved
for every size (section 5): for them a run shows that its mutants are found.  The bounds below
matter most to the liveness properties, which only these runs check.

**`cold_copy`.**  Two rows in a table with safety lag 1 and a second table without rows, in
all three bootstrap settings, windows of length 2, up to two catch-up windows a round, one
fault (a failed statement, a kill or a reset) anywhere.  One row may be in the hot store
before the start, the other falls on the boundary of a window; each may arrive in time or
late, so that it lies in the window under way, before it, or after it.  The second table is
there because the state file is shared: writing one watermark can lose the other (that is the
mutant of `KeepsPromise`).  Four ticks give a table two or three windows and a round with
cleanup.  The invariants are proved for any number of rows, tables and faults (section 5), so
the instance only has to be large enough for the mutants to bite.  What it shows beyond the
proofs is `OwedRowsAreCopied`: once faults stop, a punctual row between a table's watermark and
the last safety end is copied.  The watermark meant is `Mark` (2.1), so rewriting the file is no
way out.  There are two: the watermark is really lost, by a reset or by a kill while the file is
being written, or a bootstrap that was interrupted begins again and seeds the table beyond the
row.

**`hot_batch`.**  Two data types; three order book rows, one of which the server refuses, and
a trade.  The thresholds are 3 and 2, chunks hold 2 rows: a full book buffer is two chunks,
and the refused row fails one with a good row in it.  One retry, one insert that fails though
the row is good, both driver settings.  With one such fault no good row may be given up at
all: that is what `BadRowCostsOnlyItself` says here.  Its boundary (a good row that is given
up after exactly as many faults as it has attempts) needs two faults, which safety and
liveness in one run do not leave room for.

**`jetstream`.**  Two processes, two starts, three messages of which one is refused, two
deliveries and two attempts per delivery, two faults.  Two processes are enough for one to
open the lock file while the other unlinks it, or for one process to take over from another or
to come back.  Two messages let the consumer begin behind the first (`DeliverPolicy.LAST`),
three let a consumer that was not meant to be there bring two stored ones again for one fault.
The four invariants are proved for any number; the run adds that what is published is stored.

**`spot_book`.**  Six updates, two levels, messages dropped from a queue of two, one drop, one
failed snapshot, one lost connection (in order or not), one refused reconnection.  The real
queue drops at nine tenths of its size; only that the limit can be reached matters.  Six
updates let a book be snapshotted, lose a message, lose its connection, and process a message
of each connection afterwards.

**`deriv_book`.**  The same sizes, a buffer of two, and any number of drops, rebuilds and
losses that six updates leave room for; stop() and a forced cleanup at any time.

**`okx_book`.**  One symbol, either manager, a queue and a buffer of two, rebuild after two
errors of a kind or three of any, two drops, one loss, one restart of the numbers, one refused
subscription.  Updates are not bounded.  Two drops let a gap occur again in the middle of
healing the first.

**`okx_gap`.**  Two symbols and the spot manager, everything else at its least: no loss, no
restart, one drop.

**`snap_poller`.**  Two symbols: enough for one to hold the lock and one to wait, for one to
handle a loss while the other connects, and for answers to reach the wrong one.  Two losses,
so that a connection can be lost that was opened after another; one refusal; two answers
outstanding, one of them of a request that has timed out.  `snap_stuck` allows one loss and
one refusal: either alone stops the poller.

**`collector`.**  A first group with an exchange of three managers and one of a single
manager, a second group with one.  A unit of time is 30 seconds: 4 is `startup_timeout` (120
s), 5 the exchange's time-out (150 s).  A start takes no time or more than an exchange gets,
and ends well or fails; the proof is for any durations.  Three managers: two that are slow and
one that is forgotten behind them.

### 3.2 Deadlock

It is checked for the replicator, which never ends.  It is off elsewhere: the hot service ends
once stop() is done and is started only so often in `JetStreamIngest`; the exchange runs out
of updates in `SpotBook` and `DerivBook`; stop() ends `SnapPoller`; the collector exits; an
OKX symbol whose subscription was refused has nothing left to do.

### 3.3 Fairness

* `ColdReplicator`: weak fairness of `Work` (the loop takes its next statement for as long as
  the process lives; statements have time-outs), of `Restart` (the services run under a
  supervisor that restarts them) and of `Tick`.  Nothing is assumed of `Ingest`, `Crash`,
  `Stop` or `ResetState`.
* `HotBatch`: weak fairness per type of the flush, the callback and the timer, and of
  `start()` and `stop()`: asyncio runs every task that is ready, its locks are FIFO, inserts
  have time-outs, sleeps end.  Nothing is assumed of messages or the stop signal.
* `JetStreamIngest`: weak fairness of the broker (it delivers, expires and redelivers) and of
  each process.  Nothing is assumed of starts, stops or publishing; `PublishedIsStored` has as
  its premise that in the end some process stays subscribed.
* `SpotBook`: weak fairness of the receive loop, the worker, the task that starts or
  reconnects, and REST answers.  Nothing is assumed of the exchange or the network.
* `DerivBook`: weak fairness of the handler, the processor, the rebuild (its wait ends after
  five seconds), start() and stop(), and of the answer to the first snapshot request.  Nothing
  is assumed of the answer to a rebuild's request.
* `OkxBook`: weak fairness of connecting (the client tries without limit), and per symbol of
  the processor, the reset tasks, the passing of time, and of the exchange, which goes on
  sending what is subscribed.  Without that last one no gap could ever be noticed.
* `SnapPoller`: weak fairness of the loop, the reader and each fetch: time-outs and back-offs
  end, and an attempt to connect succeeds or fails.  Nothing is assumed of answers, losses or
  stop().
* `CollectorLife`: weak fairness of `main()`, of the exchanges' tasks, of time, and, while
  exchanges are waited for, of the starts.  It does not assume that the stop() of a manager
  returns: `main()` may hang there, and `SignalEnds` names that as one of the ends.

## 4. Disagreements between code and documentation

1. **Cleanup deletes rows that were never copied** (`cold_cleanup`).  `replication.py:191`
   says of the cleanup 基于水位的补偿清理（确认冷端已接收且超过延迟）, *the cold side is confirmed to have received*.
   When the `SELECT min()` of the full-history bootstrap fails it reads as 0 (461), no row is
   seeded (218), and the watermark is set to the safety end all the same (268).  Everything
   older is then deleted.  A seed that breaks off has the same effect.  `NoneInNeitherStore`
   says what does hold: of punctual rows above the point where the watermark started, none is
   lost.
2. **A book with a hole is published as complete** (`spot_hole`). `process_websocket_message`
   sets `last_update_ids` again after awaiting the publisher (`binance_spot_manager.py:197`).
   A snapshot applied meanwhile by a reconnection gets the newer number; the next message
   passes the gap check.  `HolesHaveCauses` says what does hold: this and a snapshot that
   could not be fetched are the only causes.
3. **A poller whose reader notices the loss never reconnects** (`snap_stuck`).
   `binance_derivatives_snap_manager.py:21` 重连：显式关闭旧连接后再重连；不降频, *close the old connection,
   then reconnect, at the same rate*.  `_close_ws`, called by the reader, cancels and awaits
   the reader (221–222).  The CancelledError is not an `Exception`: `_recv_task` and `_ws`
   keep their values, and every fetch from then on dies at the same await, logged nowhere.
   `FetchHeals` says what does hold: a loss is healed if a fetch that cannot send notices it
   first.
4. **A refused connection stops the poller for good** (`snap_stuck`, with `MaxLosses = 0`).
   `_ensure_connection` calls `_schedule_reconnect` under `_ws_lock` (148), which calls
   `_ensure_connection` (215) and waits for the lock its own task holds.  `:53` says of
   `max_reconnect_attempts` that -1 is without limit.  `LockIsPassedOn` says what does hold:
   without a refusal nobody waits for ever.
5. **One OKX symbol's good messages hide another's gap** (`okx_gap`).
   `okx_spot_manager.py:166` 如果连续序列错误超过阈值，触发完整重新同步, *when sequence errors in a row pass the
   threshold, rebuild*.  The counters belong to the manager, and every valid message of any
   symbol takes one error back (`base_orderbook_manager.py:1502`); the counter of the symbol's
   own (151–170) is dead code behind a second validation.  A symbol all of whose updates are
   refused keeps its old book while another delivers as often.  `GapHeals` says in `okx_book`
   what does hold: alone, a symbol heals.

**Met while modelling, without a run.**

* Hot storage: rows that arrive while stop() awaits the cancelled timers stay in a buffer
  nobody flushes (`hot-storage-service/main.py:1264` 服务停止时刷新剩余数据); `StopSettlesEarlyRows` says
  what is settled.
* The lock file can be unlinked under a process that has just opened it, and by one that never
  held it (`hot-storage-service/main.py:463`; 429 防止同机多开): `OneRuns` names both exceptions,
  `raced` and `hung`, and the proof shows there are no others.
* Spot book: a reconnection is tried once, and a loss during one is ignored
  (`base_orderbook_manager.py:1020`; `:124` `'max_attempts': -1`); an orderly close (code
  1000) ends the receive loop without any, although 438–439 expects that code; the class
  comment (33–36) says a rebuild starts from the current message, while the code fetches a
  snapshot and gives the message up.
* Derivatives book: after a forced cleanup the next gap sets the symbol waiting and then fails
  on the missing key, and every later message fails and costs a second: the book is dead for
  good (`RebuildEnds` excepts it).  A rebuild accepts any next message, so what came meanwhile
  is a hole the `pu` check cannot see (`:44` 严格的pu连续性检查，确保数据完整性); messages older than the
  first snapshot are replayed over it; a lost connection is never opened again; a rebuild
  outlives stop().
* OKX: the escalation to a reconnection after `max_resync_attempts` has no effect; the text
  heartbeat's time-out only logs; errors of a subscription are neither logged nor retried; the
  event-age resync of the derivatives manager clears the book again five seconds later; the
  throttle can suppress the last of a series of updates.
* Base class: `_stop_publish_consumers` (430–451) awaits `put(None)` on a queue that may be
  full, after the flag its consumer looks at has been cleared (395): the consumer may be gone,
  and then stop() never returns, nor does the collector's (`StopHangs`).
* Collector: one manager whose start fails or is cut leaves processors and publish consumers
  behind that nobody stops (2.8), though stop() stops *all managers* (`main.py:1015` 停止所有管理器);
  two slow managers in one exchange make healthy ones behind them run unrecorded; a signal
  during the start is noticed only when it ends, and one together with a restart request is
  forgotten; `restart_count` and `last_restart_time` are never set, so `max_restart_attempts`
  and the cooldown (`process_monitor.py:67`) never apply; the uptime that asks for a restart
  is the operating system process's, which a restart within the process does not reset.

## 5. Proofs

All in TLAPS, for every value of the constants that satisfies the assumptions, which are:

| Module | Assumptions |
|---|---|
| `ColdReplicator` | rows are finitely many and their stamps positive (`RowsAssumption`); types of the settings (`SettingsAssumption`); the clock is above every lag plus a window, which holds of epoch milliseconds (`ClockAssumption`) |
| `HotBatch` | rows are finitely many (`RowsAssumption`); thresholds and chunks are positive (`SettingsAssumption`) |
| `JetStreamIngest` | processes are finitely many, the limits of deliveries, attempts and unacknowledged messages positive (`SettingsAssumption`); `Nobody` is no process (`NobodyAssumption`) |
| `SpotBook`, `DerivBook`, `OkxBook` | sizes of queues, buffers and books are positive (`SettingsAssumption`); a book may have any number of levels, OKX any set of symbols |
| `SnapPoller` | there is a symbol (`SettingsAssumption`) |
| `CollectorLife` | there is a group, and none is empty; every exchange has a manager; a manager's time-out is positive and shorter than its exchange's, as `startup_timeout` and `startup_timeout + 30` are (`SettingsAssumption`) |

The bounds of section 3 (faults, losses, drops, ids, time) are constants like the others: a
theorem holds whatever they are.

| Module | Theorem | Statement |
|---|---|---|
| `ColdReplicatorProofs` | `Invariance` | `Spec => []IInv` |
| | `TypeCorrect` | `Spec => []TypeOK` |
| | `NoHole` | `Spec => []NoHoleBelowWatermark` |
| | `CleanupSafe` | `Spec => []NoneInNeitherStore` |
| | `Implements` | `Spec => KeepsPromise`: it implements `WindowCopy` |
| | `CopyInvariance` | the inductive invariant of the copies |
| | `CopiesArePaidFor` | `Spec => []DuplicatesPaidFor` |
| | `SmoothIsExact` | `Spec => []FaultFreeExactlyOnce` |
| `HotBatchProofs` | `TypeCorrect` | `Spec => []TypeOK` |
| | `NoneForgotten` | `Spec => []NoRowForgotten` |
| | `CopiesArePaidFor` | `Spec => []CopiesPaidFor` |
| | `OnlyBadRowsAreGivenUp` | `Spec => []BadRowCostsOnlyItself` |
| | `StopSettles` | `Spec => []StopSettlesEarlyRows` |
| `JetStreamProofs` | `LockExcludes` | `Spec => []OneRuns` |
| | `AckedIsStored` | `Spec => []NothingForgotten` |
| | `TypeCorrect` | `Spec => []TypeOK` |
| | `CopiesArePaidFor` | `Spec => []CopiesPaidFor` |
| `SpotBookProofs` | `TypeCorrect` | `Spec => []TypeOK` |
| | `HolesExplained` | `Spec => []HolesHaveCauses` |
| `DerivBookProofs` | `Invariance` | `Spec => []IInv` |
| | `TypeCorrect` | `Spec => []TypeOK` |
| | `HolesExplained` | `Spec => []HolesHaveCauses` |
| | `IdsAscendAlways` | `Spec => IdsAscend` |
| `OkxBookProofs` | `Invariance` | `Spec => []IInv` |
| | `TypeCorrect` | `Spec => []TypeOK` |
| | `HolesTakeBoth` | `Spec => []HolesTakeARestart` |
| `SnapPollerProofs` | `Invariance` | `Spec => []IInv` |
| | `TypeCorrect` | `Spec => []TypeOK` |
| | `OwnAnswersOnly` | `Spec => []AnswersAreOwn` |
| | `ClosedByPeersOnly` | `Spec => OnlyPeersClose` |
| `CollectorLifeProofs` | `Invariance` | `Spec => []IInv` |
| | `TypeCorrect` | `Spec => []TypeOK` |
| | `NoneRunsUnrecorded` | `Spec => []RunningIsRecorded` |
| | `GivesUpRightly` | `Spec => []GivesUpWithoutAny` |

### 5.1 ColdReplicator

`NoHoleBelowWatermark` alone is not inductive: the step that advances the watermark is safe
because of what the steps before it did.  `IInv` adds

* `WindowOK`: while a table's windows are copied, everything punctual below `cur`, and from
  the INSERT on everything below `WinEnd`, has a copy.  It survives `Ingest` because a row
  below the safety end of the round that arrives now is late by definition;
* `BoundedMarks`: no watermark, origin or write under way passes the safety end of the latest
  round, for the same reason;
* `FileOK`: an absent or torn file shows no watermark;
* `Vouched(save)`: what is being written is as true as what was there.

The count comparison is not used: the watermark is safe because a window's INSERT returned
without an error, and the verification that follows can only delay it.  `NoneInNeitherStore`
is preserved by cleanup since the cutoff lies below a watermark that `NoHoleBelowWatermark`
vouches for.

**Refinement.**  Each action gets a lemma: it maps to one action of `WindowCopy` or to a
stutter (`QuietRefines` for those that only move the program counter or copy rows).

**Copies.**  `CopiesInv` follows each row: its copies, and one more if it may still come again
without a further fault, are at most one plus what is due.  Here the count comparison does
matter: `CountsOK` says that it succeeds, or that a fault or a late row has already paid for
the copy that its failure leads to, so a window is not copied again for nothing.  `SmoothInv` says of
a full history with nothing failed and nothing late that the tables get their watermarks one
after another (`PhaseOK`), and that the rows copied are exactly those below the point their
table has reached (`Exact`).

### 5.2 HotBatch

Three layers.  `Frame` says how the tasks fit together: who stands in the line of a type's
lock, that the task at a flush is the one that holds it and that the job is its own
(`InLine`), and which timer stop() is cancelling (`Stopping`).  `Exclusive` says that one task
at a time is inside a piece without an await.  `Moves` then shows that every step, whoever
takes it, does one of a few things to the rows: a row enters a buffer, waits for the lock, is
taken over by a flush, leaves one, or nothing happens to it.  The promises are proved over
`Moves` and no longer action by action: `Sorted` (a row is in one place only) gives
`CopiesPaidFor`; that what a callback took is in some place gives `NoRowForgotten`;
`Attempted` (how often the row now sent alone has failed) gives `BadRowCostsOnlyItself`; and
`Early` (where the rows from before the stop signal may still be, at each place of stop())
gives `StopSettlesEarlyRows`.

### 5.3 JetStreamIngest

**The lock.**  The inductive invariant is `raced \/ (Ordered /\ Subscribed)`.  `Ordered`: as
long as no file was unlinked that another process has open, every open file is the one at the
path, and who is past `Lock` holds the lock on it; so two of them would hold the same lock.
`Subscribed`: a subscription outlives its process's turn only if stop() failed.  `raced` and
`hung` are never reset, which is why the invariant may give up once they are set.

**Acknowledgement.**  `NothingForgotten` needs little help: `DataOK` says where message
numbers may come from, so that a row that is counted is one that exists. The argument is
`Careful`: every step but a delivery or a new consumer leaves the consumer's range alone and
takes a message from those pending only if it is stored or given up by JetStream.  It does not
use the lock: two processes at once would store twice, but forget nothing.

**Types.**  There is one file number more than there are processes, so a start always finds a
free one; that is a counting argument over the open files.

**Copies.**  Here the lock matters.  For each message, count its rows in ClickHouse, its
places in the inbox of the one process that runs, and one more if JetStream may still push it
there without a fault (`MayCome`).  What these are in excess of one, summed over the messages,
with the processes that may still make a consumer (`Opening`), is paid for by faults, by
starts after the first, and by `replayed`.  A call of `_subscribe_to_data_type` that does what
it should brings at most one stored message again, the last; one that fails brings those
counted in `replayed`, which is the one charge that grows with the stream.  `Unused` describes
the time before the first consumer.  Each action has a lemma saying what it does to the sum.

### 5.4 The order books

**SpotBook.**  The invariant is `fetchFails > 0 \/ raced \/ (Exact /\ BookKept)`: the book is
as of `last` whenever the worker looks at it, and as of the message just applied while it
awaits the publisher.  Nothing needs to be known of the messages on their way, because a
message that does not continue the book is never applied to it.

**DerivBook.**  `Ordered`: ids ascend through the queue and the connection, and all of them
are above the published id; this gives `IdsAscend`, although the sequence number itself goes
back in a rebuild.  The same holds through the buffer before the first snapshot (`Gathered`).
`Phases` says which of worker, rebuild and start() may
be where at the same time, `Kept` what the book lacks at each of their awaits: an update that
is neither in the book nor still to come is in `lost`.

**OkxBook.**  Numbers are ages, so the invariant of a symbol is about ages: they fall from the
buffer through the queue to the exchange.  While nothing has been dropped, each update waiting
continues the one before it (`Joined`); while the numbers have not begun again, no message
waiting escapes the comparison with its predecessor (`NoneAgain`).  Either is enough for an
update that is accepted to be the next one, so the book is whole until both have gone.

### 5.5 SnapPoller

The line of the lock has nobody twice behind its head, and only its head is at an await under
the lock.  `ClosesNone`: while a connection is open nobody is closing one; this is what makes
`OnlyPeersClose` inductive.  A registered id is the one its fetch awaits, and an answer found
in the inbox carries the id that it was asked with; that a request finds a free id is proved
by counting the outstanding ones.

### 5.6 CollectorLife

`RunningIsRecorded` speaks of the end of a start, so the invariant has to follow it:
`Untouched` (exchanges not begun), `Counted` and `Taken` (what has been taken of one that is
being waited for: all the managers before the one awaited), `CutIsHeld` (one that timed out
was holding a manager it had not taken), and `Times`: the time at which each was begun, since
when it has been awaited, and that nothing that was due earlier is still outstanding, because
time passes only when nothing else can happen.  From the last follows that an exchange that is
cut off has lost time twice.  `LeftIsLate` does the same for the tasks a start leaves: whoever
is cut, by its own time-out or with its exchange, was awaited for `ManagerWait` or longer or was
due later than that (`OverdueIsLate`, `CutKeepsLate`), so one slow or failed manager is both
necessary and, as section 4 says, enough.

### 5.7 Lemmas shared

Sums over rows and messages are the folds of the community modules.  They are unfolded by one
step, and what needs all steps (that a sum grows with its terms, and by how much) is proved by
taking a smallest subset for which it fails, through the least-number principle (`WFMin` and
`NatLessThanWellFounded`), which the library states without an operator parameter: `Least`,
`SmallestSet`, `PartialFacts`, `TotalGrows`.  Each module with theorems stands alone, so
`ColdReplicatorProofs` and `JetStreamProofs` each state the ones they use.

What the proofs asked of the models: assumptions that had been left unsaid (positive sizes,
finite sets, a plan without empty groups), and definitions in a form that can be reasoned
about (`Without` of `HotBatch` and `SnapPoller`, `Aged` of `OkxBook`).

### 5.8 Model-checked only

Liveness under fairness is beyond the proof system: `OwedRowsAreCopied` (`cold_copy`),
`TimedRowsLeave` and `StopCompletes` (`hot_batch`), `PublishedIsStored` (`jetstream`),
`UpdatesAreCovered` (`spot_book`, `deriv_book`), `RebuildEnds` (`deriv_book`), `BookComesBack`
and `GapHeals` (`okx_book`), `LockIsPassedOn` and `FetchHeals` (`snap_poller`), `SignalEnds`
(`collector`).  So is ENABLED: that the replicator never deadlocks is TLC's.  The violations
of section 4 are TLC's counterexamples.  No module has a recursive definition.

## 6. Plan

The safety that the runs check is proved.  What could be added, in the order of worth:

1. Abstract specifications of `HotBatch` and `JetStreamIngest`: one store that takes each row
   at least once.  `Moves` and `Careful` are most of the refinement proofs.
2. Action properties behind the liveness of section 5.8: what each step of a rebuild, of a
   connection's loss, of stop() leaves behind for the next, so that only fairness is TLC's.
3. The hazards without a property: a reconnection that is tried once, an orderly close that
   ends the loop, the end marker on a full queue.
4. The other pollers, and the order book base class's start() and stop().

### Not modelled, and why

* **Trade, liquidation, funding, open interest, ratio and volatility managers**: each message
  is forwarded by itself; the polls have the shape of `SnapPoller` without its shared
  connection.
* **Normalizer, data types, validators**: pure conversions.
* **Collector processes and IPC**: no service starts a `ProcessManager`; its restart of a
  child is a TODO.
* **Circuit breaker, retry, and the core library**: nothing that runs goes through them
  (`nats_publisher._publish_with_retry` is the only importer of a retry mechanism, and nothing
  calls it); `core.networking.websocket_manager` is the one class main.py names, and it keeps
  no state that the books depend on.
* **Backup and old derivatives managers**: not imported.
* **Memory and resource managers** but for the forced cleanup, **monitoring, observability,
  configuration, middleware**: measurements, views and settings.
* **start() and stop() of the order book base class**: their only hazard, the end marker on a
  full queue, is a single await and is named in section 4.
