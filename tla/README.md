# TLA+ models of toolkit-cpp

toolkit-cpp is a set of C++ components for long-running services: message
transport over named pipes, RabbitMQ and WebSockets, a watchdog that reports a
module's health, configuration files that are validated and watched, loggers,
and many small helpers. This directory models the parts in which threads,
processes and files meet. `PROJECT.json` maps each definition to the lines it
models and lists runs, mutants, findings, hazards and theorems.

## 1. The system

| part | state | operations | hard behaviour |
|---|---|---|---|
| transport client (`BaseTransportClient`, `BaseTransportAny`) | bounded deque, mutex, two work flags, status with time stamp, link | `send`, `setOutDeqCapacity`, `run`, `getStatus`, stop flags | unlocked test before a locked pop, eviction, reconnection, a status written by two threads |
| transport server (`BaseTransportServer`) | bounded deque, link, listener thread, flags | `addToIncoming`, `setInDeqCapacity`, `run` | listener against `run`, reconnection with a running listener, release that also stops |
| pipe brokers (`PipeClient`, `PipeServer`, `PipeTransportKit`) | two named pipes, framing position | `sendToStream`, `startListen`, `sendAnswer`, `readAnswer` | frames cut by a full pipe or a death, sizes at the limit, restart of one side |
| RabbitMQ and WebSocket brokers | channel, declaration callbacks, endpoint table, one answer slot | the same broker interface | late callbacks, closing of an old connection, overwritten answers |
| watchdog (`WatchDogWorker`, `SystemdClient`, `ModMonClient`) | status, `m_sendOne`, flags, worker thread, client | `start`, `stop`, `notify`, `worker` | four unlocked variables, initialisation in the new thread, log callback that sends |
| configuration (`ConfigManager`, `ConfigMonitor`, `FileMonitor`, `ConfigValidator`) | current and previous JSON, last stat, dump and tree, output file | `loadInputConfig`, `startMonitor`, `stopMonitor`, `setParamValue`, `saveOutConfig` | edits between stat and read, death while saving, replacement of refused values |
| loggers (`LoggerPP`, `logger_Wolh`, `control_pointer`) | log files and archives, day, table of control points | rotate, clean up, write, open/close a point | lines written during the rotation, restart over midnight, names already taken |
| sockets (`beast_websocket`, `boost_tcp`, `http`) | streams, table of clients, `io_context` | `sendAll`, sessions, asynchronous handlers | one `io_context` stopped and run by two threads, blocking writes under a mutex |
| connection pool (`SOCI`) | entries, mutex, condition variable | `try_lease`, `give_back` | signal after the unlock, deadline against a returned entry |
| devices and time (`comport_manager`, `work-intervals`, `Timer.h`) | port state, error counters, intervals | open, read, write, `isRun`, `update` | signed and unsigned counts, boundaries of the day |
| predecessors (`old/`) | as the watchdog | as the watchdog | as the watchdog |

How they interact: an application calls `createBroker()`, runs `run()` in a
thread and calls `send()`; `run()` drives a broker library through
`checkConnection`, `createConnection`, `releaseConnection`, `sendToStream`. A
broker's listener thread feeds `addToIncoming()` of the server. `ModMonClient`
is a watchdog client that owns a transport client and installs a log callback
that calls `send()`. `ConfigManager` owns a `ConfigMonitor`, which is a
`FileMonitor`, and a `ConfigValidator`; `LoggerPP` watches its configuration
with a `FileMonitor` too.

## 2. The models

Each module keeps the control of its source (guards, early returns, error
paths, order of effects); an action is one access to shared state or one
critical section. Data are numbered messages, small sizes and verdicts.

**LossyFifo** is what a transport queue promises: messages enter in order, the
oldest may be dropped for room, the one at the head is taken, then delivered or
lost; a change of capacity clears. It knows nothing of threads and links.

**TransportClient** models `BaseTransportClient` with `BaseTransportAny`.
`SendLock`/`SendPush` are the two halves of the critical section of `send()`;
`Run*` are the steps of `run()` in their order; `GetStatusElapsed`/`Store` split
`getStatus()` at its clock reading. A broker answers its four operations
arbitrarily over a link that may break. `fate` records what became of a message.

**TransportServer** models `BaseTransportServer` over three brokers that differ
in what `createConnection()` and `releaseConnection()` do to the link and to the
listener thread: assigning to a joinable `std::thread` ends the process.
Each broker has one receiving thread, so there is one listener.

**PipeRequests** is the framing on the command pipe. A byte is a pair (message,
position), so a misaligned read is visible. `SendHead` and `SendPayload` are the
two `write()` calls on a non-blocking pipe that may be short; `Listen` is one
successful read of `startListen()`. A client may die in between and be restarted.

**PipeAnswers** is the session and the data pipe: the server makes the two files
one after the other, answers with one blocking `write()` that may be placed in
pieces, stops or crashes and starts again; the client's `run()` closes and opens
`m_dataPipe` without a lock while `readAnswer()` is in `poll()` and `read()`. Pipes
are named by the start of the server that made them, bytes are pairs again.

**WebSocketLink** composes `WebSocketClient` and `WebSocketServer`: the client's
`run()` and asio thread share `m_isOpenned` and `m_conHandle`, the server's asio
thread and the answering thread share `m_endPointList`. Handshakes may outlast the
two seconds `checkConnection()` waits, be refused, or be cut.

**WatchDogWorker** has an owner (`start`, `stop`), a module (`notify`, split into
its three stores, as often as it likes) and the worker's steps. Time is the fact
`late` that two intervals have passed since the last update; `overwritten` records
that the verdict on a hang has replaced a status notified after it was reached. The systemd client may fail to
send; the module monitor's client always queues, and a second `open()` of it ends
the process, because nothing joins the transport thread of the first session.

**ConfigManager** composes manager, monitor, file monitor and the validator's
verdicts for one thread that loads, saves, monitors and destroys the object, an
editor that rewrites the file (in place, by removal, or by rename), an application
that sets parameters and stops the monitor, and deaths of the process. `CheckStat`
and `CheckDump` are the two reads of the file; `Save*` are the steps of
`saveOutConfig()`, each of whose calls may fail. `setParamValue()` checks nothing:
any value, right or wrong, and any key, known or not, may be set; an unknown key, or
one set before anything was loaded, ruins the configuration (`Ruined`).
`SetParamValue` takes the lock and `SetParamDone` assigns; a `getConfig()` in between,
which takes no lock, copies the old value, the new one or any other (`Copies`). The
history variable `misset` has the parameters that were set wrongly or while a copy was
made. A configuration is flat, and a value is known by its verdict: within the
constraint, to be replaced, or refused with an exception. One dump of the file is one
step.

**ConfigValidator** is `validateAndReplaceConfig()` over nested objects, maps and
arrays as recursive operators: the walk, which goes over an array element by element,
what a refused value is replaced by, and the search for lost parameters. The properties compare it with definitions that do
not follow the walk.

**ModMonClient** has three threads that log (the module, the watchdog's worker and
`run()` of the transport client). A LOG takes the logger's lock and calls the
callback of `ModMonClient::open()`, which calls `send()` and takes `m_mtxDeque`; a
full queue logs again inside that call. The locks of logger and dispatcher are one
recursive lock.

**ComPort** is `TComPortManager` with a device that answers fully, shortly or not
at all. **WorkIntervals** is `TWorkIntervals` over hhmmss numbers, compared with a
reference that counts seconds.

**ConnectionPool** is `soci::connection_pool`: each step of `try_lease()` and
`give_back()` between two accesses of the mutex, with spurious wake-ups, deadlines,
and `give_back()`'s signal after its unlock.

**WsServerSync** is `TWebSocketServerSync`: `startListen()`, a `do_session()` and
`recvAndAnswer()` per client, and `sendAll()` of another thread, over clients that
read, do not read, or are gone.

**WsClientAsync** is `TWebSocketClientAsync`: the application's thread and the
`ping()` thread each stop, reset, give an operation to and run the one `io_context`,
and whoever runs it executes the handlers of both. `jobs` counts the operations
whose handler has not run.

**LogRotation** is the loop of `LoggerPP::run()` and one log file: copy, truncation
and clean-up, with lines, midnights, restarts and a clock set back in between.

`MC*.tla` hold definitions for TLC only. **MCSmallParts** puts the last eight, which
share nothing, into one run: the variable `part` says which of them moves, and its
state graph is the disjoint union of theirs.

## 3. The runs

Passing runs:

| run | question | bounds |
|---|---|---|
| `client` | is the queue a lossy FIFO, is every message accounted for, is the pop safe; with keepConnect, is each write over a link checked in the same iteration; does `run()` stop, does the queue drain, does the status recover | 2 producers, capacity 1, 3 messages, 1 break |
| `server` | order, bound, safe pop, one listener and truthful status over three brokers; refinement of LossyFifo; does stop end `run()`, do requests leave | 5 requests, capacities 0 and 1, 1 break |
| `pipe_requests` | until a frame is cut, is the listener in step and does everything arrive | header 2 bytes, payloads 1, 2, 4, pipe 6 growing to 8, 5 messages, 1 death |
| `pipe_answers` | are answers whole and in order, does a reader that lost its place find it, is no descriptor lost, is the session restored, do both calls return | header 2 bytes, pipe 3 growing to 4, buffers 0 and 1, 2 answers, 2 starts of the server |
| `websocket` | is the flag truthful, is there one connection, are answers routed and in order, does the client reconnect | 1 slow handshake, 1 fault, 2 requests, the second answered by a mask |
| `watchdog` | does the period respect systemd, is there silence after "Module Stop", does `stop()` return, is a notified status and a hang reported | 2 sessions, any number of notifications |
| `config_safety` | is the configuration within the constraint but for what the application set wrongly, is no edit overlooked, is the output whole | 3 texts (right, to be replaced, refused), 2 edits, 1 death, 1 failing call on the output file, 1 setParamValue with any value and a known or an unknown key |
| `config_live` | does the last text arrive, does the callback run for new trees only, does stopMonitor end the loop | 3 texts, 2 edits, every option, 1 setParamValue that ruins the configuration |
| `small_parts` | validator: is a wrong value kept out, a right one kept, a reload stable. Port: does the status tell, is a loss noticed. Intervals: does `isRun()` follow the list. Monitor: does a LOG return. Pool: exclusive entries, no lost wake-up, a time-out that ends. Server: streams that exist, messages for everyone, leavers removed. Asynchronous client: one operation of a kind, handlers that are run, a connection that comes back. Log file: no line lost, lines filed by day | see `MCSmallParts.tla`; 3 threads on 2 entries, 2 clients, 2 outages, 1 line over 3 days with 2 starts and the clock set back once |

A property of a run often joins several definitions that say one thing together:

| property | joins |
|---|---|
| `QueueIsSound` (client) | `TypeOK`, `QueueBound`, `NewestRetained`, `FifoOnce`, `Accounted` |
| `QueueIsSound` (server) | `TypeOK`, `QueueBound`, `HandledInOrder`, `NoPopFromEmpty` |
| `ListenerServes` | `OneListener`, `OkMeansServing`, `EndsOnlyIfAsked` |
| `RunServes` | `StopsWhenAsked` and `QueueDrains` (client) or `RequestsLeave` (server) |
| `FramesHold` | `TypeOK`, `IntactBeforeCut`, `InStep` |
| `AnswersHold`, `CallsReturn` | `TypeOK`, `AnswersIntact`, `InStep`; `SendReturns`, `ReadReturns` |
| `ConnectionIsHeld` | `TypeOK`, `OpennedIsLive`, `OneConnection` |
| `AnswersFindTheirWay`, `AnswersArrive` | `AnswersRouted`, `TableComplete`; `AnswersInOrder`, `Answered` |
| `Recovers` | `Reconnects`, `ChecksAtOnce` |
| `StatusIsReported` | `TypeOK`, `PeriodFits`, `NotifyIsReported`, `HangIsReported` |
| `ConfigIsSound`, `CallbackFollowsFile` | `TypeOK`, `ConfigInRange`; `OnlyOnChange`, `LastTextArrives` |
| `ConfigIsRight`, `ReloadChangesNothing` | `InForceIsRight`, `RightIsTaken`; `ReloadIsStable` |
| `PortIsWatched` | `StatusTells`, `LossIsNoticed` |
| `WaitersAreServed` | `NoLostWakeup`, `TimedReturns` |
| `SendAllIsSafe` | `StreamsExist`, `ReachesEveryone` |
| `HandlersAreSafe` | `NoOverlap`, `WorkIsRun` |
| `LinesAreFiled` | `LinesKept`, `FiledByDay` |

Why these bounds are enough: capacity 1 reaches the eviction, the empty and the
full queue with two messages, and the later ones meet the states that the
earlier ones left; with capacity 0 the server's eviction empties the queue, and
the proofs have every capacity on both sides. One break or death may fall between any two steps. The
pipe sizes contain a frame that fits, one that fills the pipe and one that has
to wait. Two starts of the server leave the client with files, descriptors and
half-read frames of a server that is gone. One slow handshake gives two open
connections, one fault ends either. Two edits reach one between stat and read and
another between read and record; the proofs have any number, as of failing calls.
The watchdog needs no bound on `notify()`: it keeps no count. Three threads on
two entries have one waiting while the others give back, lease and are woken
without reason. Two outages reach a reconnection that is itself interrupted.
Lines of a log do not meet, so that one line, written at any time, is every line.

Deadlock is checked in `pipe_answers`, `websocket`, `small_parts`, `modmon_outage`
and `pool_timeout`, whose threads have always something to do. It is off in the
others because producers, editor and owner are bounded there and `run()` ends.

Runs that find a violation; each is a disagreement of the code with a comment or
a document of the repository, quoted in `PROJECT.json`:

| run | what happens |
|---|---|
| `watchdog_guarantee` | the mark of a notified status is erased, and a stop then keeps the status from being sent |
| `modmon_outage` | while the broker is away `run()`'s own errors fill its queue, and the warning about the full queue is sent to the full queue without end (capacity 1, LOGs four deep) |
| `pool_timeout` | an entry given back before the deadline is still free when `try_lease()` says that there was none (2 threads, 1 entry) |

Some properties hold only under a condition that the code does not enforce. Each
condition is part of the property or of the constants of the run, and dropping it
makes TLC find a counterexample:

- `NoPopFromEmpty` of the client needs a capacity that is set before `run()`:
  `setOutDeqCapacity()` between the test and the pop (line 162 of
  `BaseTransportClient.cpp`) leaves nothing to pop.
- `SendsVerified` needs keepConnect: without it a message queued between the
  reads at lines 97 and 141 of `BaseTransportClient.cpp` is written without a
  connection check.
- `EndsOnlyIfAsked` needs keepConnect: `releaseConnection()` clears the work flag,
  so that a server without it ends after its first request.
- `OneListener` leaves out RabbitMQ: a reconnection assigns to a joinable thread
  (line 140 of `RabbitMQServer.cpp`) and ends the process.
- `InStep` and `IntactBeforeCut` of the command pipe speak of what precedes a cut
  frame; a death cuts one, and so does a payload of exactly the pipe's size, after
  which the listener reads past its buffer (`PipeClient.cpp:144`,
  `PipeServer.cpp:239`). `WrittenArrives` needs messages that are not empty: after
  a header with size 0 the listener waits for a read of 0 bytes to succeed.
- `AnswersIntact` excludes calls during which `run()` reopened the data pipe, and
  payload bytes are assumed not to look like a header. `Reconnects` needs an
  application that keeps reading (a client that only sends never notices a
  restarted server), a standard input that does not hang up (descriptor 0 is
  polled after a close), and a client that did not open the old data file between
  the server's two `initPipeLink()` calls (`Orphan`). `SendReturns` and
  `ReadReturns` exclude an empty answer followed by another one (`Spinning`).
- `AnswersInOrder` leaves out answers by a mask, which may take another connection
  than their request. `OneConnection`, `AnswersInOrder` and `ChecksAtOnce` need
  handshakes of less than two seconds: a slower one leaves two open connections, of which one is nobody's,
  and its late `on_close()` takes `m_isOpenned` from the one in use. `TableComplete`
  says nothing of entries left behind: `on_close()` asks a socket that is shut down
  for its name, and the entry of an "Unknown" is never erased.
- `StopReturns` needs a `stop()` that the new thread does not overwrite: line 23
  of `WatchDogWorker.cpp` sets `m_localWorks` in the thread itself. It also needs a
  module that stops calling `notify()` at last: each call sets `m_sendOne`, which
  keeps the loop at line 29 going for one more round, so that `stop()` may wait in
  its join for as long as the module goes on.
- `NotifyIsReported` ends with the report, the next `notify()`, a stop, or the verdict
  of a hang. The verdict counts only if the module really is late, or if it was stored
  over a status notified after the clock was read (lines 111-113, `overwritten`): that
  status is lost, and `Status_ErrAsyncTimeOut` reported in its place. `Status_Off` and
  `Status_Startup` are never made a message of (line 80) and nothing is promised of them.
- `ConfigInRange` speaks of the parameters that the application has not set wrongly
  itself (`misset`): `setParamValue()` validates nothing, with an unknown key it
  overwrites the parent before it throws, and what `saveOutConfig()` copies during the
  assignment may be anything. What it says is that such a value stays where it was put:
  loading, replacing and saving never carry it to another parameter.
- `UnchangedIsSeen` and `LastTextArrives` need time stamps finer than a second:
  only the nanoseconds are compared (`FileMonitor.cpp:45`).
- `OnlyOnChange` needs the interval of 500 ms: with another `startMonitor()` makes
  the monitor anew and the loaded tree is reported as a change.
- `StopEnds` needs a call during the loop: `start()` sets the flag that an earlier
  `stopMonitor()` has cleared.
- `OutputIsWhole` needs a `saveJson()` that has not failed before the last rename
  (`spoiled`): `saveOutConfig()` renames whatever there is, a file cut short by a full
  disk or the rest of an earlier save after a failed `fopen()`, and then returns true,
  since `retOK` is overwritten at line 97. It holds over failures of `rename()`,
  `chmod()` and of the destructor's removal, and over deaths at any point.
- `LastTextArrives` and `StopEnds` allow the step to `"crashed"`: a refused
  configuration is reported through a null flag.
- `InForceIsRight`, `RightIsTaken` and `ReloadIsStable` need a valid constraint file.
  They speak of loads that succeed: enumeration mismatches, an object inside a map
  entry and a non-empty array throw. What passes though the constraint does not say so
  is named in the properties: an empty array in place of any parameter, since
  `recurseJogConfig()` looks at the elements of an array only; a null, or an array of
  empty objects and nulls, as the entry of a map, since an array there is checked
  element by element as if it were the entry; a null `Default`. A nested map is checked
  against the size of its section, so that one whose entries are all empty arrays, or
  which has none, may have any size; and the default configuration holds a map's
  template members as entries.
- `LossIsNoticed` needs an application that reads, writes and checks: a failed read
  resets the error counter and every read counts as activity.
- `LogReturns` excludes a process that died as in `modmon_outage`.
- `LeaversAreRemoved` needs clients that, if they do not read, read again or go one
  day; and no answer written to a client that is gone, whose exception ends the
  process. A failed handshake leaves its entry behind (`StreamsExist` covers it).
- `WorkIsRun` and parts of `NoOverlap` and `ComesBack` exclude an `io_context` that
  runs out of work between one thread's `reset()` and `run()` (`robbed`), and
  `ComesBack` (checked as `ClientComesBack`) a failed resolve or handshake, which nobody repeats (`gaveUp`).
- `LinesKept` gives up the lines written between copy and truncation and those of a
  file whose copy failed. Both log properties need a clock that is not set back:
  then the copy is refused and the file is emptied all the same.

**Fairness.** The threads of the library are scheduled: weak fairness of `run()`,
`worker()`, the monitor, the listener inside a read, the asio threads, and of a
producer inside its critical section. A mutex that is asked for again and again is
granted (strong fairness in ModMonClient, ConnectionPool and WsServerSync), and a
thread in `io_context::run()` notices a stop that is repeated. Nothing is assumed of
callers, editors, peers or links, with these exceptions: a `createConnection()` or
`releaseConnection()` that is tried again and again succeeds some time (otherwise
nothing can be sent), an `sd_notify()` does not fail for ever, an application that
has made a `ConfigManager` and keeps it calls `startMonitor()` (strong fairness, as it
may save any number of times before), a `setParamValue()` that holds the mutex goes on,
a module that is being stopped falls silent (only `StopReturns` needs it), the
application of a pipe client keeps reading and that of a port keeps reading, writing and checking, deadlines
pass, and a client that does not read reads again or goes. Nobody has to give a pool
entry back.

## 4. The proofs

Eight modules hold proofs, each for every value of the constants of its component,
from the named assumptions on them only. Every safety invariant of the runs is
proved but those listed at the end. None of them is inductive as it stands; what
had to be added says why the code keeps it.

**TransportClientProofs**, for any producers, messages, breaks and set of capacities:
`QueueAlwaysSound` (from `TypeCorrect`, `QueueIsBounded`, `QueueHoldsNewest`,
`SentInOrderOnce`, `EveryMessageAccounted`); `PopIsSafe`, provided the capacity is
not changed while `run()` executes; `KeepConnectVerifies`; the action property
`FatesNeverChange`; and the refinement `ClientImplementsLossyFifo`. `IInv` adds that
the mutex has exactly one owner inside `send()`, where the eviction has made room
(`LockInv`); that a message is in hand exactly between pop and write (`HandInv`);
that between `run()`'s unlocked test and its pop the deque is empty only inside a
`send()` about to push (`TakeInv`: with capacity 0 the eviction empties it); and that
every iteration past the check has verified the link (`KeepInv`). Steps of `run()`
that do not touch the queue are handled together (`QuietStepIInv`); the others have a
lemma each. The module begins with what `Append` and `Tail` do to a run of
consecutive numbers.

**ServicePartsProofs**:
- the transport server: bound, order and safe pop (`QueueAlwaysSound`), the single
  listener, the truthful status and the end only on request (`ListenerAlwaysServes`),
  and the refinement of LossyFifo. Its `IInv` has the same `TakeInv` for the listener,
  an order of the requests that are handled, in hand and queued (`OrderInv`), what
  each broker's link says of its listener thread (`LinkInv`), and what keepConnect
  preserves (`KeepInv`);
- `RunsAlwaysAsGiven`, for any lists and moments: hhmmss numbers are ordered as
  seconds are (`TimesInv`: the intervals kept are those of the last list that was
  accepted whole);
- `LinesAreAlwaysFiled`, for any days, lines and starts, with `StampsAreRight`
  (`run()` is at most one day behind and the name of the next archive is free) and
  `FileIsRight` (the log file holds no line from before the day seen last, and it is
  emptied only when what must be kept is in an archive).

**PipeRequestsProofs**: `FramesAlwaysHold`, for any header length, payload sizes, pipe
capacities, messages and deaths. `InStep` compares neighbouring bytes, which no step
of the listener preserves by itself: a block that is read and handed over has to be
known as one frame. `LayInv` therefore says where every whole frame lies that was not
handed over yet: `Laid` gives each an offset, the offsets differ by the length of the
frames, and each byte up to the last offset is the byte of its frame. `BlockInv` says
that the listener stands at the beginning of a header or of a payload, with
`needReadBytes` right for it, as long as its frame is whole; in particular, a payload
that the client has still to write belongs to a frame that the listener has not
finished. Once a frame is cut both speak of the frames before it only. Lemmas say what
appending a frame at the end (`LaidAppend`), taking one from the front (`LaidDrop`) and
cutting one (`LaidShorter`) do to `Laid`; `SendHead`, `SendPayload`, death and restart
have a lemma each, and `Listen` one per kind of block (`ListenHead`, `ListenPayload`,
and `ListenBeyond` past a cut). That a frame which fills the pipe arrives with one read
per block, so that the reassembly in `PartialBlock` is reached past a cut only, comes
out of the proof: `sendToStream()` writes a block whole or cuts it.

**PipeStreamsProofs** and **PipeAnswersProofs**, for any header length, answers,
buffers, pipe capacities, starts and crashes of the server. `DescriptorsAreKept`:
`run()` never opens a pipe over an open descriptor, since at each step the ones before
are closed (`ClosedBeforeOpen`). `AnswersAlwaysHold`, which needs more. `AnswersHold`
speaks of the latest answer, of the reader's own pipe and of a reader that has not
slipped; the readers that have slipped, the pipes of earlier starts and the bytes that
`sendAnswer()` has still to write decide whether it stays so. `AnswersInv` adds:
- `SessionInv`: the phase of the server against its files, numbers and bytes to write;
- `KeepInv`: a pipe holds bytes only while somebody has it open, and a new one none;
- `ShapeInv`: what a pipe holds, with what is still to be written to it, is a stretch of
  consecutive bytes of consecutive frames, however many bytes of the front are gone
  (`Shaped`), and ends with the latest frame if the server has it (`Ended`). It speaks of
  readers out of place too, for whom a payload byte is the next header;
- `OrderInv`: the pipe of a later start holds later messages;
- `SeenInv`: all bytes in all pipes, and the message in hand, are newer than what was
  returned. With `OrderInv` it gives order and once-only over restarts;
- `HandInv`: once the header of a message is taken, its payload is at the front of the
  pipe it came from, or everything in the pipes is newer. This is what makes the
  returned bytes that payload; it fails for a pipe that `run()` reopened in between,
  hence the condition `sameOpen` of `AnswersIntact`;
- `PlaceInv`: a reader that has not slipped stands at the first answer owed, before or
  behind its header, and the answers owed are those up to the latest. The neighbouring
  bytes of `InStep` follow from it and `ShapeInv` (`PlaceInStep`).

The first module has the facts about stretches of frames (a part of one, one more frame
at its end, the frames after its first byte), the types, and what each step does to the
streams: `SessionSteps` sorts the steps of `Next` by that, so that the lemmas of the
second, one for each part of the invariant, need not look at every action again.

**WebSocketLinkProofs**, for any number of connections, slow handshakes, faults and
requests and any choice of masked ones: `LinkInvariance` and from it
`ConnectionAlwaysHeld`, `AnswersAlwaysFindTheirWay` and the action property
`AnswersAlwaysInOrder`. `LinkInv` joins: `FlagInv`, that `m_isOpenned` is true of a
handle whose `on_close()` has still to come; `OneInv`, that without a slow handshake
`createConnection()` is reached only with nothing open or under way; `TableInv`, that
an entry of `m_endPointList` leads to its own connection, and the one named "Unknown"
to a connection the client will never hold open again (`Lost`); `RouteInv`, that a
request stays with its connection through the queue, the answering thread and back;
and `OrderInv`, that what is on its way on a connection is newer than all that was
answered, and that later requests use later connections. The steps of `OrderInv`
come first, then one lemma for each other part.

**ConfigManagerProofs**, for any texts, parameters, keys, options, edits, failures and deaths:
- `ConfigAlwaysSound`, from `RangeInv`: what is in force, what replaces bad values, what
  validation has passed and is about to be set, and what an assignment under way will
  leave are spoilt in the parameters of `misset` only. A replacement comes from the same
  parameter of the previous configuration (`ValidateRange`), and a copy made during an
  assignment differs in the key that is assigned (`SnapshotRange`);
- `UnchangedIsAlwaysSeen`, from `StampInv`: a recorded stat with the file's present
  stamp belongs to the text that was recorded with it, because the stat is taken
  before the text is read;
- `OutputIsAlwaysWhole`, from `OutInv`, over failures of every call and any number of
  them: what is being written is the previous configuration, and if `saveJson()` has not
  failed the temporary file is whole before the rename;
- `CalledOnlyOnChange`, from `SeenInv`: the monitor's tree is the one of the last
  callback, except between the comparison and the record.

**ConnectionPartsProofs**:
- `HandlersAreAlwaysSafe`, for any number of outages of the asynchronous client's
  server: there is one attempt to connect at a time and none beside a connection
  (`OneAttempt`), and, unless an `io_context` ran out of work under a thread, one
  operation on the connection, none of which outlives a stop (`Orderly`);
- `StatusAlwaysTells` of the port for any limits: inductive with its types;
- `EntriesAreExclusive` for any threads and entries of the pool: the mutex has one
  holder (`MutexHolds`), the entry a thread has found stays free until it marks it
  (`PositionsFit`), and every taken entry has one user (`OneUser`, `NoneLost`);
- `WakeupsAreNeverLost` for finitely many threads and a pool that is not empty
  (`PoolAssumption`): `NoLostWakeup` is inductive given the invariant above. A step
  moves one thread, or one and the waiter it signals, so the number of threads due at
  an entry changes by at most one (`StirringMoves`). A lease takes one free entry and
  one such thread away, `give_back()` adds one of each, and a thread begins to wait only
  when no entry is free;
- `SendAllAlwaysSafe` (`StreamsAlwaysExist`, `EveryoneIsReached`) for any clients: the
  mutex is held as long as the loop of `sendAll()` runs, and whom the message has not
  reached the loop has still to visit (`LoopInv`);
- `PeriodAlwaysFits` and `NothingSentWhenOff` of the watchdog: the worker exists only
  between `start()` and the join (`ThreadInv`), and client and worker both hold an
  interval of at most half the timer.

Only model-checked:
- liveness and all that needs fairness or ENABLED, which the prover does not treat:
  of `WaitersAreServed` this is `TimedReturns`;
- `ConfigIsRight` and `ReloadChangesNothing`: what the recursive walk of
  `ConfigValidator` computes would need induction over data.

## 5. What is left out

- Wording and layout of messages and logs; parsing of paths and credentials;
  loading of broker libraries.
- Data races inside library objects (a `std::string`, a map or a stream used by two
  threads without a lock): such an operation is one step. The exception is
  `ConfigManager::getConfig()`, whose copy is arbitrary in the value being assigned.
- In `ConfigManager`, a `loadInputConfig()` or `saveOutConfig()` concurrent with the
  monitor, so that one thread saves at a time: two would share the temporary file.
- In `PipeAnswers`, `poll()` looks at the descriptor in use when it returns.
  `timeoutRead()` fills its `pollfd` at its beginning (`PipeTransportKit.cpp:148`); the
  two agree as long as `run()`, reopening the pipe meanwhile, gets the number that it
  has just closed, the lowest one free.
- In `ConnectionPool`, errors of the wait other than the time-out (EINVAL, EPERM), which
  POSIX excludes for these calls; the code then leaves the loop as after a time-out.
- In `TransportServer`, the failure of RabbitMQ's `createConnection()` by lack of
  resources.
- In `WebSocketLink`, a network that goes silent without closing, names used again
  by a second connection, and the destructors.
- In `ModMonClient`, the wait for the first connection, the destructor, which
  deletes the callback while the logger holds it, and the moment the callback is
  installed; needKeepConnect is assumed.
- In `WsServerSync`, the probe for a server that already listens, host:port pairs
  used again, and two writers on one stream. In `WsClientAsync`, `p_isWorking`, the
  destructor, and user callbacks (`TWebSocketClientAsync.h:301`, `342`) that call
  `write()` or `loopRead()` again: they would run the `io_context` inside a handler, on
  the `ping()` thread too, and the safety of the handlers is not claimed for them.
- In `LogRotation`, the size at which easylogging++ empties a file, and the file
  monitor, which `ConfigManager` has.
- `RabbitMQClient` beyond its four operations: a callback that captures locals by
  reference, and a detached loop more on the default libev loop for every
  connection; what happens is up to AMQP-CPP and libev.
- `logger_Wolh` (used by `old/` only), `control_pointer` (a debugging aid), `boost_tcp`
  (a demonstration), `jsonfile_watcher` and `stdDequeExt` (no users; the first a
  variant of `FileMonitor`), `Timer.h` (one comparison), `http` (settings for
  restbed), `TWebSocketClientSync` and `THttpClientSync` (blocking calls without
  state), the workers in `old/` (predecessors of `WatchDogWorker`).
- Vendored code (AMQP-CPP, SOCI but for its pool, easyloggingpp, fmt, nlohmann json,
  websocketpp) and adopted utilities (IniProcessor, DirManager, base64). It is by
  far the most of the source tree, so that the share of all lines
  that the models cover is small though most stateful code of the toolkit itself is
  modelled.
