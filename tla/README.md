# BeagleBone AI-64 applications in TLA+

This directory holds a formal model of the applications of the BeagleBone AI-64
repository: TLA+ modules translated from the C++ sources under
`src/BeagleBone_AI-64/applications`, the TLC configurations that check them on
small instances, and TLAPS proofs of the most important safety properties for
every value of the constants. `PROJECT.json` ties the definitions that model code to
the source lines they stand for.

Paths below are relative to `src/BeagleBone_AI-64/applications`.

Contents: [1 the system](#1-the-system) ·
[2 modules and code](#2-modules-and-code) ·
[3 model checking](#3-model-checking) · [4 findings](#4-findings) ·
[5 proofs](#5-proofs) · [6 what is not modelled](#6-what-is-not-modelled) ·
[7 plan](#7-plan) · [8 running it](#8-running-it)

## 1. The system

The repository is a Yocto tree for the board plus a set of C++ applications. The
layers, scripts, toolchain files and documents configure builds and have no run-time
behaviour; the applications do.

### 1.1 Inventory

| component | source | state it keeps | operations | what is hard | correct when |
|---|---|---|---|---|---|
| **ThreadPool** | `common/utils` | priority queue under one mutex, one condition variable for workers *and* `waitAll()` callers, atomics `stopped`, `stopNowFlag`, `activeTasks`, `maxQueueSize` | `submit*`, `waitAll`, `stop`, `stopNow`, `setMaxQueueSize`, the worker loop | atomics written without the mutex, one notification for two kinds of waiters, shutdown | a task goes to one worker, equal priorities in order, bound kept, nothing runs after the join, calls return |
| **CircularBuffer** | `common/utils` | vector, capacity, head, tail, size under one mutex | `push`, `pop`, `peek*`, bulk calls, `clear`, `reserve`, `toVector` | wrap-around, growth of a wrapped ring, capacity 0 | it is a bounded FIFO queue |
| **IpcManager** | `common/ipc` | outgoing queue and handlers (`queueMutex`), pending requests (`pendingMutex`), worker and expiry threads | `sendMessage`, `sendRequest`, `sendAsyncRequest`, `registerHandler`, `clearQueue`, `setQueueing`, `start`, `stop` | two mutexes, handlers run under one of them, promise on a caller's stack, time-outs | messages leave once and in order, calls return, a late answer harms nobody |
| **SensorManager** | `sensor-service` | map of driver objects, readings, statistics (`m_mutex`), collection and health threads | `start`, `stop`, `registerSensor`, `unregisterSensor`, `readSensor`, `readAllSensors`, health check | raw pointers that outlive the lock, re-locking, restarts during stop | loops visit live drivers, a stopped manager is quiet, `stop()` returns |
| **Sensor drivers** | `sensor-service/drivers` | descriptor, connection and running flags, chip and its settings, calibration; the GPS driver the position it has put together | `initialize`, `start`, `stop`, `configure`, `readSample`, conversions, NMEA parsers | initialization in steps that may fail, registers read in two transfers without a lock, sentences cut by `read()`, two's-complement widths | flags tell what the descriptor is, a reading has the bytes of its own registers, no half fields, conversions agree with the chips' number formats |
| **RotatingFileSink, FileSink** | `common/logger` | stream, path, size and age limits, the numbered files on the disk | `init`, `write`, `rotate`, `flush`, `close` | mutex given up in the middle of `write()`, renames that fail, crash inside a rotation | the files stay in order without a hole, within a line of their size |
| **Logger** | `common/logger` | list of sinks under one mutex, level, statistics | `log`, `addSink`, `configure` | exceptions of a sink, ignored failures of `init()` | each sink sees each message once, in order |
| **NetworkSink** | `common/logger` | batch queue under a mutex, socket, worker | `write`, `flush`, worker, destructor | `flush()` against the worker's batch on one socket, retries | every event is sent once or given up, and overtaken only by `flush()` |
| **ConsoleSink, SyslogSink** | `common/logger` | none | `write` | – | – |
| **IpcClient** | `common/ipc` | socket, pending requests, handlers, worker and reconnect threads | `connect`, `disconnect`, `request`, `subscribe`, reconnection | unlocked look-ups, time-out against answer, reconnection that ends at once | a request returns, its table entry goes with it, `disconnect()` leaves no thread and no socket |
| **IpcServer, IpcMessage** | `common/ipc` | declared only; `IpcServer.cpp` is an example that uses the manager | – | – | – |
| **Device, DeviceManager** | `device-manager` | map of devices under `devicesMutex`, status and callbacks of each, monitor thread | `initialize`, `start`, `stop`, `addDevice`, `removeDevice`, the calls on one device, `checkDevices` | callbacks run under the mutex, raw pointers, recovery against `stop()` | events tell the registry, a stopped manager starts nothing, a failed device is looked at |
| **DeviceFactory**, records of devices | `device-manager` | creators by type; the devices as JSON | `registerDevice`, `createDevice`, `saveConfig`, `loadConfig` | built-in creators that make nothing, order of registration, restarts | a record comes back as it was |
| **Device events, device configuration** | `device-manager` | tables of types, names, categories, priorities; settings | conversions, filters, `validate`, `merge`, `loadFromFile` | tables kept by hand, a refused file that is in force | tables agree, what is written and read is the same |
| **SensorService, sensor events** | `sensor-service` | a smaller sibling of SensorManager; readings and events as JSON | conversions | values that are no numbers | a reading comes back as it was |
| **ConfigSchema, ConfigManager** | `common/config` | rules by key; the manager has no implementation | `addRule`, `validate`, `applyDefaults`, export, import | keys with dots, defaults below missing members, rules inside rules | defaults never spoil a document, an exported schema accepts the same |
| **Utilities** | `common/utils` | none | string, math, time, file, network and system helpers | boundaries | agree with their definition |
| **GUI models** | `gui-app/src` | `DataManager` (history, a pool of two threads), `ChartModel`, `SensorClient` (connection, subscriptions), `DeviceController`, settings, theme | Qt slots and timers | reconnection, overlapping updates, a save scheduled and failed | no reading twice, the youngest points shown, clean settings are saved |
| **GUI views, build, images, SDK** | `gui-app/qml`, and the rest of the tree | – | – | – | – |

### 1.2 Interaction

* `sensor-service/src/main.cpp` is the one process that composes components: it starts
  the IPC manager, gives the sensor manager two callbacks that turn each reading and
  each event into an `IpcMessage` and hand it to `IpcManager::sendMessage()`, starts the
  sensors, and stops both from the same thread at the end. The callbacks are calls from
  the sensor manager's threads into the IPC queue; nothing calls back the other way, so
  the lock order is `m_mutex`, then `queueMutex`, and the two modules can be checked
  apart: to the sensor manager the callback is a call that returns (what `CallsReturn`
  checks of the IPC manager), to the IPC manager it is one more client.
* `IpcManager` hands messages to its transport (a socket, shared memory, or a simplified
  MQTT or ZMQ) from its worker thread, and to the registered handlers under `queueMutex`.
  `IpcClient` is a client of its own, with its own socket.
* `DataManager` of the GUI runs its updates on a `ThreadPool` of two threads.
* `Logger` is used from everywhere; it calls each sink under its own mutex, so a sink
  has one writer at a time but any thread may call `rotate()` or `flush()` on it.

### 1.3 The code as written

Some of the sources do not compile as they stand: `CircularBuffer.h` has members and
functions of the same names (`size`, `capacity`), the `submit` templates of
`ThreadPool.h` are defined in `ThreadPool.cpp`, where no other unit can instantiate them,
`RotatingFileSink::write()` calls
`unlock()` on a `lock_guard`, and `SensorDriver.cpp`, the implementations of
`IpcServer` and of `ConfigManager` are not in the repository. The modules model the
calls in the order they are written, with the meaning they evidently have (an unlock
unlocks); nothing is modelled that has no code.

## 2. Modules and code

| module | what it is |
|---|---|
| `ThreadPool` | the pool, its workers, clients and owner |
| `BoundedFifo` | what a circular buffer promises (abstract specification) |
| `CircularBuffer` | the ring, and the refinement mapping to `BoundedFifo` |
| `MessageChannel`, `EventChannel` | what the message manager promises of the messages it has queued, and the network sink of the events written to it (abstract specifications) |
| `IpcManager`, `IpcClient` | the message manager with its two threads, clients and owner; the client of a server with its worker and reconnection thread, callers and owner |
| `RotatingFileSink`, `NetworkSink` | the two sinks that keep state, with the part of the logger above them and the disk or the server below |
| `SensorManager` | the manager, its two threads, controller and callers |
| `SensorDriver`, `ImuBus`, `GPSDriver`, `SensorDecoding` | below the sensor manager: the life of a driver of each kind, the transfers of an IMU, the NMEA parser, conversions |
| `DeviceManager` | the device manager, its monitor, owner, users and devices |
| `DeviceRecords`, `DeviceEvents`, `DeviceManagerConfig`, `SensorReadings` | what is kept or sent as JSON: devices (with the factory), events, settings, readings |
| `ConfigSchema` | the schema of a configuration: rules, validation, defaults, keys, JSON schema |
| `StoredRecords` | the five above beside each other, one at a time |
| `MathUtils`, `StringUtils` | algorithms |
| `SensorClient`, `DataManager`, `ChartModel`, `DeviceController`, `GuiSettings` | the models of the graphical application |
| `ThreadPoolProofs`, `CommonLibraryProofs`, `SensorManagerProofs`, `RotatingFileSinkProofs`, `IpcManagerProofs`, `IpcClientProofs`, `NetworkSinkProofs`, `DeviceManagerProofs` | theorems |
| `MCCommonLibrary`, `MCMessagesAndLogs`, `MCIpc`, `MCSensors`, `MCDevicesAndGui` | instances for TLC that look at several modules, one at a time |
| `MCThreadPool`, `MCIpcManager`, `MCSensorManager`, `MCRotatingFileSink`, `MCDeviceRecords` | instances for TLC of one module |

A step is what a thread does between two points where another thread can tell the
difference. A critical section of one mutex that neither blocks nor depends on
something written outside the mutex is one step; one that does is cut there. Where
a definition is preceded by "Mutant of ...", it is a plausible bug in the definition
that follows; it is not part of the specification. `PROJECT.json` lists one for each
property of each passing run, which the property refutes; where a property is a conjunction
over several modules, the others break its other parts and were tried in the same way.
(`RotateCloseLow` for `StepsHold`, `RuleOptional` of `RuleOf` for `SchemaHolds`, `UrlEncodeButPlus` and `ReadTMP102Unsigned` for
`FunctionsAgree`, `ProcessKeepsMore`, `LimitedWrong` and `ScanAnyway` for `GuiHolds`, ...)

### 2.1 ThreadPool (`common/utils/src/ThreadPool.cpp`, `ThreadPool.h`)

* `lock` is `queueMutex`, `waiting` the set of threads blocked on `condition`. The queue
  is not a variable: a task is in it when its `status` is `"queued"`, and `Top` is what
  `Task::operator<` makes `std::priority_queue` return. `enqueueTime` is read from a
  clock under the mutex, so it follows the order of the pushes; two pushes may read the
  same time, and then `Top` is either of them.
* A worker goes `loop → get → start → run → finish → loop`, by `LoopTest`, `popTask()`
  (`TakeTask`, `GiveUp`, or `FindNothing` and `Block`), and `processTask()` (`Start`,
  `Process`, `Finish`). The evaluation of a wait predicate and the blocking are two
  steps with the mutex held, since `stopped` is written without it. `activeTasks` is
  incremented after the mutex is released: a task popped but not yet counted is a state
  of the model.
* A client submits in three steps (`Submit` or `Refuse`; `Push`; `Notify`), because
  both flags are read under the mutex but written without it, and the notification
  comes after the unlock. `waitAll()` is `WaitAll`, then `WaitAllReturn` or
  `WaitAllCheck` and `WaitAllBlock`.
* The owner sets the bound, and stops by `Stop`, `StopNotify`, `Join`, or by `StopNow`,
  `Drain`, `WakeDrained` first. `notify_one` wakes any one waiter; spurious wake-ups
  are a step.
* A task that itself calls the pool is not modelled (a client that is a worker).

### 2.2 CircularBuffer (`common/utils/src/CircularBuffer.cpp`)

Every operation holds the mutex from first to last, so each is one step; `result` is
what the call returned. The two overloads of `push()` are one operation, and `peek()` is
`peekAt(0)`. `BoundedFifo` has the same operations over a plain sequence. The
mapping gives it `items <- [i \in 1 .. size |-> buffer[Pos(i - 1)]]`, `cap <- capacity`
and the same `result`, so the refinement speaks of what callers see and not only of
what is stored.

### 2.3 IpcManager (`common/ipc/src/IpcManager.cpp`)

* The model begins after `initialize()` has succeeded, with both threads running.
  Critical sections of `queueMutex` are single steps and the mutex is not a variable,
  with one exception: the worker in `"stuck"`, where a handler running under the mutex has
  called `sendMessage()` (the answering handler of `IpcServer.cpp`) and waits for the
  mutex its own thread holds. `pendingMutex` is held from `TimerLock` to `TimerUnlock`,
  with `queueMutex` taken inside for each entry.
* A message keeps its kind, its request and the number of its acceptance; the pipeline
  of transmitted, held and queued messages is what the ordering property is about.
* `ImplementsChannel` maps it to `MessageChannel`, whose three variables (how many messages were taken, which
  were given out, which never will be) are the manager's own `accepted`, `delivered` and `dropped`. What the manager adds –
  a message held over a stop and a restart, requests and answers, time-outs, the mutexes – stutters there.
* `sendRequest()` is `SendRequest`, `TestQueueing`, `Push`, `Wait`, `Return`: the
  promise it has on its stack goes from `"empty"` through `"set"` (or not) to `"gone"`.
  `sendAsyncRequest()` is `SendAsyncRequest`, `Register`, `TestQueueing`, `Push`, and
  `Unregister`, `Forget` when the queue refuses.
* `unregisterHandler()` compares the *types* of the function objects and every caller passes
  `nullptr`: `Unregistered` follows the code, `UnregisteredAll` is what the comment
  above it says.
* External: the transport and the peers. A peer may answer any request it has been
  sent, late or twice (`Send` of a response). With queueing switched off a message
  goes to the transport without being broadcast, and is not part of the pipeline.
  `setQueueing()` keeps the same bound.

### 2.4 SensorManager (`sensor-service/src/SensorManager.cpp`)

* A driver object is `"new"`, `"held"` in the map, or `"freed"`, with its connection and
  running flags. The mutex is a variable because the two loops hold it from step to step.
* The controller runs `start()` (`StartCall`, `StartBody`) and `stop()` (`StopCall`,
  `StopJoin`, `StopDrivers`), as `main()` does from one thread. The collector and the
  health thread run `LoopTest`, `Lock`, then one step per driver, then `Unlock`.
* Callers register, unregister, read one sensor (`GetSensor`, then the pointer is used
  *without* the mutex: `UseDriver`, `ReadSample` and `Process`, or `UseFreed`) and read all
  sensors (the same loop as the collector's).
* The first successful reading in a loop over the map calls `processSensorData()`, which locks
  the mutex again: `"relock"` has no step out of it.
* Using a freed driver is undefined behaviour: `UseFreed` returns with or without a
  reading, or ends the process (`crashed`), after which nothing happens.

### 2.5 RotatingFileSink (`common/logger/src/RotatingFileSink.cpp`, `FileSink.cpp`)

* The logger's mutex makes all logging threads one writer; other threads (`Rotators`)
  may call `rotate()`. Lines are numbered, and the disk is what it says of a line:
  `where[n]` is the index of the file that holds it, or `Gone`. A line has a length in bytes
  (`Size`), and a file is full when its lines add up to `MaxSize`.
* `write()` is `WriteBegin`, `Measure`, a rotation with the mutex given up, `WriteRelock`
  and `Put`. What is measured is what is in the file already, and the line is appended
  whatever its length. The size is asked of the *path*, and if it has been renamed in between,
  `file_size()` throws and the logger drops the message. `Put` on a stream that is not
  open calls `openFile()`, which locks the mutex `write()` holds: `"hung"`.
* `rotate()` is `RotateCall`, `RotateClose`, one `RotateShift` per round of the renaming loop
  (which may fail), one `RotateClean` per round of `cleanupOldFiles()`, and `RotateOpen`
  (which may fail).
* `Crash` keeps the disk only. `StartConfigured` is a process whose logger configured the
  sink, with any limit; `StartWithSetters` one that used the setters without `init()`, as
  `Rotating_File_Logging.txt` does.
* Facts of the code the model uses: every line is flushed (`std::endl`), so a crash
  loses none; `compressFile()` does nothing since no build file defines `HAVE_ZLIB`; the
  index `init()` searches for is dead, since `FileSink::init()` sets the path again;
  setters are called before the sink is in use. `damaged` remembers that a rename
  failed, `max_files` was lowered or a file was truncated: the properties that need an
  undisturbed past say so with it.

### 2.6 IpcClient (`common/ipc/src/IpcClient.cpp`)

* The owner's `connect()` is `ConnectSucceeds` or `ConnectFails` (with `Opens`, `OpenFails` for the
  sockets that stay open), then `OwnerStarts` or `OwnerReconnects`; `disconnect()` is
  `Disconnect`, `OwnerStops` (two joins), `Cleanup`; `Destroy` ends the process with
  `std::terminate` if a thread is still joinable (`ended`).
* A caller's `request()` is `Request`, `Insert`, `SendRequest`, `Wait`, `Erase`. The worker is
  `WorkerLoop`, `ReceiveMessage` or `ReceiveNothing`, `CallHandler`, `ForgetRequest`, `CallSubscribers`,
  `CheckConnection`, `WorkerReconnects`. It looks up and erases pending requests without the
  mutex: a request that is being inserted or erased then, or whose caller has
  returned, makes the outcome undefined, and `ended` says so.
* `insync` is lost when a receive times out inside a message: the next length is read from the
  middle of one. Sockets are counted, so that one opened over another is seen.
* External: the server, which answers, is silent, or goes.

### 2.7 NetworkSink (`common/logger/src/NetworkSink.cpp`, `Logger.cpp`)

* The model begins after `init()`, which may have failed: `Logger.cpp:542` keeps the sink all the
  same, and one that batches then has no worker (`Init`). Without batching the first write connects.
* A logging thread is `Log` (the sequence number), `Count`, `Write`; the logger's mutex is `holder`,
  which is also `flush()`'s and the remover's. Queue and batches hold sequence numbers. The sink's
  own mutex is held for single steps, except by `flush()`, which keeps it over its sends: the worker takes no
  batch meanwhile, but may be sending the one it took before.
* `sendData()` is `SendSucceeds`, `SendFails` (with a reconnection that may succeed) and `GiveUp`, for the
  worker and for the thread in `flush()` alike: both use one socket. A send to a server that has
  closed the connection raises `SIGPIPE`, which ends the process: `BrokenPipe`.
* `ImplementsChannel` maps it to `EventChannel`: what waits there is the worker's batch, then the message of a flush, then
  the queue. Taking a batch out of the queue and taking a message for a flush leave that sequence as it is; a send that
  ends takes the front or one element behind it out, delivered or lost as a whole; an event is refused only when two batches
  wait, no more than three ever do, and the sink that is removed takes what waits with it.
* External: the network. A send delivers all of its data or nothing (the code takes any
  positive result for all).

### 2.8 Below the sensor manager (`sensor-service/drivers`)

* `SensorDriver`: `initialize()` is one step with the number of transfers that succeed as a parameter;
  `Steps` lists them for each kind of driver and chip. `chipRange` is the range the chip was put in,
  `setting` what the driver scales by. The module keeps what the code does: `m_connected` is never
  cleared by a failed `initialize()`, and two of the drivers never notice that the descriptor is gone.
* `ImuBus`: a register's contents are not values but whose they are: `right` says whether a reading has
  the bytes it asked for. Each transfer is a step, so two readers interleave as the collection
  loop and `readSensor()` do.
* `GPSDriver`: a field is whole, half (cut) or missing; the parsers take fields by their index.
* `SensorDecoding`: the conversions in integers, over bytes at the ends of their ranges. Floating-point
  results are scaled to integers where they are exact.

### 2.9 DeviceManager (`device-manager/src/DeviceManager.cpp`, `Device.cpp`)

* `devicesMutex` is not a variable: a critical section is a step, and the monitor holds the mutex from
  `CheckDevices` to `EndPass`, with one step for a device. `MonitorLoop` tests `running` outside.
* Events are emitted under the mutex and call the application; a callback that calls the manager
  blocks for good with the mutex held: `calledBack`.
* The owner runs `initialize()` (`Load`, `Initialize`), `Start`, and `stop()` (`Stop`, `Join`, `StopDevices`).
  Users add (`Refuses`, `FailsToStart`, `Accepts`), remove, and use a device through a pointer taken
  under the mutex (`GetDevice`, then `UseDevice`, which is undefined if the device is gone); `Readers` are the
  users that do the latter.
* A device's class is external: it may fail to initialize, to start, to reset and to stop, and later.

### 2.10 What is kept as JSON

`DeviceRecords` (`DeviceFactory.cpp`, `DeviceTypes.h`, the save and load of `DeviceManager.cpp`),
`DeviceEvents` (`DeviceManagerEvents*.cpp`, `SensorEvents.cpp`), `DeviceManagerConfig` and `SensorReadings`
(`SensorData.h`) have the conversions field by field where a field can be lost, defaulted or
changed: empty maps are not written, times are cut to seconds or milliseconds, a value that
is no number becomes 0. Around them is a small machine: settings are edited, saved, loaded and merged;
an event or reading is passed on again and again; a process with its factory ends and
begins anew. `saveConfig()` writes a list of devices, `initialize()` reads the devices of a list, and
`loadConfig()` throws on a list (`LoadThrows`); no code writes the object it asks for. `StoredRecords` has them side by side with the schema; its specification, in which no operator is
recursive, is what the proofs are about, and `MCCommonLibrary` extends it.

### 2.11 The schema and the algorithms

The state of `ConfigSchema` is the rules and one document, which its owner changes and `applyDefaults()` fills in. A rule is a
record of the fields that were set on it, a key the sequence of the parts between its dots. A document is a function from paths
(sequences of names of members) to nodes, each with one field that says its kind (`obj`, `list`, `str`, `num`, `bool`,
`nul`). So a member is what lies below its name, a default is put at a path, and nothing has to descend.
The loop of `applyDefaults()` is a recursive function over the rules; it stops at the rule that throws
(`RulesDone`), and the document keeps what was put into it before. What does
descend, `validateNode()` and `collectKeys()` into the rules inside a rule, is a parameter of the module
(`ValidateNested`, `KeysNested`); the instance for TLC gives the operator itself for it, so that
the run has the whole recursion, and the proofs hold whatever it answers.

`MathUtils` and `StringUtils` are operators, one per function of the source, with
a machine that enumerates their inputs.
Numbers are integers (halves doubled); a text is a sequence of symbols, of which some
stand for a class of characters (`"lt;"`, `"quote"`).

### 2.12 The graphical application (`gui-app/src`)

Qt's event loop makes each slot one step; timers and the pool's threads make the
interleavings. `SensorClient` has the socket's states and messages under way, and which
subscriptions are of connections that are gone and are not sent again (`lapsed`); `DataManager` the
pool's two threads between taking a task and storing its reading (`ThreadPool` promises each task
goes to one of them); `ChartModel` one action per call; `DeviceController` the registry that changes beside its
list; `GuiSettings` both files, the timers of scheduled saves, shut-down and crash, with saves that cannot
open the file and saves that empty it and cannot write it (`truncated`: the result of `write()` is ignored).

`stuck` in `ChartModel` is the thread that locks `m_mutex` twice, in one of two ways. `updateRange()` locks it and is called
by `addDataPoint()`, `addDataPoints()` and `removeLastDataPoint()`, which hold it, when points are there and the range is automatic, as
it is by default (`ChartModel.cpp:262-267`). And the signals of most calls are emitted with it held: a chart that
is `viewed` by a `ChartWidget` is asked for its data in the same moment.

## 3. Model checking

| run | shows | bounds |
|---|---|---|
| `thread_pool` | Every interleaving: each task is held by one worker (`TaskHeldOnce`), equal priorities leave in order (`FifoAmongEquals`), the queue stays within the largest limit set (`QueueBounded`), nothing enters after `stopNow()` has drained (`DrainedForGood`), nothing is executing after the join (`QuietAfterJoin`), `waitAll()` misses a task only while a worker has popped and not counted it (`WaitAllMissesPopped`) | 2 workers, 2 clients of which one also waits, 3 tasks (one with priority and a time-out), bounds 1 and 2 |
| `thread_pool_stop` | refutes `StopReturns` (section 4) | 1 client, 2 tasks |
| `thread_pool_wait_all` | refutes `WaitAllReturns` | 1 task |
| `common_library` | The ring's positions agree and it implements `BoundedFifo`. `SchemaHolds`: defaults fill in and never spoil, up to the rule that throws if one does, an exported schema accepts the same, keys have their rules. `FunctionsAgree`: utilities and decoding agree with definitions of their own, which say exactly where the code departs from what its name promises. `RecordsSurvive`: an invalid configuration is in force only if its load was refused, events, readings and records come back as they were, tables agree. `LoadBringsBack`: `initialize()` brings back every device of a saved list whose creator is the application's | ring: 2 elements, capacities 0 (taken for 1), 2, 3, 4, vectors of up to 3, counts 0 to 3; 2 of 9 rules and 8 values; samples and texts of up to 3; 8 bytes, 3 at a time; 3 edits; 2 devices of 3 types, 2 changes |
| `messages_and_logs` | Log files are in order, without a hole, and larger than their size by their last line at most. `MessagesHold`: every accepted message is transmitted at most once, in order, and none is lost but by `clearQueue()`, over stop and restart; no entry of the client's table outlives its call, and `disconnect()` leaves neither thread nor socket. `StepsHold`: no step loses a line that is not due, the manager implements `MessageChannel` and the sink `EventChannel`. `SinkHolds`: every event is in one place, none is sent twice, only `flush()` overtakes | files of 3 bytes, `max_files` 2 or 3, 4 lines of 1 to 4 bytes, 1 rotating thread with 1 rotation, 1 crash; 2 clients, 1 request, queue of 2, 3 messages, 1 change of queueing, 1 restart; 1 caller, 2 sockets, 1 retry; 2 logging threads, 3 events, batches of 1, 2 attempts, 1 flush, `init()` succeeded or not |
| `ipc_live` | Messages leave, calls return, `stop()` returns, pending requests expire, unless a handler calls back into the manager. `OthersSettle`: the client's calls return, queued events leave the queue unless `init()` has left the sink without a worker | 2 clients, queue of 1, 2 messages; 1 socket; 2 events |
| `ipc_late_answer` | refutes `NoDanglingPromise` | 2 clients, 1 request, queue of 1 |
| `sensors` | Loops never meet a freed driver, a running manager has its threads, a stopped one is quiet, `stop()` returns unless a thread has locked itself out. `DriversHold`: a driver has a descriptor exactly as long as it is initialized and scales by its chip's ranges, no half field is taken for a whole one, one reader gets its own registers but for one reading per failed switch. And the thread pool under fair scheduling: `AcceptedIsServed` (accepted tasks are served unless a `waitAll()` caller sits on the shared condition variable), `StopNowReturns` | 3 drivers (two share an identifier), 2 callers, 3 calls; drivers of 5 kinds, 2 settings, 2 lost descriptors; 2 sentences; 2 readers, 4 readings, 2 failures; pool: 2 workers, 2 clients, 2 tasks, bound 1 |
| `sensor_manager_read` | refutes `LoopsSurviveReading` | the same manager |
| `rotating_file_hang` | refutes `LoggingNeverHangs` | the same files |
| `devices_and_gui` | `EventsTellTheRegistry`, `StoppedStaysStopped`, `FailuresAreRepaired` of the device manager. `GuiHolds`: the server serves exactly the subscriptions of the present connection, no reading is kept twice, a chart shows the youngest points until it stops and says when it does, one scan runs at a time, clean settings are the file's unless the file was truncated. `EverythingSettles`: `stop()` returns unless a callback blocks it, a client connects or gives up, readings are stored, a scan shows what it finds, changes are saved unless a save fails or truncates the file | 3 objects with 2 ids, 2 users of which one also uses devices; 2 devices, 4 calls, 1 loss, 2 attempts; 3 readings, histories of 2; limits 0 to 3, 4 points; 3 changes |
| `saved_config` | refutes `SavedCanBeLoaded` | 1 device of 2 types, 2 changes |

**Several modules in a run.** Five runs look at components that share no state. Their
state is side by side in the MC module, and a variable `which`, chosen at the start, says
whose steps a behaviour takes: the others stay as they begin. TLC explores the sum of the
components' states and not the product, and each property is one of the
component's own, as its module defines it, or names several of them. Nothing is lost: a step of one
component changes nothing of another, so that every interleaving of two projects
onto the behaviours of each. The component whose properties are listed by themselves
is the module the MC module extends.

**Why the bounds are enough.** Two workers and two clients are what every race in the
pool is between (a third of a kind only repeats the second), three tasks are the
least with which two of one priority can meet one of another, and bounds 1 and 2 make
the queue full, and shrink it below its length. The workers of the safety run are
interchangeable, and so are the two tasks that are alike; so are, in `messages_and_logs`, the clients of the manager and the logging
threads. No property of these runs names one (`MCSymmetry`), and neither run checks liveness. A ring of four slots with vectors of
three wraps inside a bulk call, and grows from every wrapped position. One request is
enough for an answer that races its time-out; with a queue of one or two and three
messages the queue fills and refuses. A second socket is what a reconnection needs beside
the first. Three events of two threads, in batches of one, are one under way, one that `flush()` takes and
one behind; two attempts are one that fails and one on the new connection. Three sensors give two that compete for one
identifier and one beside them; three calls are register, unregister and one read on
top of what two background threads do in unbounded numbers of rounds. A setting that is a range of the chip and one that is none,
and a transfer failing at each step, are all that a driver's flags depend on; two
failures are enough for a switch and the switch that mends it. Three objects with two ids are two that
compete and one beside them. Four lines over files
of three bytes make two rotations, to which a rotating thread adds a third: with two or three files the last one is
overwritten. Of the lines (3, 2, 4 and 1 bytes) one fills a file exactly, and one overfills it and is longer than a file; one crash falls at each point of a rotation. Histories and charts are
filled past their limits, and limits lowered below what is there. The rules of `MCCommonLibrary` are of
each type and with each kind of constraint, on a member, a member of a member and an object that contains one by
`properties`; two at a time are a rule and one that overrides, contains or
needs it. For all safety
properties of the runs but `FunctionsAgree` the proofs of section 5 remove the bounds
altogether.

**Fairness.** *ThreadPool*: weak fairness on what a worker, a client or the owner does next
without a lock, strong fairness on taking the mutex (it is free again and again, and the
kernel's futex queue lets every waiter have it); none on calls being made or on spurious wake-ups.
*IpcManager*: weak fairness per client, worker, expiry thread, on time passing (`Expire`) and on
`Join`; strong fairness only on `Forget`, which needs a mutex the expiry thread leaves
free while it sleeps for a second in each round. *IpcClient*: weak fairness per thread, with time-outs as steps of the thread that waits.
*NetworkSink*: weak fairness on the worker and on who holds the logger's mutex, strong fairness on
`TakeBatch`, since `flush()` releases the mutex around each send. *SensorManager*: weak fairness per thread; no
strong fairness anywhere, so no liveness is claimed for a thread that has to beat another
to the mutex, except `stop()`, which needs none after the join. *DeviceManager*: weak
fairness on owner and monitor, strong fairness on the two steps that need a mutex other threads
hold only for moments (`CheckDevices`, between which the monitor sleeps for a second, and
`StopDevices`), and on `Recover` for each device: a reset that is tried in pass after pass succeeds in the end.
*GUI*: the event loop runs timers and slots that are due, the pool its tasks. Calls are
bounded and not fair. *RotatingFileSink*: no liveness is stated; its one question of this
kind, whether a write ends, is the safety property `LoggingNeverHangs`.

**Deadlock.** Not checked: the components may stop.
A joined pool and a stopped manager have nothing left to do, a self-locked thread, a
crashed process and a used-up bound are ends of their models. That something which should
go on does is what the liveness properties say.

## 4. Findings

Six runs refute what a document, a comment or a test of the repository says.

1. **`ThreadPool::stop()` may never return** (`thread_pool_stop`). `stopped` is set and the
   workers are notified without `queueMutex` (`ThreadPool.cpp:197`): a worker that has
   evaluated its predicate and not yet blocked misses the only notification, and the join
   waits for it. `stopNow()` does not have the problem (`StopNowReturns` holds): its drain
   takes the mutex between flag and notification.
2. **`waitAll()` may never return** (`thread_pool_wait_all`). The end of a task
   (`ThreadPool.cpp:186`) notifies nobody.
3. **A late answer writes to a promise that is gone** (`ipc_late_answer`).
   `unregisterHandler(topic, nullptr)` (`IpcManager.cpp:203`) erases no handler, so the one of a
   request that timed out keeps its reference to the stack of a function that has
   returned. With `UnregisteredAll` in place of `Unregistered` the property holds.
4. **The first reading of a sensor loop hangs** (`sensor_manager_read`). `readAllSensors()` and
   `dataCollectionLoop()` hold `m_mutex` when they call `processSensorData()`, which locks it
   (`SensorManager.cpp:758`); the test `ReadAllSensors` expects three readings.
5. **Writing to a log file that is not open hangs** (`rotating_file_hang`). `write()` holds
   the mutex when `ensureFileOpen()` calls `openFile()`, which locks it (`FileSink.cpp:72`).
   It takes one opening that fails, or the repository's own example.
6. **What is saved cannot be loaded** (`saved_config`). `saveConfig()` writes the bare array of the devices
   (`DeviceManager.cpp:452-461`), and `loadConfig()` asks what it has parsed for a member (`:427`), which
   throws on an array. The test `SaveAndLoadConfig` (`DeviceManagerTest.cpp:311-325`) expects `true`.

Because of 4, `StopReturns` of the sensor manager is stated with the exception
"unless a thread has locked itself out": what it shows is that *nothing else* can keep `stop()`
from returning. Likewise `Stuck` (a handler that calls back) in the properties of the IPC
manager, and the `waitAll()` exception of `AcceptedIsServed`, where the single
notification of a submit goes to a `waitAll()` caller instead of a worker.

### 4.1 Seen while modelling

The following are states or results of the models, named in their comments, and not runs of their
own. Where a document of the repository says otherwise it is quoted, and the property that covers the
place says exactly when the code departs from it and that it does so in no other case.

* **ThreadPool**: "Wait for all tasks to complete" (`ThreadPool.h:60`) is not kept even by a `waitAll()` that returns: between the pop under
  the mutex and the increment of `activeTasks` without it (`ThreadPool.cpp:157-162`) a task is in neither. `WaitAllMissesPopped`
  says that these tasks, at most one for each worker, are all that are missed.
* **RotatingFileSink**: "Maximum file size in bytes" (`RotatingFileSink.h:32`) is compared with what is in the file before the line is
  (`RotatingFileSink.cpp:95`, `191-201`), so a file outgrows it by its last line; `SizesBounded` says by no more.
* **NetworkSink**: with batching, a sink whose `init()` failed is registered without a worker (`NetworkSink.cpp:65-74`, `Logger.cpp:542`): it
  queues events that nobody sends but `flush()`. A send to a closed connection ends the process by `SIGPIPE`
  (`NetworkSink.cpp:149`). `flush()` overtakes the batch the worker took before.

* **IpcClient**: `IpcClient.h:14` promises automatic reconnection; the loop tests `running` (`IpcClient.cpp:196`), which is
  false until a first connection, so after a failed `connect()` it ends at once
  (`ReconnectionGoesOn`, which TLC refutes). A worker's unlocked look-up meets a request that times out; a callback that
  calls the client locks its mutex twice; a receive that times out inside a message
  loses the boundary for good; a client destroyed with a joinable thread terminates the process.
* **DeviceManager**: every event runs the application's callback under `devicesMutex`; `readData()` and
  its siblings use a pointer without it. The manager's constructor replaces creators registered before it by ones that make
  nothing, and `isSupported()` says yes all the same. A stopped manager that is started
  again leaves its devices stopped.
* **DeviceManagerConfig**: `loadFromFile()` assigns before it validates; `merge()` takes no disabled section.
* **Drivers**: two threads in one driver (the collection loop and `readSensor()`) read each other's registers; a switch of the slave
  that fails leaves the next reading on the magnetometer; `m_connected` is cleared by no read that
  fails; initializing again loses a descriptor; a gyroscope range out of bounds is set to
  one range and scaled by another; a GSA sentence cut before its last field is read
  behind its end.
* **ConfigSchema**: defaults throw through a member that is no object, halfway: the rules before have been applied; `float` and `null` are exported under
  names that are not loaded, so that such a rule comes back as one for strings; `getAllKeys()` goes by the own keys
  of a rule's properties, `hasKey()` by the names they have in the rule; the header's `requiredWith` is the converse of the code's.
* **Utilities**: an escaped text with an ampersand does not survive `unescapeHtml()`; the one-row
  `levenshteinDistance()` takes the cost of an equal symbol from the insertion and always charges a
  replacement one, so the distance of `a` and `a` is 1, against `StringUtils.h:239`; `truncate()` with a suffix longer than the
  length asked for cuts nothing. `UndoneAgree`, `CutsAgree` and
  `DistancesAgree` give each of these results. `split()` with an empty delimiter does not end (excluded).
* **GUI**: a chart hangs at the first point it is given while its range is automatic, which it is by default
  (`ChartModel.cpp:262-267`); one in a `ChartWidget` hangs at its first call of almost any kind
  (`ChartModel.cpp:153-161`, `224-230`; `ChartWidget.qml:146-165`). So of the "auto-ranging" of the header (`ChartModel-1.h:13-14`) nothing
  is left but `setAutoRange()` over points that are there; `ChartShows` says when the chart stops and what it shows until then. After a
  save that fails no other is scheduled until the settings are saved by hand; one that opens the file and cannot
  write it leaves it empty and the settings clean (`SettingsManager.cpp:168-177`). After a reconnection the subscriptions are
  remembered and not sent: `ServerFollows` says that these (`lapsed`) are all that the server does not serve.

## 5. Proofs

TLC looks at the instances of section 3; the theorems hold for every value of the constants. Each
rests on the named assumptions of the modules it extends and no others. These say that names of different
things differ and that bounds are natural numbers, plus: `Worker` and `Devices` are
finite; `Limits` and `Drivers` are not empty; a file limit, the size of a log file and of a line, and the limits of a history and of a chart are at least 1; times are natural numbers; bytes are in `0 .. 255` and sample rates positive; the types with a creator of the application's are
types. `tlapm` checks every proof to its last leaf.

A proof module extends the module it is about, or, where a run looks at several modules at once, the
MC module, so that the theorem is about the property as the run states it.
`CommonLibraryProofs` extends `CircularBuffer` and `StoredRecords` instead, because
`MCCommonLibrary` also reaches recursive operators: its `SchemaHolds`, `RecordsSurvive` and `LoadBringsBack`
are those of `StoredRecords`, and each of its behaviours is one of `StoredSpec` as far as these variables go.

| run | theorems that state its safety properties |
|---|---|
| `thread_pool` | all in `ThreadPoolProofs` |
| `common_library` | all in `CommonLibraryProofs`, but for `FunctionsAgree`, of which `BytesRight` is a part |
| `messages_and_logs` | all in `RotatingFileSinkProofs`, which takes `IpcManagerProofs`, `IpcClientProofs` and `NetworkSinkProofs` over |
| `sensors` | all in `SensorManagerProofs` |
| `devices_and_gui` | all in `DeviceManagerProofs` |

The argument of each module:

* **ThreadPoolProofs** – `TypeCorrect`, `HeldOnce`, `Fifo`, `QueueStaysBounded`, `StaysDrained`,
  `QuietWhenJoined`, `WaitAllMisses`, from `Invariance`. None of the properties is
  inductive. `IInv` adds what a worker's position says of its task (`Held`), that `activeTasks`
  is the number of workers between increment and decrement (`Counted`), who has the
  mutex where (`Locked`), that a client about to push has passed both checks and the
  queue has not grown since (`Pushing`), that no time is beyond the clock
  (`Ordered`), and the phases of stopping (`Stopping`). The bound follows from
  `Pushing` and the lemma `QueueChange` (a step adds at most the one task pushed) by
  the library's facts about the cardinality of finite sets.

* **CommonLibraryProofs**, the ring – `TypeCorrect`, `Positions`, and `Refinement`: the ring implements
  `BoundedFifo` for every element type, capacity and vector. The inductive invariant
  `Ring` is the type of the members together with `tail = Pos(size)`. `head + i` and
  `tail + i` stay below twice the capacity, so lemmas `PosIs` and `PosDiffer` reduce the
  remainder to one subtraction and give injectivity; `Grow`, `Shrink` and `Move` say what
  writing behind `tail`, moving `head` and copying to a larger vector do to `Contents`,
  and each operation is one of these against one action of the abstract queue.

* **CommonLibraryProofs**, what is kept as JSON – `RecordsKept` and `LoadsKept`. `RecordsSurvive` speaks of what
  comes back from one conversion; the invariant has to say what has become, over any number of them, of what
  was there first. `ConfigurationInv`: the settings are complete, and valid unless the
  load was refused. `EventsInv`: an event is the original, or the original with its time
  rounded, or what `DeviceEvent` keeps of it. That rounding twice is rounding once is where the arithmetic is.
  `RecordsInv` has a part for the creators, one for the registry and one for
  the file. The lemmas `SectionJson`, `EventJson`, `ReadingJson` and `InfoJson` say of each pair of
  `toJson()` and `fromJson()` what of a record comes back. `LoadBringsBack` is an action property of `initialize()`, for any
  list of devices that was saved: it reads the devices one after the other, and `LoadHolds` needs the first entry with an id (lemma `Least`).

* **CommonLibraryProofs**, the schema – `SchemaKept` (`SchemaHolds`), for any rules and any document. The invariant is the
  type: rules are rules, and what a path goes through on its way is an object (`PutIsValue`: also after
  a default was put there). The rest is about one document and one list of rules. `FilledIs` makes the recursive function of
  `applyDefaults()` a sequence of documents, one per rule, by the least number at which it would not be one, up to the rule that throws, if one does (`DoneIs`). Along it, `Fills` says
  that what was there stays and that every default of these rules is in its place at the end, so that a second call finds nothing to do;
  and `StaysValid` that a valid document is: where no key leads through another, the member that a rule is about
  is untouched by the defaults of all other rules (`Elsewhere`, `MemberIs`) and is either what it was or the rule's own default
  (`OwnPath`, `MemberFilled`). `RuleLoads` says what of a rule is left once it is exported and loaded, and
  `SameAccept` that a value of its type is judged by nothing else; `LoadOrder` that each key is loaded once, in some order.

* **CommonLibraryProofs**, what the drivers decode – `BytesRight`: `BytesDecoded`, the part of `FunctionsAgree` that is
  linear arithmetic, for every three bytes, setting and rate. The run looks at eight bytes. One lemma for each kind of
  chip; the shifts of a BMP180 depend on its oversampling and are four cases.

* **SensorManagerProofs**, the manager – `TypeCorrect`, `LoopsAreSafe`, `ThreadsRun`, `Quiet`. Two facts make them
  inductive: inside a loop a thread owns the mutex (`Owner`), and the phase of the controller
  bounds what the background threads can be doing (`Phases`); that only registered drivers have
  ever been started (`ActiveRegistered`) keeps `registerSensor()` from bringing a running one.

* **SensorManagerProofs**, below the manager – `DriversKept` (`DriversHold`), from `DriverInv` (only an initialized driver has a
  descriptor; an IMU whose writes have not failed is in the ranges it scales by), `GpsInv`, and `BusInv`. The last is the
  interesting one. As long as no two readers have overlapped, `Alone` says at each transfer which slave the
  descriptor talks to and which register answers, and `Debts` that the wrong readings are at most the failed
  switches, less one while the slave is where a failed switch has left it.

* **RotatingFileSinkProofs**, the files – `TypeCorrect`, `Ordered`, `NoHole`, `AgedLinesGo`, `SizesStayBounded`, for any number of threads,
  files, lines and crashes. `Control` says that one thread rotates at a time and that the
  stream is closed while it renames. `Placed` says that a line has moved up at most once per
  rotation since it was written, and `Shifting` that inside the loop the files up to the
  loop variable have still to move in this rotation, and the target is empty unless it is
  the last: so a rename overwrites only a line that is due. `OldestFirst` needs none of
  this and survives damage; the other two hold while nothing has failed. `SizesStayBounded` adds `SizeInv`: the writer comes to
  write only where there is room (`Room`, since the measuring, the rotation and the second
  locking are separate steps), a rotation that is through with the renaming has left nothing in file 0
  (`Emptied`), and in every file the lines before another one are less than the limit (`Sized`). The lengths of
  the lines are any numbers; that a sum over a part of a file is less than the sum over the file is never needed, since
  a line is put behind what was measured.

* **RotatingFileSinkProofs**, the composition – `Composition`, `MessagesKept` (`MessagesHold`), `EventsKept` (`SinkHolds`),
  `StepsKept` (`StepsHold`, from `AgedLinesGo` and the two refinements below). A
  behaviour of `MCMessagesAndLogs` is one of the component that `which` names; the lemmas of the three
  modules below, stated without time, are instantiated with the variables of the MC module.

* **IpcManagerProofs** – `TypeCorrect`, `EachOnce`, and `Refinement`: the manager implements `MessageChannel`. `IInv` is the type with what a client's position says of its request,
  the counting that keeps `accepted` within its bound, and `EachOnceInOrder` itself with the cleared
  messages among the accepted ones. The worker moves a message from the queue to its hand and on, which leaves the
  pipeline as it is; a push puts the next number at its end; `clearQueue()` cuts its end off.
  The refinement follows from the invariant by lemma `Splits`: what waits in the channel is what the worker
  holds and what is queued, in this order. So a transmission delivers the oldest (`TransmitDelivers`) and
  `clearQueue()` drops from the first queued one on (`ClearDrops`).

* **IpcClientProofs** – `TypeCorrect`, `EntriesBelong`, `CleanDisconnect`. `TableInv`: a caller past its entry has it in the table until
  it erases it, also where the worker erases without the mutex (then the outcome is undefined, and the
  property says nothing more). `OwnerInv` says at each point of the owner which threads are joinable and
  which socket is open; without automatic reconnection nobody else touches either.

* **NetworkSinkProofs** – `TypeCorrect`, `EventsOnce`, `FlushAlone`, and `Refinement`: the sink implements `EventChannel`. `DataInv` orders the places of an event by the calls of
  `write()`: what is queued is younger than what is being sent, the message of a flush younger than the worker's
  batch, the batch younger than what the worker has delivered. Only a batch and what a flush has
  delivered are in no order, and these are the ones `FlushAlone` exempts. `Fresh` says that the
  number a thread is about to write has not been written. The refinement maps the channel to the concatenation of
  the worker's batch, the flusher's message and the queue, so that most of it is what cutting and joining sequences does
  (`Halves`, `Middle`); that the event is new to the channel is the invariant's, and that the removed sink is not gone
  before its destructor ends is `Removing`.

* **DeviceManagerProofs**, the manager – `TypeCorrect`, `EventsTell`, `StoppedStay`, for any users, objects and ids. `MonitorPhases` says that
  the monitor is gone from the end of the join to the next `start()`, and that a device is left to a pass
  only during one, which keeps `left` within the registry although devices are removed. `AddsKeeps`
  and `RemoveKeeps` are the two ways the registry changes: that an id occurs once in it is what makes the removal
  of one announcement the removal of one device.

* **DeviceManagerProofs**, the graphical application – `GuiKept` (`GuiHolds`). `ClientInv`: what the server will serve when all
  messages under way have arrived is the subscriptions without those of connections that are gone (`lapsed`); a message at
  the end decides about its own device and no other. `DataInv`: a reading is in a history once, and one in a task or not
  yet stored is in none, in memory and in the file. `ChartInv`: the points are the end of what has been appended, and
  lie within an automatic range; the chart stops only where a view or an automatic range makes it (`Stops`); the range is computed anew from their least and their greatest, which exist
  because a finite set of numbers has them. Of the settings, a file that was truncated is invalid until it is written again.

**Only model-checked.** Liveness is out of the prover's reach, since it needs ENABLED: `AcceptedIsServed`, `StopNowReturns`, `AcceptedIsSent`,
`CallsReturn`, the two `StopReturns`, `PendingExpires`, `OthersSettle`, `FailuresAreRepaired`, `EverythingSettles`. So is
`FunctionsAgree`: the mathematical and string utilities walk their input by recursive operators and folds, and what these
compute for every input takes an induction over data. (`BytesRight` is the exception.) Of the schema, that validation
descends into rules inside rules as `ValidateNode` does is the instance's, and only the run has it.

## 6. What is not modelled

* *Pure output or no behaviour*: console and syslog sinks, QML views, the build
  tree; classes declared without implementation (`IpcServer`, `IpcMessage`, `ConfigManager`, and the header-only
  utilities); `SensorService`, which has no threads and does in one call what `SensorManager` does in several.
* *Wrappers of system calls*: `TimeUtils`, `FileUtils`, `NetworkUtils`, `SystemUtils`. What they do is the operating
  system's; around it there is formatting.
* *Floating point*: trigonometry, roots, the compensation of the BMP280 and colours. What is
  exact in integers (possibly scaled) is modelled instead, and named so.
* *Left out of modelled components*: tasks that call their own pool; `initialize()`,
  the transports and `handleMessage()` (which nothing calls) of the IPC manager;
  sends without an answer and the subscriber table of its client;
  `discoverSensors()` and `discoverDevices()` (simulations that sleep), and two threads that call `start()` at once;
  log levels, formats, statistics, and setters called while a sink is in use; the UDP variant of the network sink.
* *Hazards that no property covers* are in `PROJECT.json` with the reason: `readSensor()` and `readData()` may use
  an object that is gone (a step of both models; no document says one may not be removed while it is read), and the
  reconnection that ends at once (4.1). Others the models reach and no property speaks of: a task pushed after
  the last worker has left at `stop()` is never executed (`stop()` is refuted anyway); with `max_files` lowered by more than half
  older files stay for ever; with `max_files` 1 nothing is renamed and the
  file grows without bound (`SizesBounded` excludes it).

## 7. Plan

Modelled so far, in this order: `ThreadPool`, `CircularBuffer` with its abstract queue, `IpcManager`,
`SensorManager`, `RotatingFileSink`; then `IpcClient`, `DeviceManager`, `NetworkSink`, the models of the
graphical application, the drivers, and the conversions and algorithms. To come:

1. **Composition** – the sensor service: the manager's threads as clients of the IPC manager, and
   the lock order of the two; `DataManager` over `ThreadPool`.
2. **The rest** – the subscriber table of `IpcClient`, `TimeUtils`' timer.

## 8. Running it

    tlc -workers 2 -config MCThreadPool.cfg MCThreadPool.tla
    tlapm ThreadPoolProofs.tla

and likewise for the other configurations and proof modules. The runs take from a few
seconds to about three minutes each, the proofs from a few seconds to about six minutes each. The runs listed under
"Findings" end with a counterexample; all others end without an error.
