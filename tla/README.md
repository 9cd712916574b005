# trikRuntime: specifications, model checks and proofs

TLA+ modules for the concurrent core of trikRuntime, the program that runs on the
TRIK robot controller: it starts and stops user scripts, drives the robot's devices,
streams cameras to the DSP and talks to other robots. Every definition is a
translation of the C++ code; PROJECT.json maps each one to the lines it stands for,
lists the runs with what they show, the mutants that show that a property can fail,
the hazards of the code, the findings and the theorems.

## 1. The system

### Components, state and interactions

| component | state | operations | talks to |
|---|---|---|---|
| `Threading`, `ScriptThread` | thread tables `mThreads`, `mFinishedThreads`, `mPreventFromStart`; mailboxes; two mutexes, a semaphore, `mResetStarted` | start, join, kill, send, receive, finish, `waitForAll`, `reset` | script threads call it; the worker resets it |
| `ScriptEngineWorker` | `mState`, `mScriptId`, event queue, nested event loops, direct-command engine | `run`, `runDirect`, `stopScript`, `resetBrick`, quit | called by `TrikJavaScriptRunner` on the GUI thread; owns `Threading` |
| `ScriptExecutionControl` | event-driven flag, timers, pending photos and waits | `run`, `quit`, `wait`, `timer`, `getPhoto`, `reset` | scripts, worker, brick |
| `CppEngineWorker`, `TrikCppRunner` | atomics `mCurrentRunId`, `mIsTerminate`; queued runs | `run`, `abort`, `doRun` | GUI thread; the user's library |
| `PythonEngineWorker` | state, interpreter context, error text | `run`, `runDirect`, `stopScript` | GUI thread; the interpreter |
| `TrikScriptRunner` | the last runner, lazily created runners | `run`, `abort` dispatch | the three runners |
| `TrikVariablesServer` | the one current connection | answer a request | `ScriptEngineWorker` |
| `Mailbox`, `MailboxServer` | message queue, known robots under a lock, connections | connect, register, send, receive, renew | other robots; scripts wait in `receive` |
| `TrikServer`, `Connection` | tables of connections and threads; buffer, expected length, heartbeat timers | accept, send, frame messages, close | communicator, telemetry, mailbox |
| `TrikCommunicator`, `TrikTelemetry` | none beyond their connections | commands, queries | script runner, devices |
| `TrikWiFiWorker` | connection status, planned-disconnect flag | connect, disconnect, scan | wpa_supplicant |
| `DeviceState` | off / starting / ready / stopping / failure | five guarded transitions | every device |
| virtual sensors, range sensor | device state, fifos, command queue | init, stop, send, new data | external processes, fifos |
| `FifoWorker`, `KeysWorker`, event devices, gamepad | last line and data; pressed keys | waiting reads, reset | script threads, device files |
| `CameraManager` | per port: device, streaming, reference count, stop latch, latest frame, pool of counted buffers | acquire, release, stopStreaming, close, getFrame, return of buffers | V4L2 driver, photo threads, DSP pipeline |
| `DspFramePipeline` | channel, running flag, abort flag, active port, last sequence number | `run`, `setChannel`, `stop` | CameraManager, DSP, sensors |
| `VideoSensorManager` | held ports, active port, detached ports | activate, stop, release, destroy | the two above, the sensors |
| gyroscope, lidar, infrared camera, sound | calibration, double buffers | read, calibrate | device files |
| brick, motors, analog sensors, display, led, tones | scaled I/O | read, write, stop, reset | drivers |
| trikHal, MSP and I2C drivers, trikDsp | files, buses, shared memory | I/O | hardware |
| trikKernel | `SynchronizedVar`, configuration | swap, parse | everything |
| trikGui, trikRun, trikServer, ROS 2 node | views; entry points | start, abort, show | script runner, brick |

### What is hard

* Scripts run in threads of their own and call back into `Threading` while the worker
  starts, joins, finishes and resets them: locks that are given back and looked at
  again, waits with a lock closed, wake-ups without the mutex of the condition.
* The worker waits in event loops that serve its own queue, so every operation can run
  in the middle of every other one.
* The GUI thread waits for the worker, and the worker's brick reset for the GUI thread.
* Camera buffers are counted by three threads and come back over a queue that a
  restart of the stream can overtake.
* Flags that say "stop" are reset by the code that is to be stopped.
* The Python interpreter is interrupted from the GUI thread by a flag that stays set
  until some Python code looks at it, whichever program that belongs to.
* Robots learn of each other from handshakes, from third robots and from their own
  connections, in any order, while connections are opened twice, break and come back.
* Waiting reads look first and open their event loop afterwards; reads of several
  threads wait in one worker thread, inside one another.
* Devices are looked at in one thread and started and stopped in another.

### What makes each component correct

* Threading: owner-only unlocks, tables that never share an id, joins that tell the
  truth, a pool that no thread enters during a reset and that a reset leaves empty.
* ScriptEngineWorker: loops that nest consistently, a stop that reaches the program,
  quiet when idle, callers that return, completions for each id.
* C++ programs: completion of every run, a quiet brick afterwards, stops that are seen.
* CameraManager: counts equal claims, no buffer lost, none recycled under a reader,
  nothing to deliver after a stop. Pipeline: the frame's own parameters, changes and
  stops that take effect, one answer per request.
* Python programs: an interrupt hits the program it is meant for, which ends; the worker
  comes to rest ready and the brick quiet; an abort goes to the runner that runs.
* Mailboxes: whoever joins knows all and is known to all, one entry for each; a message
  arrives once, from its sender.
* Devices: commands in order, no descriptor left open, stops and resets that take effect,
  no state change that throws.
* Fifo: nothing handed out twice or out of order, no byte lost below the limit, nobody
  asleep on what is there.

## 2. Modules

| module | models | abstract specification / properties / proofs / TLC |
|---|---|---|
| `Threading` | `threading.cpp`, `scriptThread.cpp` | `ThreadPool` (what a program is promised) / `ThreadingProperties` / `ThreadingProofs` / `MCThreading` |
| `ScriptEngineWorker` | `scriptEngineWorker.cpp`, `trikJavaScriptRunner.cpp`, dispatch in `trikScriptRunner.cpp` | `WorkerProperties` / `WorkerProofs` |
| `CppEngineWorker` | `cppEngineWorker.cpp`, `trikCppRunner.cpp`, `Controller::scriptExecutionCompleted` | `CppProperties` / `LoopProofs` |
| `CameraManager` | `cameraManager.cpp`, buffers of `videoDeviceFileBase.cpp`, its clients | `CameraProperties` / `CameraProofs` / `MCCamera` |
| `DspFramePipeline` | `dspFramePipeline.cpp`, its control by `videoSensorManager.cpp` | `PipelineProperties` / `LoopProofs` |
| `PythonEngineWorker` | `pythonEngineWorker.cpp`, `wait` of `scriptExecutionControl.cpp`, `receive` of `mailbox.cpp` | composed by `TrikScriptRunner` |
| `TrikScriptRunner` | `trikScriptRunner.cpp`, `trikPythonRunner.cpp`, calls of `controller.cpp` | `PythonProperties` / `PythonProofs` |
| `MailboxNetwork` | `mailboxServer.cpp`, `mailboxConnection.cpp`, `trikServer.cpp`, `connection.cpp` | `MailboxProperties` / `MailboxProofs` / `MCMailbox` |
| `DeviceState` | `deviceState.cpp` | used by the next three |
| `VirtualSensor` | `abstractVirtualSensorWorker.cpp`, `soundSensorWorker.cpp`, `soundSensor.cpp` | composed by `BrickDevices` |
| `RangeSensor` | `rangeSensorWorker.cpp`, `rangeSensor.cpp`, `trikEventFile.cpp` | composed by `BrickDevices` |
| `BrickDevices` | `reset` and `stop` of `brick.cpp` | `DeviceProperties` / `DeviceProofs` |
| `Fifo` | `fifo.cpp`, `fifoworker.cpp`, `trikFifo.cpp` | `FifoProperties` / `FifoProofs` / `MCFifo` |

An `MC` module is there where a configuration needs definitions (symmetry, sets of
links, a shorter list of calls) or model values; the other configurations give the
constants of the properties' module their values and check that module.
Definitions named `X_Something` with a comment "Fault" are plausible wrong versions of
`X`; the models do not use them, the mutants of PROJECT.json do.

### Threading

The worker and every script thread have a program counter (`pc`) and the call they are
in (`call`). A step is what happens between two points at which another thread can
interfere: a lock that may be held, a wait, the semaphore, a read outside any lock.
`tryLockReset` is two steps (`TryLock`, `Retest`), because the code reads
`mResetStarted` again after it has given the lock back. `threads`, `finished`,
`prevented` are the tables, `mail` the lengths of the mailboxes, `aborted`/`failed` what
happened to a script. Script threads may make any call of `Ops` at any time; `quit` is the
signal of `script.quit()`, which is connected directly to every thread's event loop.
`startMainThread` may also come while the worker waits for a reset, and is then refused; the
clearing of the tables that goes before is one step with the refusal. `ThreadPool`
knows only the live ids and "a reset is going on"; `Threading` implements it with
`alive <- threads`, `stopping <- resetStarted`.

### ScriptEngineWorker

`queue` is the worker's event queue; `frames` is the stack of event loops (`doRun`,
`reset`, `resetBrick`) it is in, each told to quit or not: Qt leaves a loop only when it
is innermost. `program` is the script with live threads: `Threading`, seen through what
`ThreadPool` promises. `caller` is the GUI thread inside `run`, `abort` or
`runDirectCommand`. `doRun` and `doRunDirect` write `mState` without the mutex that
`stopScript` holds, so `stopScript` is a step for each of its statements (`stopAt`), and so
is the creation of a direct command's context (`workerAt`). A stop that the worker itself
calls (`script.quit()`) cannot be interrupted by the worker, only kept waiting by the
mutex, and is one step. A thread that ends with an error makes `threadFinished` reset the
others in an event loop of its own (`ThreadFails`); the last one may end with an error or
without, event-driven or not (`ProgramEnds`). Quits come from the script, from timers and
from direct commands. Not modelled: GUI events served during `resetBrick`, `stopWaiting`
of the mailbox, the reset of the keys, the event loop that `script.wait` opens
within a direct command, and the GUI thread's look at `mDirectScriptsEngine` while
the worker deletes it, which is a data race.

### CppEngineWorker

`runId` and `terminate` are the two atomics, so a `stopScript` is two steps; `todo` is
what the GUI thread still has to do in the call it is in. `doRun` is split at the points
where a stop matters: the comparison of ids (`Skip`/`Load`), the time of loading, and
`mIsTerminate = false` (`Begin`). A program drives the brick and ends.
`Completed` is Controller's slot: it resets the brick whichever script has completed.

### CameraManager

One port. `mq` is the manager's event queue, `queued` the buffers that are in the driver
(external), `refs`/`latest` the tokens. `onDeviceFrame` is three steps, as getFrame and
`Frame::release` on other threads see it. Clients are photo threads, the DSP thread
and the GUI thread (`held`, `channel`, `closing`). With `MayFail` the device may not open,
`startStreaming` may fail with some buffers already queued, a buffer may be refused
(`refused`) and a fatal error of DQBUF disables the notifier (`armed`); a failing STREAMOFF
and detached ports are not in the model. `fresh` stands for the comparison
of sequence numbers. `outlived` is a history variable: a stream was stopped while a
frame of it was out.

### DspFramePipeline

The loop's program counter and locals; `SwitchPort` ends with the reset of the abort
flag, which is a separate step from reading the channel. The GUI thread writes the
channel and then aborts the wait, in two steps. `fresh[p]` says whether port `p` has a
latest frame and whether the loop has seen it. `requests` numbers the detection requests
so that an answer can be told from another's. The names that every module of a kind has
(`PipelineSpec`, `pipelineVars`, `PipelineTypeOK`) carry a prefix here, and the GUI
thread's variable is `manager`, because `LoopProofs` extends this module and
`CppEngineWorker` together.

### PythonEngineWorker and TrikScriptRunner

`frames` is the stack of `doRun` and `doRunDirect` in progress in the worker's thread: a
program that sleeps or receives, and `processEvents` before and after an evaluation, serve
the queue, so that the next script may run inside the last. `interrupt` is the pending
call or signal of the interpreter, which `RecreateContext` clears, a program's bytecode
takes and `Released` may take when it comes late; wherever the worker's own Python code
takes it, the error may be one of the interpreter's. `trikPy` says whether TRIK.py is
there: without it every run gives up and leaves `mState` as it is. A call of the GUI
thread is a list of steps in `gui`, taken one by one: `stopScript` is the state's change,
the interrupt, the mailbox's wake-up and the state's change back (`StopChain`). The mutex
only excludes other calls of that thread, so it is not in the model. `TrikScriptRunner`
puts the lists together: aborts of the last runner and of the new one, then the run.
JavaScript programs are what ScriptEngineWorker promises of them. An autocompletion query
for another language makes its runner the last one (trikScriptRunner.cpp:162), and the
next abort goes there instead of to the program that runs: `AbortReaches` excepts it.
`aimed` is a history variable: the scripts there were when the interrupt was sent.
`InitPython`, errors' texts, waits for a key and the application's exit are left out.

### MailboxNetwork

Each robot is a `MailboxServer` with one thread. `conn[i]` is a connection with the
`Connection` objects at both ends, from `created` over `listed` (in `mConnections`),
`connecting` and `open` to `dead` and `gone`, and what is on the wire each way. A slot
that loops over connections (`forEveryConnection`) keeps what is left of it in `work[r]`:
it finds a connection (`Reach`), looks whether it is connected (`Check`) and attaches the
message to its signal (`Hook`) in three steps, since the connection's own thread goes on
meanwhile. A robot stands for its address; ports are numbers of connections, and the
servers all have the same. `hull` numbers are pairs, so that a robot's old number is told
from its new one and never equals another's. What a robot tells of itself is read when it
is sent, in the connection's thread: `Brought` lets it be the number of the moment the call
was posted or any later one, also where two such calls are sent in turn. `Restart` leaves a
robot its address and port: the test of the saved address and the retry with another port
(mailboxServer.cpp:82-88) are outside the model. `Break` is an error, a closed socket or a
missed heartbeat at either end; `Restart` switches a robot off and on. `Again` bounds who
may be told to join a robot it follows already.

### VirtualSensor, RangeSensor, BrickDevices

`DeviceState` is the table of allowed changes; a change that is not allowed throws.
`VirtualSensor` is the worker's thread (its queue, and how far the call it serves is),
the sensor's process (`alive`), the nodes of its fifos (`up`), which a process that dies may
leave behind, the command queue, and a script that looks at the status and then posts a
call. The command fifo is opened in a mode that waits for a reader
(trikOutputDeviceFile.cpp:60), so with a node and no process the worker is in `open` for
good (`Blocked`). What the signal SIGPIPE does to a write to a process that has died is
left out. In `RangeSensor`, `waiting` is the event loop of
`TrikEventFile::open`, in which further calls are served; `rangeError` says where C++
leaves the behaviour undefined or an exception leaves the thread, and ends the sensor's
part of the model. `BrickDevices` adds `Brick::stop` and `Brick::reset`, step by step.

### Fifo

Every call of a reader is executed in the worker's thread while the reader is blocked.
`frames` is the stack of waiting reads, each told to return or not. The pipe carries
`MaxLines` lines as numbers, their text and their end of line apart, so a read of the
pipe can cut a line in two. `dropped` counts what went at the limit. The one line that is
kept may be overwritten by the next (fifoworker.cpp:118): lines come at most once and in
order, and only of the bytes does the model say that none is lost. The pipe is read on
after a read error, as `trikFifo.cpp` enables its notifier again.

## 3. Runs

The runs of PROJECT.json that pass:

| run | bounds | properties and what they show |
|---|---|---|
| `threading_table` | 2 ids, every call, 1 message | `LockDiscipline`, `TablesDisjoint`, `CompletedMeansOver`, `DequeueNonEmpty`, `JoinTellsTheTruth`: locks, tables, mailboxes and joins; `PoolSpec`: refinement of `ThreadPool` |
| `threading_reset` | 2 ids, start and kill | `ResetEnds`: a begun reset ends, if functions end and nobody joins, blocks or goes event-driven |
| `worker` | 3 scripts or commands, 2 quits | `Consistent` (types, nested loops, a stop that reaches its program, one caller per `resetBrick`), `QuietWhenIdle`; `CallerReturns`, if aborted threads end, and `StopResetsProgram`, unless the worker waits for itself |
| `cpp_programs` | 3 runs, 2 aborts | `BrickQuiet`; `EveryRunCompletes` |
| `camera_frames` | 2 buffers, a photo, the DSP, all operations, a failing driver | `BuffersAccounted` (types, counts are claims, no buffer lost but a refused one), `StreamFramesSafe`: recycling under a reader only across a stop, `NothingStaleToDeliver` |
| `dsp_pipeline` | 2 ports, 1 detection request | `FrameOfItsChannel`; `StopReturnsOnStream` and `ChannelTakesEffectOnStream`, unless the loop waits for a released port |
| `python_programs` | 2 runs (in either language) or aborts, 2 scripts or commands, queries, a message, TRIK.py or not | `NoStaleInterrupt`, `InterruptEnds`, `WorkerRests` (types, and ready at rest, or running without TRIK.py), `BrickQuiet`, `AbortReaches`: aborts reach the runner that is still the last one |
| `mailbox_network` | 3 robots, 5 connections, 2 messages of any of them, each robot joins once, nothing breaks | `AllJoin`, `Delivered`; `AtMostOnce` and `SenderIsRight`, as long as no table holds a null address |
| `mailbox_faults` | 2 robots, 5 connections, a message of the leader, repeated joins, a new hull number, a fault | `KnownRobotsKept` (types, one entry per robot); `RegisteredFirst`: the handshake before data, on a connection that is up; `RejoinsNetwork` |
| `brick_devices` | 2 calls of a script, a death, 2 stops or resets | `Consistent` (types, commands in order, no stop before the first init), `OpenWhenReady`: no stray descriptor, `ThrowsOnlyAfterDeath`, `BrickTakesEffect`: stops and resets, `StatusSettles`, but for the open that never returns |
| `fifo_readers` | 3 readers, 2 lines, 4 reads, limit 3, chunks of 2 | `HandedOutOnce`: lines at most once and in order, and no byte lost below the limit; `NobodySleepsOnInput`, `Consistent` (types, one call or wait for each blocked reader), `ToldReturns` |

One run ends in a violation: `message_received`, a disagreement between code and
documentation, is a finding with the words it quotes. A wake-up between the look and the
wait of `receiveMessage` is lost.

### Further configurations

Kept beside the runs and not listed in PROJECT.json. Each `MC...Promises.cfg` names one
property and, in comments, others to put in its place; run it with
`tlc -config MCxPromises.cfg M`, where `M` is `MCThreading`, `MCMailbox`, `MCFifo`,
`MCCamera`, or `WorkerProperties`, `CppProperties`, `PythonProperties`,
`DeviceProperties`, `PipelineProperties`.
`NothingLost` of `MCMailboxPromises.cfg` holds (a minute); every other one is a promise
that the code does not keep.

| configuration | property | what TLC finds |
|---|---|---|
| `MCThreadingPromises.cfg` | `JoinOfNobodyReturns` | `joinThread` of an id nobody starts spins (threading.h:50 "Does nothing if there is no thread with such id") |
| | `ResetToInitialState` | `reset` leaves ids in the tables (threading.h:69 "resets to initial state") |
| | `ResetAborts` | a join waits with the mutex that reset needs; with `AbortSpec`, `ThreadIds = {main}` and no calls: an abort before the evaluation, or before the event loop, is lost |
| `MCWorkerPromises.cfg` | `StopReturns` | a quit served before the queued `doRun` makes the worker spin in `stopScript` (scriptEngineWorker.cpp:141), waiting for itself (scriptEngineWorker.h:73-74 "By the end of call the worker would be in a ready state.") |
| | `RunRuns` | a run served inside another's reset starts nothing, aborted threads that end granted |
| | `RunCompletes` | an id never gets its `completed`, aborted threads that end granted |
| | `DirectAfterAbort` | a direct command runs beside the script it should abort |
| | `DirectIsEvaluated` | after an exception direct commands are dropped |
| `MCCppPromises.cfg` | `SupersededEnds` | a stop while the library is loaded is erased by `mIsTerminate = false` (cppEngineWorker.cpp:99; trikCppProgram.h:32-33 "set isTerminate to true when the program must stop.") |
| `MCPythonPromises.cfg` | `StopEndsScript` | a stop whose interrupt `recreateContext` clears leaves the program running (pythonEngineWorker.h "Stops script execution and resets script engine") |
| | `ReceiveReturns` | a message between `hasMessages` and the loop wakes nobody (mailbox.cpp:164; mailboxInterface.h "blocks until a message is received") |
| `MCMailboxPromises.cfg` | `NeverHookedLate` | a send connects to the signal `connected` after it was emitted: the message is lost (mailboxServer.cpp:396-400; mailboxInterface.h:71 "Sends message to all known robots.") |
| | `SenderKnown` | a message of a known robot is attributed to nobody, by a port noted earlier (mailboxServer.h:92 "from a robot with given hull number") |
| | `OnlyRobotsKnown` | a second send finds a connection that is still being opened and, when it looks again, notes its null peer address as a robot's (mailboxServer.cpp:391-400; mailboxInterface.h:71 "Sends message to all known robots."); with three senders, as the file says |
| `MCDevicesPromises.cfg` | `ReadyIsHeard` | an init of a sensor that is ready replaces the fifo it is read from (abstractVirtualSensorWorker.cpp:65-71) |
| | `RunningIfThere` | fifos without a process: the open for commands never returns (abstractVirtualSensorWorker.cpp:84 "Sensor is already running but we are not connected to it.") |
| | `NeverThrows` | `ready` of a sensor that is ready (rangeSensorWorker.cpp:78; deviceState.h:56) |
| | `NeverDeletedWhileOpening` | an init served in the wait of another deletes the event file whose `open` is on the stack (rangeSensorWorker.cpp:73) |
| | `StopWins` | a stop in the wait is undone when the wait returns with the file open (rangeSensor.h "Stops sensor until init() will be called again.") |
| `MCFifoPromises.cfg` | `ReadReturnsLine` | a wait that nests another returns an empty string: the line is gone (fifoInterface.h "Reads line from this FIFO file") |
| | `ReadReturns` | a reader waits behind a younger wait in the same thread, with its line there |
| `MCCameraPromises.cfg` | `NeverRecycledWhileRead` | the sensors are stopped and started again while the DSP reads a frame (videoSensorManager.cpp:258; cameraManager.h:58-59 "the buffer is never recycled while somebody is still reading it") |
| | `QueuedOnce` | a return served after a restart queues a buffer twice |
| | `StopSparesOthers` | a stop by a manager that does not hold the port ends a photo's stream |
| `MCPipelinePromises.cfg` | `StopReturns` | a stop between the loop's look at the channel and its reset of the abort flag is lost, and `destroyDsp` waits for ever (dspFramePipeline.cpp:84; dspFramePipeline.h:75-76 "Takes effect promptly: wakes any pending frame wait.") |
| | `ChannelTakesEffect` | a `setChannel` in the same window is lost |
| | `DetectAnswered` | the answer to one detection request clears another |

### Bounds

Two ids give every race of two threads over one id (the proofs cover any number);
mailboxes hold one message where messages matter. Three scripts are a running one, the one
that replaces it and the one that is served in that one's reset. Two runs are enough for a
superseded run, three for a run superseded twice. The code allocates three buffers; two of
them already meet every order of a capture, a claim, a return and a restart, as one is
read or on its way back while the other is filled, and the invariants that the run checks
are proved for any number. `MaxQueue` bounds the manager's queue only when a new call or
frame is begun; answers are never refused. Two ports are needed for a switch. Two Python
scripts are enough for one that nests in the other and for a late interrupt, and two runs
or aborts for a run that aborts another runner's program and for a stop of a nested one;
`MaxMail` 1 fills and empties a mailbox. Three robots are the least with news of a third;
a call is made only while `Spare` connections are left, so that the bound on connections
never stops a call that is under way, and connections that are over give their numbers
back. In `mailbox_network` any two sends, of one robot or of two, may meet connections
that a join, news of a third robot or the other send is opening: among its states are
those in which one connection holds both messages in its hooks, a send opens a second
connection to a robot, a message is hooked late, and a null address is noted. Each robot
joins once there; repeated joins are in `mailbox_faults` and in the promises.
`mailbox_faults` has two robots, so that a fault at each point of a join, a send and a
renumbering fits in. One death of a sensor and two stops reach every pair of a stop with
an init; the second stop may come during the reset's init. Three readers nest three deep;
a limit of 3 with chunks of 2 cuts lines and overflows.

`CHECK_DEADLOCK FALSE` stands where the system may rest or stop: a program with all its
bounded calls made, a destroyed pipeline, a worker that waits for itself (the finding).
The camera runs check for deadlock.

### Fairness

Threads that can run do run (weak fairness of the worker's, the GUI's and the loops'
steps): the operating system schedules them and Qt serves its queues. A script thread's
function or program ends only where the run says so; `AbortSpec` and `EndlessSpec` take
away that assumption and keep only "an aborted (told) one ends". In `worker` nothing at
all is assumed of the program's threads, since an aborted thread need not end
(`ResetAborts`); `CallerReturns` says in its own premise that no reset waits for ever for
one, because `resetBrick` may wait below it on the worker's stack, and `StopResetsProgram`
needs no such premise. The brick's answer comes, because the GUI thread serves its queue.
In the pipeline, streaming ports give frames; a released port need not, and the two
liveness properties of `dsp_pipeline` except the loop that waits for one (`WaitsInVain`).

A Python program need neither end nor leave its bytecode: only the interpreter's answer to
an interrupt, the steps of `doRun` and the GUI thread are fair. In the mailboxes some
thread goes on while any server or connection has something to do (an attempt to connect
succeeds or breaks), scripts and faults are not bound to; all that a network does for a
finite number of calls comes to an end, so that nothing is starved. The devices' workers,
timers and the brick's calls under way are fair; the range sensor's driver and the
sensor's death are not, and an `open` for commands returns only with a reader or without a
fifo. Fifo: the worker's loops serve the pipe, the queue and the loops that are told to
return.

## 4. Proofs

TLAPS proves every invariant that the runs check, their two action properties
(`JoinTellsTheTruth`, `NoStaleInterrupt`) and the refinement, for every value of the
constants: any number of threads, scripts, robots, buffers, calls, messages and faults.
Each theorem rests on an inductive invariant; its proof goes through the actions one by
one.

* `ThreadingProofs`: `TypeCorrect`, `LocksKept`, `TablesKept`, `OverWhenCompleted`,
  `NeverDequeuesNothing`, `JoinCorrect` (an action property) and `ImplementsPool` (the
  refinement of `ThreadPool`). `IndInv` is the type invariant, the properties, and four
  parts they rest on. `WorkerCallInv` says which call the worker is in and what it found
  when it began; `ResetInv` that no thread that is past the check of `mResetStarted`
  coexists with a reset, so that nobody enters the pool during one, and that a thread that
  saw a reset does not see its end (it is in the pool, and the reset waits for it), which
  is why the second read of `mResetStarted` is harmless; `BootInv` that a thread that has
  not announced itself has its starter waiting with the mutex closed; `WokenInv` that a
  woken receiver has mail unless a reset takes it.
* `WorkerProofs`: `KeepTogether`, `IdleIsQuiet`. The queue and the stack of event loops
  have no bound, so the invariant says of each what it contains, contains twice, or has
  told to quit. `LoopsInStep`: a doRun or a reset waits just while a program is alive, and
  one reset is on the stack while `mResetStarted`. `StartInStep` and `StopIsUnderWay`: a
  state that promises an event has it in the queue, or one of the two threads is at the
  statement that will post it. `DirectInStep`: no direct command is served between the
  caller's reset of the brick and its run. `BrickInStep`: one `resetBrick`, in the queue
  or on the stack, for a caller that waits.
* `PythonProofs`: `ComesToRest`, `BrickLeftQuiet`, `AbortsReach`, `InterruptsTheirOwn`.
  Each has its own reason: `StopGoesOn` and `RunIsQueued` (who made `mState` stopping or
  starting will make it ready or running), `RunningIsRun` (running, unless TRIK.py is
  missing, while the program of some `doRun` has not ended), `ResetToCome` (a driven brick
  has its reset, or what leads to it, ahead), `StopToCome` (a JavaScript program that is
  not the last runner's has its stop in the GUI thread's list), `InterruptIsTheirs` (while
  an interrupt is pending, every program past its own `recreateContext` was there when it
  was sent, because `recreateContext` clears it).
* `CameraProofs`: `EveryBufferAccounted`, `FramesSafe`, `NoStaleFrame`. Two parts hold
  whatever outlives a stream, and the first theorem rests on them: `NotLost` (each buffer
  is in the driver, refused by it, on its way or counted) and `NotOver` (no count exceeds
  the claims). `Orderly` says that until a frame outlives its stream counts are exact, and
  a buffer is in one of those places, on its way once. The steps fall into those that
  leave the stream alone, those that start it, those that stop it, and the return of a
  buffer.
* `LoopProofs`: `WorkerTyped` and `BrickLeftQuiet` for C++ programs, with the addition
  `PostComesLast` (a call posts at most one run, last, with an id left); `PipelineTyped`,
  `FramesMatchChannels`, `VideoIsClosed` for the DSP pipeline, inductive together once the
  types say where in the loop the active port is the one it reads.
* `DeviceProofs`: `ConsistentAlways`, `OnlyAfterDeath`, `ReadyIsOpen`. The invariant falls
  into a part for each sensor and one for the brick, so that a step of one leaves the
  others' alone. `SensorState` ties the status to the handler the worker is in (nobody but
  init and stop changes it, and a sensor that is ready has been opened, by a process that
  is there or has died), so that of all the checked changes of the status only the start
  of one that has died can throw; `InitIsNext` says that a range sensor that is starting
  waits for its file or has an init at the head of its queue, which is why the stop of
  `Brick::reset` never comes first.
* `FifoProofs`: `NobodySleeps`, `HandedOut`, `KeepTogether`, for any readers, any size of
  a read and any limit. The first rests on the form of the calls and of the waits; the
  second on `BytesWritten` and `LinesLeft`, which say that the bytes that are out of the
  pipe and in it follow one another, and that a line that is kept or was returned has its
  end before all that is still in the pipe; the third on `ServedOnce`, one call in the
  queue or one wait on the stack just for those who are blocked. The lemmas about
  sequences say what cutting, joining and removing a middle part preserve.
* `MailboxProofs`: four theorems. `TablesAreKept` rests on `Typed`, as do the others: what
  the slots, hooks and wires hold is of its kind, a table has one entry for each robot,
  and a slot that greets or sends holds a connection of its robot's. `HandshakeComesFirst`
  rests on `Introductions`: who registers is at the head of the wire or has been heard
  (`Registered`), an answer comes before anything else that the caller is sent
  (`SelfFirst`), and a server finds a connection to send over only by a port it noted when
  it greeted it (`PortsGreeted`). `SendersAreNamed` rests on `Truth`: every hull number in
  a table, a slot, a hook or a handshake is one of the robot it is said to be of.
  `NothingComesTwice` rests on that and on `Unique`, which names all the places in which a
  message can be on its way to a robot (the slots of the servers, the calls hooked to and
  due at the connections, the wires to it, its inbox) and says that it is in one of them,
  once. Every step keeps what the places hold or hands a message over from one place to
  one other (`KeptAt`, `HandedOver`); a send begins with one entry for each robot, because
  the table has one. The last two theorems are about networks in which no robot has
  restarted and no table holds a null address (`OnlyRobotsKnown`, among the promises of
  section 3): with one, a message for one robot may go to another. Breaks of connections,
  new hull numbers and any order of joins are allowed.

The assumptions are the named ones on constants in each module; TLC evaluates them in
every run. Thirteen properties stay with TLC, all of them liveness: `ResetEnds`,
`CallerReturns`, `StopResetsProgram`, `EveryRunCompletes`, `InterruptEnds`,
`StopReturnsOnStream`, `ChannelTakesEffectOnStream`, `AllJoin`, `Delivered`,
`RejoinsNetwork`, `BrickTakesEffect`, `StatusSettles` and `ToldReturns`. They rest on
fairness, and so on ENABLED, which TLAPS does not treat. The further configurations show
promises that the code breaks; there is nothing to prove about them but `NothingLost`,
which holds on its instance and is not proved.

## 5. Not modelled, and the plan

1. More proofs: `NothingLost` of the mailboxes; that the other modules' parts that
   `TrikScriptRunner` and `ScriptEngineWorker` take for granted (a program that runs, ends
   or is aborted) are implemented by `Threading`, as `ThreadPool` is.
2. Timers, photos and video streams of `ScriptExecutionControl` against its reset; `Keys`
   with waiting programs; `TrikVariablesServer`.
3. Framing of bytes and the heartbeat's time in `Connection`; `TrikWiFiWorker`.
4. Detached ports of `VideoSensorManager`; its composition with `CameraManager` and
   `DspFramePipeline`, which share the port's frames.

Left out for good: pure I/O (drivers, buses, files, the DSP call; much of trikControl and
trikHal), generated Python bindings, drawing and sound, numeric filters, configuration,
the QML interface, vendored and generated code. They are most of the implementation's
lines, which is why the map covers a small share of them; what has state that two
threads, two calls or two robots share is what the modules are about.
