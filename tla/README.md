# A formal model of JointROS

JointROS (`src/`) drives robot joints over a CAN or serial bus from ROS 2. Each
*bus* has one SDK context that only one thread may use at a time; a real-time
*tick thread* sends control frames through it in every period, and ROS callbacks
borrow it for blocking calls (parameters, calibration, enabling, reset). Most
of what can go wrong is in that sharing, in what is restored after it, and in the
way of a command from a topic to the bus. These modules model those parts, TLC
checks them on small instances, and TLAPS proves every safety property of the runs for
all values of the constants. No module leaves out a schedule or a failure to make a
property hold: where the code keeps a promise only as long as callbacks do not meet or a
call does not fail, a history variable says when that has happened, and the property says
what holds in spite of it and until when.

- `X.tla`: the model of a component; `MCX.tla`: model values for TLC;
  `X.cfg`, `X_*.cfg`: the runs; `XProofs.tla`: the theorems. Three modules hold the
  theorems of two components each: `PauseWindowProofs` (`TickPause`, `SafeWindow`),
  `TickDataProofs` (`SpscRing`, `CommandGate`), `SystemHardwareProofs`
  (`SnapshotExchange`, `SystemHardware`).
- `PROJECT.json`: components, runs, the map from definitions to source lines,
  hazards, findings, theorems, and for each property a mutation of the model that
  breaks it.
- Run with `tlc -config TickPause.cfg MCTickPause.tla` and
  `tlapm PauseWindowProofs.tla`.

Paths below are under `src/jr_ros2/`; `tick_group` is `src/rt/jr_tick_group.cpp`,
`runtime` is `src/rt/jr_bus_runtime.cpp`, `ops` is `src/rt/jr_bus_ops.cpp`, `services` is
`src/ros/jr_bus_services.cpp`, `node` is `src/ros/jr_bus_node.cpp`, `desc` is
`src/rt/jr_desc_cache.cpp`; `hw` is `src/jr_ros2_control/src/jr_system_interface.cpp`.

## 1. Inventory

| Component | State | Operations | What makes it correct |
| --- | --- | --- | --- |
| `rt::TickGroup`, pause protocol (`tick_group` 159-318, 425-481) | `running_`, `stop_requested_`, `pause_request_`, `pause_ready_`, `pause_release_`, local `paused` | `start`, `stop`, `pause`, `resume`, `thread_main` | one thread in the context; every pause answered, every window ended; `stop()` returns |
| `rt::TickGroup`, clock; `Sleeper` (`jr_rt_sched`) | `tick_index_`, `missed_ticks_`, `start_ns_`, `epoch_index_` | absolute deadlines, `reset_epoch`, accounting | the next cycle is near; a lost period is counted once |
| `rt::TickGroup`, cycle | `commands_` (mailbox), `last_cmd_`, `last_cmd_ns_`, `timeout_fired_`, `overwrites_` | `run_cycle`, `apply_command_timeout`, RtHook, group frame | no silent loss; a timeout acts once; an estop goes out; no frame carries what was refused |
| `rt::TickGroup`, external mode | `external_`, `in_step_` | `start_external`, `step` | the cycle runs in the caller's `write`; pauses are granted at once |
| `rt::BusRuntime` (`runtime`, `jr_bus_ops.cpp`) | `mode_`, power of the joints, endpoint tables, `report_`, `interp_*_` | `open`, `configure`, `activate`, `set_enabled`, `fault_reset`, `import_descriptor`, `jog`, `calibrate`, `apply_command`, safety actions, `close` | no power nobody asked for; power is visible; no READY without a table |
| Services (`services`) | `Guard::was_enabled`, selected joints | `enter_window`, `exit_window`, one callback per service | the joints that were not selected come back; no others |
| `JrBusNode` (`jr_bus_node.cpp`, `jr_bus_main.cpp`) | life cycle state, `tg_`, entities and services, `cmd_seq_`, estop latch | lifecycle callbacks, topics, timers, diagnostics, shutdown after `spin()` | transitions undo what they did; services have a bus and a tick thread; the end of the process gives everything back |
| Fault ring (`jr_spsc_ring.hpp`) | two indices, two copies, cells | `push`, `pop` | FIFO, no torn event, drops counted |
| `TripleBuffer`, snapshots | `staging_`, `live_`, `fresh_`, `published_`, a copy per reading thread | `publish`, `read`, `acquire_snapshot` | every reader sees a whole value, and nothing older than what nobody had taken |
| Bus lock (`jr_bus_lock.cpp`), opening and closing of a group's buses | lock file (`flock`), owner file, `held_`, the open HALs | `acquire`, `release`, `open_buses`, `configure_buses`, `close_buses` | one master per bus, also after crashes; the owner file tells the truth; nothing is kept |
| Descriptor cache (`jr_desc_cache.cpp`) and its use in `configure`, `import_descriptor` | the cache file, its temporary file, `desc_json_`, the version last reported | `load`, `save` | no half-written entry is used; a hit is for the device's firmware |
| Parameters and blocking operations (`jr_param.cpp`, `jr_bus_ops.cpp`, services) | RAM and flash of the devices, `report_`, results per item | read, write, save, zero, home, node id, calibrate, reset, fault reset, jog | what is reported is what the device has; OK means all of it; flash only on demand |
| `jr_ros2_control` SystemInterface | `tg_`, tick source, `primed_`, interfaces | ros2_control life cycle, `read`, `write` | no power unless active, whatever failed; `read` reports what was measured |
| Configuration, YAML, bus plan, ABI check, identification, status texts, tools, messages, launch | none that outlives a call | parse, validate, print | (sequential) |

How they interact. The tick thread calls `run_cycle()` of its group, which calls
every `BusRuntime` of it. The node's callbacks run on a four-thread executor in
three callback groups (default: lifecycle; `svc_cbg_`: services; `ros_cbg_`:
topics and timers). They reach the tick thread through the pause flags, the
mailbox `commands_`, the snapshot buffer and the fault ring, and call the
`BusRuntime` directly once a pause window is open. One `TickGroup` may own several
buses; each node serves one of them, so a window of one node touches them all.
The SDK is outside the repository: the models assume of it only what the callers
in `src/` rely on (a call may fail, and may then be half done).

Hard behaviours: the flag protocol under all interleavings; a window opened while
the one before is being left; `pause()` that times out; restarts of the thread;
deadlines across pauses; latest-value commands that replace each other; the last
command applied again in every cycle; timeouts against late answers; partial
failure of calls over several joints or buses; calls that fail after they were carried
out; transitions that run beside services; SIGINT at any moment; crashes between two
file operations. `PROJECT.json` lists them as
hazards, each at its line, with the properties that cover it.

## 2. The modules

### TickPause, ContextOwnership (composed by refinement)

`TickPause` has one variable per atomic flag, one program counter per thread, and
one action per access to a flag that another thread could see. `thread_main()` is
`LoopTest`, `PauseTest`, `CycleDone`, `EnterPauseDone`, `SignalReady`,
`ReleaseTest`, `LeavePauseDone`, and the three stores at its end in the order of
the code (`ClearReady`, `ClearRequest`, `ClearRelease`); `pause()` is `PauseCall`
to `PauseTimeout`, with the check of `pause_ready_` before the two stores;
`resume()` is one store; `stop()` stores twice and joins. A client that timed out
never calls `resume()`, and its request stands, as in the code. Memory order is
not modelled: all flags are accessed with acquire/release or stronger and no
action depends on two of them being read at once.

`ContextOwnership` is the rule in the header of `jr_tick_group.hpp` without flags:
one owner, only the owner is inside, ownership moves while nobody is inside.
`OwnershipSpec` says that `TickPause` implements it, with the owner and the
threads inside computed from the program counters.

`Group` is the callback group of each client. Callbacks of different groups run at once,
and any callback may call `pause()` while the window before is still being left. The
protocol breaks down then (section 4), and heals: `overlapped` is set when a callback
begins while another runs or a window is being left, and reset when a callback begins in a
state of rest (`AtRest`: no callback runs and no flag of a pause is set). What the protocol
promises it promises between the two. `StopReturns` is promised always.

### TickClock

The deadlines of `Sleeper` (`startNs`, `epochIndex`), `tick_index_`,
`missed_ticks_` and the places of `thread_main()` between which time may pass.
Time is an integer clock finer than the period, and may pass at every place. The handshake
is one variable, `window`, which `TickPause` justifies. The SDK and jitter statistics are
left out. The history variables follow the origin of the deadlines: `carried` is the
tick index that a `start()` found when it set the origin without it, `strayed` says that
time was lost outside of pauses since the origin was set, `since` and `base` are the clock and
the count of missed ticks from which the accounting binds again.

### SafeWindow

What a service call leaves behind, over the buses of one group: `mode_` of each,
the powered joints, the buses whose endpoint table belongs to their devices. The
hand-over is one step (`EnterPause`: `enter_pause()` deactivates every bus), and
then one `Serve*` action per kind of request, `Restore` (`exit_window()`) and
`LeavePause` (`leave_pause()`) run in the order of the code. Every call of the SDK may fail
half done: the set it was done to is any subset of what was asked (`Switch`,
`ResetDevices`, `ConfigureBuses`, `ActivateGroup`, `ReactivateAll`), and `DeactivateAll`
may leave joints on, since `BusRuntime::deactivate()` does not look at what the SDK answers.
`powerFailed` are the buses on which a call that switches power failed since one
last took all power away, `loadFailed` those whose last reset, import or `configure()`
did; `before` are the joints of all the group that were on when the window began. Requests that select
joints but change none of this state share one kind (`params`). The polling timer is a
kind of its own (`poll`): it looks at the joints of its own bus and only then opens a
window.

### CommandGate

From the topic callbacks to the frames of a cycle: what `on_cmd_mit()`,
`on_cmd_mode()` and the estop callbacks submit (by the snapshot that their thread
has, which may be one of zeros), the mailbox, the count of overwritten commands,
the mode gate, the interpolation, the safety actions of an RtHook, the group frame
and its conditions, and the command timeout with its four actions. A command is its
number; what a joint is sent is a command or a part of the way between two. One
`Cycle` is one `run_cycle()`, in its order: take, apply, hook, send, then the
timeout, whose effect on the targets comes after the frames. The joint targets of
an RtHook are not in it, as the code drops them (section 4).

### SpscRing, EventLog (composed by refinement)

The ring at the grain of its shared accesses: each side's index, its copy of the
other's, a cell being written or read over several steps. `EventLog` is the FIFO
that drops new events and counts them; `LogSpec` says that the ring implements it.

### BusLock, BusMaster (composed by refinement)

`BusLock` has several processes (driver nodes, the ros2_control component, tools),
each with its own list of buses. A process opens them in the order of its tick
group: per bus `TryLock` or `Refused` (the `flock`), `TruncateOwner` and `WritePid`
(the owner file is opened and written in two system calls), `OpenHal`; then
`ConfigureDone`. Every failure (`ReadOwner` after a refusal, `LockFileFails`,
`OpenHalFails`, `ConfigureFails`) and every `Stop` closes what is open, bus by bus:
`CloseHal`, `RemoveOwner`, `Unlock`. `Crash` may come between any two of these
steps: the kernel frees the locks of the process, the files stay. A lock is named
by the channel (`lock_key()`); `Dir` is the directory a process puts it in.
`BusMaster` is the rule of ADR-9 without files: a bus has at most one
master, who takes it, gives it back, or dies.

### SnapshotExchange, LatestValue (composed by refinement), SystemHardware

`SnapshotExchange` is `publish()` and `read()` of `TripleBuffer` under its spin lock,
one action per access to what two threads share, and `acquire_snapshot()` with the
copy that each thread keeps. A snapshot is a pair of equal halves that are copied one
after the other, so a torn one would show. `LatestValue` is the contract in the
header's comment: put, take by one reader, keep the copy otherwise.

`SystemHardware` EXTENDS `SnapshotExchange` and adds the ros2_control component whose
threads use it: transitions on the lifecycle thread, `read()` and `write()` on the
update thread, and the tick thread if the tick source is the internal one
(`external` is chosen at the start). Every transition may fail at each of its steps, a
pause may time out, and `on_error()` runs as the controller manager runs it. The
pause protocol is one step per call here; `leave_pause()` is two (`LeaveDecide`,
`LeaveAct`), because it reads the modes before it acts on them, and a transition whose
`pause()` finds `pause_ready_` standing may come between. The call that takes power may
leave joints on (`SafeSequence`). `clean` says that the transition that last took the power
of all joints left none on and did not overtake a tick thread about to activate them.

### NodeLifecycle

The driver node: all lifecycle transitions, a service with its window (`SetEnabled` or
one that only looks), the tick thread, the creation and destruction of topics and
services, and `main()` after `spin()`. It stands between `TickPause`, whose flags it
moves call by call, and `SafeWindow`, whose effect on power and mode it has for two
services; `BusLock` has the failures inside `on_configure()`. Transitions, services and the
tick thread overlap freely, every `pause()` may time out and every call of the SDK may fail
or leave joints on. `invited` says that somebody asked for power since a transition last
took it all, or was about to give it back then (`GivesBack`: the service that runs, the
tick thread that has decided); `stuck` that the exit action left a joint powered. A
transition may destroy the services and the group under a service that runs: in the code that is a
use of destroyed objects (`services` 1646-1651), here the service goes on with what is
left, and the end of the process that it may cause is not modelled.

### DescCache

`configure()` and `import_descriptor()` as far as the descriptor goes, with `load()` and
`save()` one file-system call at a time, over several processes that share a cache
name. A file is an inode with two halves, header and payload; the two names
(`path` and its `.tmp`) point to inodes, processes keep handles to them. A descriptor is
the firmware version it describes. Firmware updates, imports, crashes of a process and
losses of power come from the environment. `fclose()` writes the buffer or fails to, which
`save()` does not ask (`CloseTmp`); a loss of power takes the end of any file that has a name,
since nothing is synchronised (`PowerLoss`). `cut` are the inodes that have lost an end in
either way. That a loss of power undoes a rename or a removal is not modelled. The CRC is exact: a payload that is not what the header was made for is
never taken for it.

### BusOps

The operations of `ops` and the service callbacks around them, one step per call of the
SDK: `Serve` (gates, parsing, the window that disables all joints), then `Read`,
`WriteItem`, `SaveJoint`, `EachJoint` (zero, home, node id, calibrate, reset), `ReadFlag`,
`ClearFault` and the steps of `jog()`, each of which may fail, and may have been carried
out when it fails. A device has one endpoint, in RAM and in flash. Power follows what was
asked of it only while cycles run (`PowerStep`), so that answers can come too late. A
CONFIG_SAVE reboots its device, which comes back with what is in its flash (`Reboots`, also in
the branch where nothing was written); a node id that is to persist writes flash too, under
the gate of its service, and so does a zero of a device of the MIT vocabulary
(`MitJoints`). `report` is what `read_back_after_configure()` says, that there is a scale: joint
by joint, possibly not as far as the last, and `calibrate()` ignores how far (`ReadBack`).
`flashSent` are the joints to which a request has sent what makes them write flash. `Return`
is the end of the callback, which forgets its request. `SafeWindow` has what is restored
after an operation.

## 3. Runs

| Run | Instance | What it shows |
| --- | --- | --- |
| `TickPause` | 3 clients in the groups of the code (a service and the poll timer in one, lifecycle in another), timeouts, callbacks at any moment | between meetings: exclusion (`ParkedWhileCalled`), the refinement of `ContextOwnership`, every `pause()` answered, every window ended; always: `stop()` returns |
| `TickClock` | period 2, clock to 11, two starts, time lost anywhere | `NextDeadlineNear`, `MissedFits` whatever pauses there are |
| `SafeWindow` | 2 + 1 joints on 2 buses, one joint not calibrated, every call may fail half done | nothing of the bus is powered uninvited; power shows in the mode and READY means loaded but where a call failed; the others of the bus come back |
| `CommandGate` | 2 joints (one or both in MIT mode), 3 commands, timeout 4, gaps 1 and 4, three timeout actions, hooks that take the torque | overwrites counted exactly, timeout once per silence, refused targets leave no trace, segments end, no slope from before a safety action |
| `SpscRing` | 3 cells, 8 events | FIFO refinement, no torn cell, drops counted, everything delivered |
| `BusLock` | 2 nodes with the same 2 buses in opposite orders, a tool in shared mode on one of them, failures and crashes everywhere | one master per bus and the refinement, true owner files, nothing kept by a process that is down, every start ends |
| `SystemHardware` | 2 threads and the tick thread, 2 joints, 9 snapshots, both tick sources | no torn snapshot, the refinement of `LatestValue`, `read()` is fresh, no power in a component that is not active but what the call that took it left |
| `NodeLifecycle` | 2 joints, failures and timeouts, transitions, windows and the tick thread at once | no power uninvited, services have a bus and a tick thread, a lost group was released, SIGINT ends in release |
| `DescCache` | 2 processes, 2 versions, 2 events (crash, loss of power, update, import), 2 saves, `fclose()` that fails | a hit is for the firmware; a crash leaves the cache whole or none |
| `BusOps` | 2 joints, one of the MIT vocabulary, values 0 and 1, requests of 2 items with values to 2, 2 requests | verified is live, persisted is in flash, OK is whole, a jog ends off, flash on demand |
| `CommandGate_estop`, `SystemHardware_firstRead` | small | the findings of section 4 |

The runs have between some hundred and 3.8 million distinct states (`SystemHardware`;
`DescCache` has 2.3, `BusOps` 1.3 and `NodeLifecycle` 0.4 million, `SafeWindow` 36,000); none
takes more than four minutes with two workers.

Why the bounds are enough. The pause protocol has one tick thread; two clients
show every race between callers and the third keeps one of each kind of caller
alive. A clock of five periods has room for a run, a second start and cycles on either side of
a pause, and for a pause of several periods. Two buses and two joints on one of them tell
"selected", "not selected on this bus" and "on another bus" apart, which is all that
`set_enabled`, `Restore` and `leave_pause` distinguish. Three commands allow an
overwrite before and after the first take, and a segment that is replaced by
another; a gap of 4 jumps over both the timeout and the longest segment. Eight
events go round three cells more than twice and overflow them.
Two processes and two buses are what it takes to wait in a circle and to fail with one
bus open; what holds of a lock file is said of one file and one or two processes.
Nine snapshots are enough for a component to be configured, activated, deactivated and
shut down with a window each time, and to be configured again; a torn or stale copy
needs three. Two events in `DescCache` are an update and the crash or the loss of power
after it, and two saves overlap; a third process would only repeat the part of the second. In `BusOps` two items
may be about one joint or two, with a value that fits and one that does not, and the second
request finds what the first has left in RAM, flash and power. For the safety
properties the bounds are also beside the point: they are proved for all values (section
5). For liveness they are all there is.
`TickClock`, `SystemHardware`, `NodeLifecycle` and `BusOps` end at a bound or with the
process and are checked without deadlock; in all the other modules an operation of the
environment is always possible. `zero_torque` is left out of `OnTimeouts`: in the model it
acts as `hold` does.

Fairness. `TickFairness`: the tick thread is scheduled (SCHED_FIFO) and its
steps are bounded. `PauseFairness`, `CallFairness`: a callback that is inside a
function goes on, and SDK calls have time-outs. `ResumeFairness`: the
destructor of the window's `Guard` calls `resume()` on every path; strong, because
the callback alternates between its calls and the end of the window. `WF(Pop)`: the
timer `tmr_faults_` drains the ring for as long as the node is up. In `BusLock` a
process that is starting or stopping goes on, since no call in it waits for another
process (`LOCK_NB`); nobody has to start, fail or crash. `NodeLifecycle` asks that each
thread goes on with what it has begun: the tick thread (`Tick`), a transition
(`TransitionStep`: its waits have a time limit or are for the tick thread), a service
(`ServiceStep`), and `main()` after `spin()` (`Ending`). No client has to
open a window, to start, to stop, or to push, and nobody has to send SIGINT.

## 4. Where code and documents disagree

Two runs whose property TLC refutes; `PROJECT.json` quotes the documents.

1. `CommandGate_estop`: an estop in the latest-value mailbox is replaced by the
   next command if no cycle comes between (`node` 693).
2. `SystemHardware_firstRead`: `prime_snapshot()` takes the first snapshot on the
   lifecycle thread, and the first `read()` on the update thread finds nothing new and
   reports the zeros of its own copy (`hw` 487), which the comment there says must
   not happen.

Other observations. Each is seen by changing a constant, or by checking a property that
is in the module and in no run, or is plain from the code that was read for the
model.

Pause protocol and clock.
- `ParkedWhileCalled`, `OneCaller`, `PauseGranted` and `WindowsEnd` fail without their
  `~overlapped`. `pause()` answers "already paused" by the flag of a window that is just being
  left (`tick_group` 286), and `ClearRequest` can erase the request of the next caller, who
  waits for its whole timeout: it takes a `pause()` within the few steps of `thread_main()`
  after `resume()`, which returns at once. And `pause()` does not count its callers, while
  services and transitions are in different groups of a four-thread executor.
- A thread that is stopped between `resume()` and its own look at `pause_release_` ends
  with its flags set, and `start()` resets none of them. With `safety.auto_enable` the
  `pause()` that `on_activate()` makes next is answered at once (`ParkedWhileCalled` for
  the lifecycle callbacks alone). When no such race happens, the
  request of the last window still parks the new thread (`PowerTakenForCallers` of
  `NodeLifecycle` fails).
- A request whose `pause()` timed out parks the thread later, for nobody, until
  someone calls `resume()` or `stop()`.
- `NextDeadlineNear` fails without `carried`: `start()` after `stop()` makes a new epoch
  and keeps `tick_index_`, so the next deadline is as far away as the group ran before, until
  the first pause.
- `MissedFits` fails without `~strayed`: time lost in a cycle, or by `leave_pause()` after
  `reset_epoch()`, is counted again by every late cycle that follows it.
- A parked tick thread does not sleep, so it spins at real-time priority for the length
  of the window (`tick_group` 451); the spin lock of `TripleBuffer` yields, which under
  SCHED_FIFO gives way to nobody of lower priority.

Windows.
- `NoUninvitedPower` fails: leaving a window activates all buses of the group as soon as
  one is active (`tick_group` 656); `PollTakesNoPower` fails: the polling timer spares the
  joints of its own bus and takes the power of those of the others (`services` 570).
- `AllRestored` fails: `pause()` disables the joints of all buses of the group, and
  `exit_window()` restores those of its own bus only (`services` 354). The joints of the other
  buses stay off, after a call of a service and after each poll of an idle bus, unless a joint
  of the own bus comes back and `leave_pause()` activates all the buses with it.
- `OthersRestored` excepts enable requests: the bus is ACTIVE then, and the
  enabling of the others in `exit_window()` is refused.
- `PoweredIsVisible` and `ReadyIsLoaded` fail on a bus of `powerFailed` or `loadFailed`:
  `leave_pause()` sets READY after a failed `set_enabled()` or `configure()` too.
- `BusRuntime::deactivate()` ignores what the SDK answers and returns OK whatever happened
  (`runtime` 987-999), and so does `close()` (1450). A joint that stays on is on a bus that says
  PAUSED, then READY, and the branch of `on_deactivate()` that would report it ("safe
  disable reported a problem", `node` 293) is reached only if the group refuses the call.

Commands.
- `NotInForceAfterTimeout` fails (one mode, `Hooks = {"none"}`): the hold of a timeout is
  undone by the old command in the next cycle, before any frame carried it.
- `ZeroTorqueIsSent` fails: a hook that takes the torque from all joints is overruled by a
  group frame, which carries the last targets.
- Joint targets of an RtHook are never applied: `run_cycle()` looks at `mask`
  (`tick_group` 554), but `set_mask()` writes `block[]` only, of which `mask` is said to be
  an alias (`include/jr_ros2/jr_command.hpp` 61-76). Nothing reads `release_all`.
- A topic callback on a thread whose snapshot copy is all zeros takes every joint for
  MIT: correct commands of other modes are refused there, wrong MIT ones pass and are
  refused by the mode gate of the cycle.
- `cmd_rejected` counts one refused command in every cycle, as the last command is
  applied again (`runtime` 1592); MIT targets are sent as they came, while
  `applied_target()` reports the interpolated value.

The node.
- `TransitionsAreAlone` fails: services run in a callback group of their own, so that a
  deactivation can fall into the window of a service, which then enables its joints
  again, and `pause()` answers it while the tick thread is about to activate the bus. A
  node can so be INACTIVE with powered joints (`invited` keeps track of it). A service callback
  that is still running uses `tg_` and `services_` while `on_cleanup()` resets them.
- An `on_deactivate()` whose pause times out leaves the node ACTIVE, with power and
  without the topics and services that it destroyed first, the estop among them
  (`node` 275). A failed `on_activate()` leaves the services of an INACTIVE node up, and an
  activation that failed half-way may leave a powered joint on a bus that says READY.

The ros2_control component.
- It opens its buses with default lock options (`hw` 430). Where `lock_dir` is configured it
  locks another file than the driver node does, and both are master of the bus: `OneMaster`
  fails with `OtherDirs` of `MCBusLock`. `enabled` and `allow_shared` are ignored likewise.
- `TransitionsWaitForTick` fails: `leave_pause()` decides by the mode and acts later, and a
  window that opens in between finds `pause_ready_` set. `OffWhenNotActive` without `clean` fails
  for this reason, and because the result of the call that takes the power is ignored.
- It has no `on_cleanup()`: an unconfigured component has its group still, which ticks.
  `write()` sends the commands that the interfaces were initialised with, zeros, before any
  controller has written; values survive a deactivation. `stop()` in external mode does not
  wait for a `step()` in progress.
- The debug assertions of `TripleBuffer` (one writer thread, one reader thread) contradict
  the external mode, where two threads run cycles, and restarted tick threads.

Descriptor cache.
- `ImportDescriptor` configures the buses again, and `configure()` then takes the cached
  descriptor: the one just imported is replaced although success was reported
  (`services` 1553). `RestoredIsPrevious` fails: after a rejected import it is
  `desc_json_` that is put back, which a cache hit never sets.
- QUERY_DEVICE_INFO is not retried, and a version of 0 skips the check of the version;
  only the first joint's version counts (`runtime` 601).
- Two processes write to the same temporary file, and a torn cache can result, which its
  CRC makes a miss; hence the exception in `CacheIsWhole`.
- `WholeThroughLosses` fails with one process: the result of `fclose()` is ignored (`desc` 240)
  and nothing is synchronised before the rename, so that a short file takes the place of a
  good one. The comment there (218) says that writing to a temporary file avoids this, and
  that the CRC would otherwise make it a miss at the next start; only the second is so.
- The key is the bus name, not the
  serial number of ADR-10. The default cache directory is never created.

Blocking operations.
- `AbortedIsOff` fails: a jog that gives up after 300 ms does not withdraw its request to
  enable (`ops` 971), and the joint may be powered after "aborted before any motion".
- `VerifiedIsGiven` fails: a typed value is narrowed to the type the client names before it is
  looked at (`services` 1224), so that 256 is written, and verified, as 0.
- `OkIsReported` and `CalibratedNow` fail: the report per joint that Calibrate answers with
  (`services` 752) is that of `read_back_after_configure()`, which sets it from the SDK's scale
  (`runtime` 830) and may return at a limit violation (835-851) with the later joints as they
  were. `calibrate()` ignores its result (`ops` 690), and when `calibrate()` failed before, the
  report is the one of the last `configure()`.
- `ZeroSparesFlash` fails with a device of the MIT vocabulary: `SetZero.srv` says that nothing
  goes to flash and that `persisted` is always false, `runtime` 1292-1296 and
  `JointFeedback.msg` 40 that such a device stores its zero in flash. Which is so is up to the
  device, so this is an observation and not a finding; `FlashOnDemand` names the exception.
- `VerifiedSurvivesSave` fails: a device whose CONFIG_SAVE was not acknowledged may have
  rebooted without saving, and items answered as verified are not in its RAM any more.
- `LostIsNotInFlash` fails: values that "will be lost on power cycle" (`ops` 505) are in flash
  if it was only the verification of CONFIG_SAVE that timed out. A CONFIG_SAVE saves the RAM
  of all joints, unverified items included, and "consumed" items count as persisted.

Bus lock.
- A process with `allow_shared` takes no `flock`, but it truncates, writes and at last
  removes the owner file all the same: who is refused by the exclusive holder may be
  told the pid of the shared one, or of nobody. `OwnerFileTrue` leaves such files out.
  An exclusive process can also start beside a shared one that is up.
- After a crash the owner file names a dead pid until the next holder has written
  it; a process that is refused in between is told that pid.

## 5. Proofs

All theorems are for arbitrary constants under the named assumptions of the
modules (`ClientsAssumption`, `WindowAssumption`, `ClockAssumption`, `RingAssumption`,
`GateAssumption`, `LockAssumption`, `ReadersAssumption`, `ThreadsAssumption`,
`CacheAssumption`, `OpsAssumption`), which say what kind of value a
constant is. Only `OneMasterPerBus` and `ImplementsBusMaster` have a hypothesis besides, one
lock directory. What schedules and failures do to a property is said in the property, by
a history variable, and holds of every behaviour.

`PauseWindowProofs` on `TickPause`, for any set of clients and any callback groups.
`ProtocolInv` is inductive: `Protocol` holds unless callbacks have met, and a state of rest
(`AtRest`) has it again. `ParkedWhileCalled` alone is not, as it says nothing
of the flags: the invariant adds that one client is busy at a time (`OneBusy`), where
the tick thread can be for given flags (`TickPlaces`), that a standing `ready`
without `release` means parked (`ReadyMeansParked`), that a stopped group keeps no
request that nobody releases (`NoRequestKept`: `start()` resets no flag, but a thread that finds
an old request also finds its release), and what each place in `pause()` knows
(`ClientPlaces`). `WindowsAreExclusive` and `ImplementsOwnership` follow from it.

`PauseWindowProofs` on `SafeWindow`, for any buses, joints and calibrated joints, in any
order of requests. None of the properties is inductive: they speak of the end of a
window and rest on what it did on the way. `WindowInv` follows it: the joints that
were enabled are of the bus of the request (`Remembered`), every bus is paused when a request
is served, and powered only where taking the power away failed (`MadeSafe`), what a request
may leave in power and mode (`ServedInv`: it makes no bus but its own active, which is why
`leave_pause()` can tell by one mode), and what the restored window looks like before it is
left (`LeavingInv`). `PoweredIsVisible` also needs that power and mode agree inside a window
(`PoweredIsActive`); `OthersRestored` that what was powered may be powered again
(`CalibratedOnly`, else `exit_window()` would be refused) and that `leave_pause()` takes no
power away. `ReadyIsLoaded` follows from `AllLoaded`: a table is lost to a failing call only.
`UpTo` and the activation of the buses in their order have lemmas of their own. All of them
hold with calls that fail anywhere, the one that takes the power away included, and say of
which bus they are silent then: `PowerShows` and `OthersComeBack` of one on which a call
that switches power failed, `ReadyHasEndpoints` of one whose `configure()` did;
`OwnPowerIsInvited` allows such a bus the joints that were powered before.

`TickClockProofs`, for any period, pauses, starts and places where time is lost. The
invariants bind the origin to the index (`DeadlineInv`) and, while no time was lost outside
of pauses, the missed periods to the time before the current deadline (`MissedInv`,
`OnTime`), both from the moment on when the origin was last set; the arithmetic of `%` and
`\div` is in lemmas of its own.

`TickDataProofs` on `SpscRing`, for any capacity above one. `RingInv` says that the copies are
old on the safe side and that the cells between the indices hold the accepted
events in order; that a cell is only reused when it is free rests on `CellsDiffer`
(indices less than `N` apart fall on different cells). `NoTornEvent`,
`NoSilentLoss` and `ImplementsEventLog` follow.

`TickDataProofs` on `CommandGate`, for any joints, modes, gaps, limits, hooks and number of
commands. `GateInv` has one part for each of the things a cycle carries over.
`Counting` says that the last command taken is the latest known to a cycle and that the
counter is the number of commands between the first taken and the last that were not;
`MissedFacts` is the step of that count, a union of two disjoint finite sets. `Timing`
ties `timeout_fired_` to the length of the silence, without which a second action could not
be excluded. `RefusedLeavesNoTrace` follows from `Traceless`: a joint is moved only by
numbers that are not later than the last command and were not refused for it, which
also needs to know that a command in the mailbox is refused for no other joints than its
own says (`RefusedKnown`), and that the interpolation has seen nothing later.
`ReachedInTime` needs `OnTheWay`: the segment of a joint was begun by the last
command and is as old as the silence, or ended. `FirstAfterSafetyIsWhole` is an action property and
needs `Forgotten`: after a safety action the interpolation does not know where it was,
so that the next command cannot begin a segment. The cycle is proved in the parts of the code: the
operators on one segment (`AgedFacts`, `TakenUpFacts`, `EndedFacts`, `ClearedFacts`,
`BetweenFacts`), then what a joint is given, the hook, the group frame, the timeout.

`BusLockProofs`, for any processes, buses, groups, lock modes. `OneMaster` is
about open HALs, not about locks, so `LockInv` adds, per process: what an exclusive
process believes it has locked is locked by it (`HeldIsLocked`), every lock in its name is one it
knows of and will give back (`LockIsHeld`), a HAL is open only under the lock and not
while its bus is being opened or unlocked (`HalIsHeld`), and a process that is down has
nothing (`DownIsClosed`). A step of a process keeps its own part (`StepKeepsInv`) and,
since nobody frees or takes a lock in another's name, the parts of the others
(`OthersInvKept`). `NothingIsKept` follows at once; `OneMasterPerBus` and
`ImplementsBusMaster` need `OneDirectory` too, which section 4 shows is no formality.
`OwnerIsTold` needs no such thing, as it is about files and not buses. It rests on `OwnerInv`: an owner
file names its process from the writing of the pid until it is removed (`OwnerNamed`), is gone when
the lock is given up (`OwnerGone`), and names nobody alive but the holder (`OwnerIsHolder`). That a
process touches no file but those of its group, and acquires what it does not hold and
gives up what it does (`Orderly`), is what keeps the steps of others out of it; the steps of
one process that write an owner file are made under its lock.

`SystemHardwareProofs` on `SnapshotExchange`, for any readers and any number of snapshots. `ExchangeInv` says who
holds the spin lock by where the threads are (`LockHeld`), and how much of the
staged snapshot has reached the shared one (`LiveInv`) and how much of that a reader's copy
(`CopyInv`). `SnapshotsAreWhole` is a part of it; `ImplementsLatestValue` maps a put to the
step that sets `fresh_` and a take to the step that finds it set, under the lock.

`SystemHardwareProofs` on `SystemHardware`, for any joints, readers and either tick source.
`HardwareExchanges` says that the component is one more user of the exchange: every step is one of the
exchange or leaves it alone, so that `HardwareSnapshotsAreWhole` and `HardwareImplementsLatestValue`
need no proof of their own. For `InactiveIsUnpowered`, `PowerInv` says that a thread about to
activate the buses found them active and they still are, or a transition has overtaken it
(`StillActive`), and that nothing is powered while the component is being configured or,
unconfigured, without a group (`PrimedUnpowered`, `GroupHeld`). No schedule is excluded.
`ReadsAreNotLate` assumes nothing: `ReadInv` adds to `ExchangeInv` that what a `read()` has to report is,
at each of its steps, still in the shared snapshot and fresh, or already copied (`DueKept`), and
that the two reading threads take turns (`CallsApart`), as the controller manager has them do.

`DescCacheProofs`, for any processes, versions and numbers of crashes, updates, imports and
saves. `HitsAreForFirmware` holds with concurrent saves too: `HitInv` ties the header that was
accepted to the version that was reported until the payload is matched against it. `FileIsWhole`
needs to know where a single saver is in its file (`SaveInv`), that no two names share an inode,
and that `tmp` is complete before it is renamed, unless it has lost its end (`cut`).

`NodeLifecycleProofs`, for any joints. `GroupInv` (a thread only in a running group, a lost group
has lost everything, services on a running group) gives `GroupIsReleased` and `ServicesHaveTick`
without conditions on who runs beside whom, with timeouts and failures.
`PowerOnInvitation` has none either: `PowerInv` says that whoever is about to give power back, a
service that will restore or a tick thread that has decided to activate, was invited or was
passed over by the transition that took the power, or finds the bus active already.

`BusOpsProofs`, for any number of joints, values, items and requests. `WhereInv` says what a request may
be at each step, `ProgressInv` that what was passed has been done, `VerifyInv` that the last verified
item of a joint is what its RAM holds, although the joints saved before have rebooted, and that
what was saved is what is in RAM.
`OkMeansWhole`, `JogEndsOff`, `ReportsAreTrue` (what is called verified is live),
`PersistedReportsAreTrue` (what is called persisted is in flash) and `FlashNotByAccident` follow.

Only model-checked. The six liveness properties, since liveness under fairness is out of the prover's
reach: `PauseGranted`, `WindowsEnd` and `StopReturns` of `TickPause`, `AllDelivered` of
`SpscRing`, `StartEnds` of `BusLock`, `InterruptReleases` of `NodeLifecycle`. The two runs of section 4 that
end in a violation, and the properties named there that are in no run. No recursion over
data is proved and no model uses recursive operators.

## 6. Not modelled

The SDK and the wire; wording, messages, statistics and the contents of diagnostics; parsing of
configuration and descriptors, and the listing of endpoints (sequential, without state);
the Windows branch of the bus lock, and owner files
that cannot be written (a lock is then held without a name); limits of targets, which the SDK
clamps; names of interfaces and mode switches of the ros2_control component; the command-line
tools, which are clients of the services and of `BusRuntime`; memory
orders weaker than acquire/release. The components with status `not_modelled` in
`PROJECT.json` say why.

## 7. What is left

The modules keep to a dozen runs and forty properties, all of them used; a new question
takes the place of a weaker one. In order of importance:

1. `validate()` of the configuration and the bandwidth plan as pure functions over small inputs.
2. The drain of the fault rings of a group into the nodes of its buses, and the diagnostics
   that are computed from counters of several threads.
3. The four-thread executor itself: with which queues and periods callbacks meet, and so how
   often the promises of the pause protocol are void (`overlapped`).
