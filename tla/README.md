# PMU-30: models and proofs

TLA+ models of the PMU-30, an automotive power management unit: STM32 firmware
that switches 30 high-side outputs, protects them and the battery and runs a
downloaded configuration of virtual channels, and a desktop configurator in
Python that edits such configurations and exchanges them with the unit. The
models are written from the sources at this commit; `PROJECT.json` names the
lines each definition stands for.

Contents: [inventory](#inventory) · [modules](#modules) ·
[the models in detail](#the-models-in-detail) · [runs](#runs) · [bounds](#bounds) ·
[fairness](#fairness) · [proofs](#proofs) · [disagreements](#disagreements) ·
[seen while modelling](#seen-while-modelling) · [not modelled](#not-modelled)

## Inventory

The firmware has several builds (`firmware/platformio.ini`). `pmu30_debug` and
`pmu30_release` are the product: FreeRTOS tasks on an STM32H7 (`main.c`).
`nucleo_f446re` is a bare-metal loop (`main_nucleo_f446.c`) with the channel
executor and stubbed outputs. The configurator is a Qt application.

| Component | State it keeps | Operations | Works with | Hard behaviour |
|---|---|---|---|---|
| PROFET output driver, `pmu_profet.c` | `channels[]` (state, duty, fault flags and count, filtered current, on-time), `manual_override[]`, the GPIO pins | SetState, SetStateManual, SetPWM, ClearFaults, InjectFault, the 1 kHz Update with a diagnosis every tenth call | called from the control task (logic, channels, Lua, handlers) and, when shedding, from the protection task; pushes events | two tasks write the same record with no lock; a lockout reached through any mix of faults and commands |
| System protection, `pmu_protection.c` | voltage, temperature and power monitors, fault flags, status, recovery timer, shed list | Update every millisecond, ClearFaults, SetLoadShedding, Activate/DeactivateLoadShedding | reads the driver's currents, calls SetState, pushes system events | a shedding pass may be preempted anywhere; priorities over several passes; the way back to OK |
| Tasks, `main.c` | task handles | vControlTask and vProtectionTask, both 1 ms; CAN, logging, LED | call the above | priorities: control preempts protection and never the other way round |
| Event queue and handlers, `pmu_handler.c` | ring of 16 events, handlers, thresholds | PushEvent, Update | pushed by driver and protection; Update has no caller | pushes of two tasks, overflow |
| Channel executor, `pmu_channel_exec.c` | channel and link tables, bump-allocated `config_storage` | LoadConfig, Add/RemoveChannel, AddOutputLink, Clear, SetEnabled, ResetChannel, Update | loaded by protocol handlers and boot; drives outputs | storage is never given back; timers against a wrapping clock; evaluation order |
| Node configuration, `pmu_serial_transfer_port.c`, `main_nucleo_f446.c` | RAM buffer, flash sector, stream state | LOAD_BINARY, SAVE, CLEAR, SET_OUTPUT, GET, streaming, RESET, boot | executor, outputs, flash | power failure between two flash steps; buffer, tables, pins and flash disagreeing |
| H7 protocol, `pmu_protocol.c` | chunk buffer and counters, stream state | chunked upload, single-channel update, save and clear | executor, storage | repeated and missing chunks; one half of an update failing |
| Serial link, `pmu_serial_transfer.c`, `shared/python/serial_transfer_protocol.py` | parser state, ring buffer, pending packet | ProcessByte, send, receive, transact | between configurator and node | lost bytes, stale packets, a payload over the packet's limit |
| T-MIN, `pmu_min_port.c` with `min.c`, `shared/python/min_protocol.py`, `transport.py` | per end: FIFO, send window, expected number; on the host a stash and an outstanding NACK | queue frame, poll, connect, disconnect | alternative link | loss, retransmission, reset and reconnection, silence |
| Connection recovery, `connection_recovery.py` | state, counters, two threads, stop events | connect, disconnect, connection lost, health check | device controller callbacks | threads joined under the lock they need, results that arrive after a disconnect |
| Device controller, `device_controller.py` | `_transport`, `_is_connected` | connect, disconnect, upload, read, save | transports, codec, user interface | operations of several threads borrow the port with no lock |
| Configurator session, `ui/mixins/*`, `main_window_professional.py` | the document, the progress dialog, queued signals | edit, auto-sync after connecting, write, read, compare, save | controller, undo manager, dialogs | results handled late, two reads at once, power cycles |
| Binary codec, `binary_config.py`, `channel_config.py` | none | serialize a document, parse a configuration, build the document again | dialogs, controller, node | writer, structures and reader disagreeing on a field |
| Undo manager, `undo_manager.py` | undo and redo stack | execute, undo, redo, group, clear | ConfigManager | failing and merged commands, groups, the limit |
| Function blocks and executor, `shared/python/engine/*`, `channel_executor.py` | small state per block, values of channels | one update per block, a cycle, a reset | previewed in the configurator, twins of `shared/engine/*.c` | edges, limits, rounding, irregular cycles |
| Channel registry and logic, `pmu_channel.c`, `pmu_logic.c` | registry of values, function blocks | get/set, update, apply outputs | driver, CAN, ADC | order of evaluation |
| H-bridge, `pmu_hbridge.c` | mode, state, position, faults | SetMode, SetPosition, Update | control task | parking timeout, stall against fault lockout |
| CAN, LIN | message tables, timeouts, schedules | receive handlers, timeouts, outputs | registry | a late frame against a timeout, compound frames |
| Bootloader, `pmu_bootloader.c` | backup SRAM record, two images | apply update, backup, rollback | flash | power failure between backup, erasure and copy |
| H7 storage, `pmu_config_storage.c` | two JSON slots with headers, system record | save, load, select slot | flash, protocol | which slot is active after a failure |
| Logging, Lua, ADC/SPI, LED/UI, wireless and the ESP32 bridge; Qt widgets | buffers, registers, layout | | | mostly I/O |

What would make each of the modelled components correct: a load is fed only
while the driver watches it, and a tripped output stays tripped until reset
(driver); load is shed in the configured order, as far as needed, and the system
returns to normal when the cause is gone (protection); channels never share
storage, an update touches one channel, timers end in time (executor); what is
loaded runs, what is saved comes back whole or not at all, and no output
survives the configuration it belongs to (node); only the user's own calls bring
a closed connection back, and they return (recovery); a frame is taken once,
in order, handed on once, and acknowledged only when taken (T-MIN); each operation gives the port back
and what was uploaded is what the document says (session, codec); undo and redo
walk along one line of documents (undo); each block keeps what it promises over
its history (blocks). The full list of what is hard to test, with the line where
it bites and the property that covers it, is `hazards` in `PROJECT.json`.

## Modules

```
 SmartFuse (abstract)                         SavedConfig (abstract)
     ^ refines                                     ^ refines
 Profet --EXTENDS--> Events             NodeConfig --EXTENDS--> ChannelExec
     ^                                        ^                       ^
     |                                  MCNodeConfig            MCChannelExec
 LoadShedding --EXTENDS--> Protection
     ^                                  EditHistory (abstract)
 MCLoadShedding   MCProfet                    ^ refines
                                        UndoManager <-- MCUndoManager
 ProfetSense <-- MCProfetSense
                                        ChannelCodec
 TMin <-- MCTMin                              ^
                                        SampleDocuments <-- Session <-- MCSession
 ConnectionRecovery <-- MCConnectionRecovery
                                        LogicEngine <-- LogicExecutor <-- MCLogicExecutor

 ProfetProofs (Profet, ProfetSense, LoadShedding), NodeProofs (ChannelExec, NodeConfig),
 RecoveryProofs, TMinProofs, UndoProofs, SessionProofs, LogicProofs (LogicEngine,
 LogicExecutor): each EXTENDS the modules it is about and TLAPS; Inductions holds
 lemmas several of them use
```

| Module | Models |
|---|---|
| `Events` | the bounded event queue of `pmu_handler.c` |
| `Profet` | the output driver, its commands and the 1 kHz refresh |
| `SmartFuse` | what an output promises: off, on, tripped |
| `ProfetSense` | fixed-point current conversion and filter |
| `Protection` | monitors, fault flags and status as operators on one record |
| `LoadShedding` | control and protection task over the same outputs, write by write |
| `ChannelExec` | the executor of virtual channels in the firmware |
| `NodeConfig` | load, save, clear and boot of the Nucleo node, with the executor |
| `SavedConfig` | what saving promises across power failures |
| `ConnectionRecovery` | the configurator's connection: user, receive and reconnect threads around one lock |
| `TMin` | both ends of the sliding-window transport and the line between them |
| `LogicEngine` | the function blocks of `shared/python/engine` as operators on their state |
| `LogicExecutor` | the cycle of `channel_executor.py` over a configuration of blocks |
| `UndoManager` | undo and redo stacks, commands and the channel list |
| `EditHistory` | what undo and redo promise: a line of documents |
| `ChannelCodec` | a document's way into binary form and back, as a trace of fields |
| `SampleDocuments` | the documents the session is run on, and all that round trips make of them |
| `Session` | user interface, worker threads, controller, port and node |
| `...Proofs` | theorems about the module of that name (`ProfetProofs` also about `ProfetSense` and `LoadShedding`, `NodeProofs` about `ChannelExec` and `NodeConfig`, `SessionProofs` about `ChannelCodec`, `LogicProofs` about `LogicExecutor`) |
| `Inductions` | lemmas: induction over numbers, the steps of a fold over a sequence, the existence of a recursive function, sums over sets, sorted sequences, ends of sets of numbers |
| `MC...` | constants of the small instances |

Definitions whose comment begins with `Mutant:` are wrong on purpose: put in the
place of the definition they resemble, they must make a property fail. No
specification uses them.

## The models in detail

**Profet.** `chan[c]` is one record with `channels[c]`, `manual_override[c]` and
the level of the GPIO pin. `queue` is the event queue, `tick` the diagnosis
divider `tick_1khz`, `pos` the output that the loop of `PMU_PROFET_Update`
refreshes next. Operations are operators on a driver value `[chan, queue]`
(`DoSetState`, `DoSetPWM`, `HandleFault`, ...), because callers make several
calls in one handler: `DoWriteOutput` is `Channel_WritePhysicalOutput`, SetState
followed by SetPWM, and `DoLogicOutput` is the switch in
`PMU_Logic_ApplyOutputs`. A command runs between two refreshes because it shares
the control task with them. `Faults` has every flag of the header; `InjectFault` takes
any set of them, none included, and `FaultToState` sends a set without a state of its
own (undervoltage alone, or nothing) to the overcurrent state, as the code does, so that
an output can be in that state with no overcurrent flag (`FaultRecorded` says what
remains true). `Counted` is the `uint8_t` count. `UpdateChannel` takes any sense reading and any
temperature of the constants, which is how the load, the wiring and the
converters enter. Two branches of the code are left out because no run of the
program reaches them: the limits of `channel_configs[]`, which is never filled
(`pmu_profet.c:310-327`), and the readings of the SPI diagnosis path.

**LoadShedding.** The control task has the higher priority, so it may run between
any two accesses of the protection task, and does so in one piece. The
protection task is therefore `sample`, `check`, then per output `pick` (the
lockout test of SetState), `pin`, `state`, `finish`, and `recover`. The write of
`state` is the stale one: what the control task has diagnosed since `pick` is
overwritten. Both runs of the module have this preemption. The monitors are
one record `mon`. `fault_flags` are recomputed at each check as in
`Protection_CheckFaults`, including the order of the pushed system events.
`PartialCurrent` keeps the early exit of the sum in `Protection_UpdatePower`.

**ChannelExec.** `exec` has the two tables and the fill level of
`config_storage`; a channel keeps the address of its configuration, so that
overlaps can be seen. `outputs.reported` is what `PMU_PROFET_GetState` answers in
the Nucleo build (`stub_channels`), `outputs.pins` what is driven. Evaluation
runs in table order and a channel sees the values of this tick for its
predecessors and of the last tick for its successors. A configuration is the
count in its header with the entries it really holds, so truncated blobs are
among the inputs.

**NodeConfig.** `buffer` is `config_buffer` with its length, `flash` the sector:
the magic word, the header word (size and CRC, which stand for the configuration
they were computed from) and the data words. A flash operation is a sequence of
steps during which the loop does nothing else, but power may fail (`Boot`)
between any two of them and inside an erasure; a single word may silently fail
to be programmed. A RESET command and a watchdog reset are `Boot` as well. The
payload of LOAD_BINARY may be too short to be a configuration (`Stubs`,
`LoadNoData`): the buffer then changes and the tables do not. `commanded` is a
history variable for the properties.

**ConnectionRecovery.** Each thread has a program counter: `user` for the thread
of the user interface, `pc[l]` for a thread of the reconnect loop; receive threads
are interchangeable and therefore counted, `readers` while they poll and
`reporting` on the way into `handle_connection_lost`. A step is what runs between
two places where a thread can be stopped: acquiring the lock, a join, the
connection attempt, the wait between attempts. The lock is taken and released
within one step except by the joins of connect and disconnect (`LockHeld`). A join
ends with the thread or, after its two seconds, without it; the second only if
the thread may really need that long, because it is inside an attempt (a socket
may take five seconds, `transport.py:403`), joins another thread itself, or waits
for the lock the joining call holds (`Slow`). A thread given up by a join stays
in `pc` and goes on. `StopItself` is `_stop_reconnection` as the loop runs it on
itself: `Thread.join` raises on the own thread, and the thread is gone. `link`
says that the controller has an open transport; an attempt replaces it when it
begins and again when it ends. `device_controller.py:159` wires the machine to the
controller and switches the health checks off.

**TMin.** `ep[e]` is the transport state of an end, `wire[e]` what it has sent and
its peer has not read. The two ends run different code and are different here:
the host (`min_protocol.py`) keeps frames that arrive early in `stash` and asks
for the missing ones with a NACK; the device (`min.c`) drops them, and resends
what a NACK names out of its FIFO slots. A poll is one action, as the handlers
have it: everything read is handled, then at most one frame is sent (a new one if
the window has room, else the one sent least recently, if it is due) and an
acknowledgement if it is due. Whether a time is due is left open; the idle times
are flags (`heard`, `active`) that `IdleTimeout` clears, and only when the peer
can really have been silent for that long. Faults are frames lost on the line, a
cable that is pulled and a host that crashes; a damaged frame fails its CRC and is a
lost one. The host disconnects, sending RESET, and connects again. The RESET is sent
once and never acknowledged (`min_protocol.py:209`), and may be lost like any frame.
After a crash or a lost RESET the ends are out of step (`~InStep`) until the device
reads a later one.

The device does not handle a frame in one piece. `min.c:409` advances its number and
sends the ACK, and only then calls the application; sending ends in `min_tx_finished`
(`pmu_min_port.c:125`), which polls again for the bytes that came in meanwhile. A
frame taken in that nested poll is acknowledged, and its ACK polls no further
(`min_rx_processing`), so it is handed on at once: before the frame that waits, from
the one payload buffer of the context. `accepted` is therefore the order in which
frames are taken and `handed` the order in which the application is called, which
`Handings` leaves open as far as one level of nesting can change it. `handed` says for
which frames the calls are; what they find in the buffer is under "Seen while
modelling".

**LogicEngine, LogicExecutor.** Each block is an operator on the record of its
state that gives the new state and the value: filters, timer, counter,
comparators, flip-flops, tables, logic, arithmetic and PID, with the integer
division and the clamping of the source. `Cycle` is `update_time` followed by the
channels in table order. `Accepted` and `ConfigsAssumption` are the configurations
the validator of channels lets through: each block's settings are numbers in order,
and each channel reads as many sources as its block looks at; a mathematical channel
may read fewer, and the missing ones read 0 (`Operand`); the step of a counter is any
number but 0, as `channel_validation.py:639` has it. `log` is a history of what each block read and gave
since its state was fresh; the properties state the promise of a block over
that history, independently of how the block computes it. `Exec` has the branches of
the executor that work. `Library` has the blocks no channel of the executor reaches:
flip-flops, windows, levels and 3D tables, for which it has no branch, and the filters,
whose branch raises (`FilterType`, `channel_executor.py:326`, is defined nowhere). They
are public functions of the library, and the model calls them as a program of its own
would, once in a cycle with the executor's times. No configuration of the model has a
channel of the executor's FILTER type.

**UndoManager.** A command is a record of its kind, the channel before and after
and whether it counts as executed; a group has its parts and how many ran. The
callbacks of the commands are taken to be the add, update and remove of the
ConfigManager and may fail (a name taken or not found). This wiring is an assumption:
the window imports the command classes and makes none, so nothing in the repository
calls `execute`, and `ConfigManager.add_channel` (`config_manager.py:375`) takes one
argument where `AddChannelCommand` passes two (`undo_manager.py:54`). What is checked is
the manager with callbacks of that behaviour; `Refused` is a command that fails, which
leaves no entry in the stacks. `Joins` merges an update into the one before it if
it comes within the merge window. `past` and `future` are history variables:
`EditHistory` is stated over them and over the channels, and `HistoryIsLinear`
is the refinement. Groups contain no renames and no property changes, and the
guard against re-entrant calls is left out: the commands never call the manager.

**ChannelCodec, SampleDocuments.** A document is a set of channels, each with the
settings of its dialog whose keys the serializer looks for; all others are one setting,
`unsent`. Values are not computed but traced. A value is the setting it was given to,
the factor it has been scaled by, and its form: `exact` if its field holds it as it is,
`rough` if the field holds a part (a fraction of the unit, points behind the
sixteenth), `outside` if the field cannot hold it, `word` if a number is wanted. The
codec is the tables of which keys the serializer reads, in which order it packs them,
as which fields the structures read those bytes, and under which keys the reader
returns them; `Encoded` multiplies by the scale and cuts, `Decoded` divides by the
scale of the key it *returns*, which is not always the key that was packed (`KeyFor`:
a logic channel's `constant` goes out times 100 and comes back as `compare_value`,
100 times the constant). `Raises` is the channel that goes out without its
configuration because packing it raised. `Kept` names, for the six kinds of which
something returns, the keys that do, `Exact` the values. `Image` is the upload: the
channels that can be sent, in the order of the tree, cut at the packet's limit;
`Loaded` is the document read back.

**Session.** The user interface thread edits, uploads, compares; worker threads
read. Every operation goes through the program counter `ops[t]`: `release` (close
the transport), `open` (the port for itself), `clear`/`load` or `get`, `close`,
`reach` (look the transport up again), `reopen`. The controller has no lock, so
each is a step of its own that any other thread's step may precede; the port is
exclusive, as COM ports are on Windows (the configurator runs on other platforms
too, where a second open may succeed; that is not modelled). Requests and answers may be lost. The user interface handles events where
the code does: when idle, inside `processEvents` (`pump`) and while a dialog is
open. A write takes its document and then handles events once more before it uploads
(`Capture`, `shown`); a sync takes it after all events. A worker's result is a queued
signal. `raced` is a ghost that records that
two operations, or an operation and the connection, overlapped: what the code
promises without overlaps is stated with it, what it keeps in spite of them
(`LinkedIsOpen`) without.

## Runs

| Run | Question | Result |
|---|---|---|
| `profet` | Do pin, state, duty, flags and count of an output agree after any mix of commands, readings, diagnoses, clears and injected faults (`OutputAgrees`, `FaultsExplained`, `LockoutHolds`)? Does the driver implement `SmartFuse`? Does a lasting overcurrent end in the lockout? | holds, 647 000 states |
| `sense` | Does the conversion fit 16 bits, and does the filter settle? | holds, 62 000 |
| `shedding` | Is the shed list sound and in order of priority, does a pass reach its goal or shed everything, does shedding hold until the all-clear, with preemption anywhere? | holds, 420 000 |
| `tasks` | With the preemption `main.c` gives: is the stale write of the protection task the only way to lose a lockout (`LockoutLostToStaleWrite`)? Do lasting undervoltage and lasting health show in the status? | holds, 384 000 |
| `executor` | Do the tables stay sound under every operation in any order (`TablesSound`), do timers end in time across the wrap of the clock, does an update leave other channels alone, and is a channel lost only when the storage is used up? | holds, 279 000 |
| `node` | Does what is loaded run, with outputs off after a load (`NodeAgrees`), does what is saved come back whole or not at all, does a running timer end? | holds, 36 000 |
| `recovery` | Do results of reconnect threads that were given up leave the connection alone? Do connect and disconnect return? | holds, 51 000 |
| `tmin` | Do the ends keep fitting each other (`EndsAgree`), does a NACK ask only for what the device has (`NackIsAnswerable`), is every frame taken once and in order and handed on once (`DeliveredOnce`), acknowledged only when taken (`AckedWasAccepted`), and acknowledged in the end unless the line has fallen silent? With crashes and lost RESETs; the second to fourth while the ends are in the same session | holds, 69 000 |
| `blocks` | Does every block keep its promise over its history, under every input sequence of some cycles, regular and irregular, with resets? | holds, 522 000 |
| `undo` | Are the stacks bounded and the menus right (`StacksSound`), is every answer a step along one line of documents, and what can get stuck? | holds, 69 000 |
| `session` | However operations and connections overlap: does a link that says connected hold the port? Without overlaps: is everything borrowed given back, is what was uploaded what the document says, and does what can return come back? | holds, 3 306 000 |
| `round_trip` | "Extract ALL fields for correct roundtrip": does an output read back as it was uploaded? | violated |

Some properties are conjunctions of named parts, each with a comment at its
definition: `OutputAgrees` (`PinIsWatched`, `OnIsDriven`, `DutyMatchesState`),
`FaultsExplained` (`ThreeFaultsLockOut`, `FaultRecorded`), `TablesSound`,
`NodeAgrees` (`RunsWhatIsLoaded`, `ReloadStartsDark`), `EndsAgree`
(`WindowSound`, `StashIsAhead`), `DeliveredOnce` (`AcceptedInOrder`, `HandedOnce`), `FiltersFaithful`,
`EdgesTakenOnce`, `ValuesInBounds`, `StacksSound`, `BorrowedIsReturned`
(`LinkKept`, `DialogsClosed`), `NothingLostOnTheWay` (`InStep`,
`SettingsSurvive`). The type invariant of each model is a part of one of them.

The `profet` run has one output because outputs of the driver share nothing but
the queue; what relates outputs is in `shedding`, which has three. `tasks` uses one
output that can trip, shed and lock out, with voltages and temperatures on both
sides of every threshold. Runs with `CHECK_DEADLOCK FALSE` end where the bounds
on frames, cycles, connections or changes end.

## Bounds

| Bound | Meaning, and why it is enough |
|---|---|
| readings 0, 2, 7 and thresholds 1, 3, 8 in `profet` | currents scaled so that the filter passes through every band: no load, normal, overcurrent. `CurrentMod` 7 makes the 16-bit cut happen. As in the code, whose short-circuit threshold of 80 A is above what 16 bits hold, the short-circuit band is never reached; injected faults give that state |
| `PwmResolution` 2 with duties 0..3 | off, partial, full and above full: every branch of SetPWM |
| `DiagPeriod` 2 (code: 10) | refreshes with and without diagnosis |
| `GraceMs` 1 | the on-time saturates above it; the code only compares |
| `MaxFaultCount` | one more than any fault below the lockout can reach; `InjectFault` stops two below it. The `uint8_t` wrap after 256 injections is therefore not explored |
| `QueueSize` 1 or 0 (code: 16) | room and refusal both happen; nobody reads the queue |
| `CounterMod` 4 (code: 256) with `MonitorThreshold` 3 | the wrap of the sample counters is explored |
| `RecoveryDelay` 1 | a check with and without a running timer |
| three outputs, priorities 1, 2 and critical | the least for an order, an order broken over two passes, and an output that must be spared |
| two channel ids, `StorageSize` 4 (`node`: 2), sizes 2 and 1 | the storage fills by mixes of sizes and the table fills first or last |
| `ClockMod` 4 (`node`: 3) with delays up to 2 | timers running across the wrap |
| two configurations of one and two words | a mixture of two configurations in flash differs from both |
| two reconnect threads, two attempts | one thread given up while its successor runs; a repeated and an exceeded attempt |
| `MaxReaders` 2 | receive threads of the old and of the new transport at once; a further attempt fails until one of them has ended |
| `SeqCount` 4 (code: 256), `Window` 2 (8), `RxWindow` 2 (16), start at 3 | the least with a window of more than one frame in which old and new numbers are told apart (`Window + RxWindow <= SeqCount`, as in the code); starting at 3 makes the numbers wrap within the run |
| `MaxFrames` 2 frames of both ends together in a session, `MaxSession` 2 reconnections, `MaxFaults` 1, `LinkCap` 2 frames in flight each way | two frames of the device make a gap, a stash and a NACK, two of the host a nested poll; a retransmission and the same frame in flight; a reset crossing frames; one frame, RESET or ACK lost, one cable pulled or one crash anywhere, and after a crash or a lost RESET a session in which the ends are out of step and one in which they agree again |
| `IntMax` 7 (code: 2^31 - 1), `FilterMax` 16 as in the code | every pair of operands of the arithmetic is tried, over- and underflow included; windows of even and odd length and one that is clamped up |
| 1 to 8 cycles per configuration of `blocks`, 14 for the chain | a window filled and turned over, a timer that runs out and starts again, a bounce between two steady values; elapsed times of 1 and of 2 or 3, of 1 s for the controller |
| `MaxStackSize` 2 (code: 100), groups of two, two names of which one has two values | a stack at its limit with something to redo, an update to merge, a rename, a group that fails at its second part |
| two workers, two connections, two changes, comparisons or power cycles, `PacketLimit` 250 as in the code | an upload between two reads, an operation that outlives the connection it began in; documents below and above the limit. `NameLength` 4 only sizes the records |

The theorems have none of these bounds except the constraints of the `ASSUME` of
each module, and the guard of `InjectFault` by `MaxFaultCount`.

## Fairness

*Driver.* `FairSpec` has weak fairness of `Update`: `vControlTask` wakes every
millisecond (`vTaskDelayUntil`) and calls `PMU_PROFET_Update` on each pass.
Nothing is assumed of commands or of readings.

*Tasks.* `TasksSpec` has weak fairness of the refresh while the control task may
run, and strong fairness of the protection task, which can be kept off the
processor by the control task for part of every millisecond but is released in
the rest of it.

*Node.* The loop reaches its 1 kHz part every 200 rounds whatever it handles in
between (`main_nucleo_f446.c:283`), hence strong fairness of `MainTick`. An
erasure ends, successfully or not, and programming goes on: weak fairness of
both, because the handlers are straight-line code.

*Connection.* Threads that can run do run: weak fairness of the user's thread
inside a call, of the receive threads and of each loop thread. The attempts are
among these steps, because sockets and ports are opened with timeouts. When the
user calls, and when the network fails, is left open.

*T-MIN.* Both ends poll for ever, the host in its poll thread and the device in
its main loop, so what has arrived is read; the line drains, so that a frame or
an acknowledgement that is due finds room again and again, though not at every
moment: weak fairness of the device's reading, strong fairness of the host's
reading (it needs room for its own answer), of resending and of the periodic
acknowledgement. The user plugs the cable in again and reconnects (weak
fairness of both; they are bounded). Losses, being bounded, are not infinitely
frequent. `QueuedIsAcked` excepts the state in which both ends have fallen
silent, because the code stops resending when nothing has been heard for the
idle time (`Stalled`).

The session has no fairness: whether an answer comes, and when the user acts, is
open, and its properties are about what a step may do.

## Proofs

All theorems hold for every value of the constants that satisfies the module's
`ASSUME`. The steps are kept small enough that each closes within three seconds, a
third of the provers' default limit, so the proofs do not depend on a fast machine:
arithmetic, concatenation and quantifiers meet in few leaves, and where a lemma's
conclusion mixes them it is a named operator (`Regroups`, `Extends`, `Resent`,
`Onward`, `Passed`, `Unambiguous`), cited whole first and expanded in a step of its own.

`ProfetProofs`, for any number of outputs, any thresholds, readings, temperatures
and duties:

| Theorem | States |
|---|---|
| `DriverInvariant` | the inductive invariant `IInv` holds always |
| `TypeCorrect` | `TypeOK` |
| `OutputsAgree` | `OutputAgrees`, from `PinWatched`, `OnDrivesPin` and `DutyAndStateAgree` |
| `FaultsAreExplained` | `FaultsExplained`, from `ThresholdLocksOut` and `FaultsAreRecorded` |
| `LockoutPersists` | the action property `LockoutHolds` |
| `ImplementsSmartFuse` | every step of the driver is a step of `SmartFuse` or a stutter |

The argument. None of the properties is inductive alone. That the pin is high
only in an active state needs to know that a full duty and a state ON come with
a high pin; that the threshold means lockout needs to know that an output outside
a fault state has counted fewer faults than the threshold, since otherwise a
command could move it to ON with its count at the threshold. `GoodRecord` is the
conjunction of these facts about *one* record. The proof has three layers:
each operation on a record keeps it good (`SwitchedOnGood`, `ModulatedGood`,
`FaultedGood`, ...); each operation on the driver value keeps all records good
and the queue a queue (`DoSetStateGood`, `HandleFaultGood`, `DiagnoseGood`,
`RefreshGood`, ...), citing only the first layer; each action keeps `IInv`
(`UpdateGood`, `ControlCommandGood`, `ServiceCommandGood`). One
diagnosis may fault an output twice (open load, then temperature): the first
fault takes the count at most to the threshold, which is what `FaultedGood`
assumes, and the second one above it, which is why `MaxFaultCount` must exceed
the threshold by more than one. `LockoutPersists` and
`ImplementsSmartFuse` then look at each action with `IInv` as a fact.

For `ProfetSense` it proves `NoTruncation` for any set of samples (`NothingTruncated`).
The conversion never gives more than 15 510 mA, a saturated converter, and the
filter, a weighted mean that rounds down, stays below what it was given; three
times that, plus one reading, fits the arithmetic.

For `LoadShedding` it proves `ShedListSound` and `ShedInPriorityOrder` (`ListSound`,
`PriorityKept`) for any number of outputs, any priorities and with the control
task running between any two steps of the protection task. Neither is inductive:
a pass that leaves candidates over is continued by another, which collects them
anew. `ShedInv` says that within a pass every expendable output is a candidate,
the victim or on the list, that these are disjoint, and that no candidate is less
important than the victim. That the stable sort hands out a least important
candidate is a lemma of its own, from the existence of a least element of a
finite set of numbers.

It also proves `PassReachesGoal` (`PassesReachGoals`) and `SheddingHolds`
(`SheddingIsHeld`). `PassInv` says that a pass, until it has listed an output, has a
goal above 0 and a candidate left (`HasWork`): the total current is above its limit
as long as the pass runs, and if no candidate could be switched the pass is not
entered. That the goal and the load are numbers at all needs a type of the records
that survives preemption, since `GoodRecord` does not (see "Seen while modelling");
`Loose` is what the operations keep even then. The running sum of the currents is a
recursive function, which `RecursionExists` supplies.

`Inductions` holds what the proofs about folds need: a set that contains 0 and with
each number its successor contains all (from the well-founded order of the numbers),
and the steps of `FoldLeft`: `a[k]` is what the first `k` members make of the start,
so that a fact kept by one step holds of the fold; and that a function defined by
recursion over an interval of numbers exists and is what its equation says
(`RecursionExists`, from the well-founded order of the numbers). The library's own induction
theorems have an operator as parameter and cannot be used; these have a set. On them
rest the lemmas about numbers that the blocks need: a sum over a finite set grows by
its last member and slides by its first and last (`SumGrows`, `SumSlides`), a mean
lies between the members (`MeanBetween`), every finite sequence of numbers can be
sorted (`OrderExists`), and a finite set of numbers has its ends (`EndsOf`).

`NodeProofs` proves, for any tables, outputs, pins and delays, `TablesSound`
(`TablesAlwaysSound`), `TimersInTime` (`TimersAlwaysInTime`), `OthersUntouched`
(`OthersAlwaysUntouched`) and `LostOnlyWhenFull` (`OnlyLostWhenFull`). The inductive
invariant `ExecInv` says that the channels lie in the storage one behind the other
in the order of the table, below the mark of what is used: that no storage is shared
follows, and a removal, which moves nothing, keeps it. One cycle is a fold over the
channels and one over the links, an upload a fold over its entries; each is followed
step by step. That a removed channel leaves the rest as it was compares what
selection keeps before and after the shift of the table.

Of `NodeConfig` it proves that it implements `SavedConfig`
(`ImplementsSavedConfig`) for configurations of any length, wherever power fails
and whichever words do not take. `SaveInv` follows the programming: the words in
the sector are a prefix of the buffer's image in which some may be erased, and
the header is erased or the buffer's. So the sector does not hold a configuration
before its last word is in, and if a word failed it never does; an erasure in
progress leaves none either. Every step of the executor is a stutter. It also proves
`NodeAgrees` (`NodeAlwaysAgrees`): the executor runs what is in the buffer, and only
its links and the commands since then switched pins on. `NodeInv` compares what the
tables *describe*, which a tick does not change, with what loading the buffer into
empty tables gives.

`RecoveryProofs`, for any number of reconnect and receive threads, any limit of
attempts, with reconnection on or off, proves `StateMatchesCall`
(`StateFollowsCall`) and the action property `ClosedStaysClosed`
(`GivenUpIsFinal`). `StepsAreKinds` sorts the steps of all threads by what they
do to the pair of state and call; the invariant `RInv` then needs no look at the
threads. Its second part, that a disconnect waiting for a thread still has a
connection to give up, holds because that call keeps the lock: without it a loop
could give up in between, and the disconnect would move DISCONNECTED to SUSPENDED.
`AttemptsBounded` proves `RecoveryTypeOK`, with its bound on the counter of attempts:
the counter exceeds the maximum by no more than the number of threads that are
through with their attempts (`CountInv`), since a thread that counts beyond the
maximum makes no further attempt before the counter is reset. The bound is a
cardinality, hence the assumption that the names of the threads are finitely many.

`TMinProofs` proves `EndsAgree`, `NackIsAnswerable`, `DeliveredOnce` and
`AckedWasAccepted` (`EndsAlwaysAgree`, `NackAlwaysAnswerable`, `AlwaysDeliveredOnce`,
`AlwaysAckedWasAccepted`) for any windows that fit the sequence numbers, any number of
frames, sessions, losses, crashes and lost RESETs. Apart from the soundness of each
window they are claims about the ends while they are in the same session. The frames of
a stream are numbered since the session began: the sender has had `A` acknowledged and
has sent `M`, the receiver has taken `D`, and `A <= D <= M <= A + Window`.
A late message may carry an old number, which its 8 bits alone do not tell from a new
one. What excludes the confusion is that the line is a FIFO: `LineInv` says of each
frame on the line that what was taken or stashed is less than a window ahead of
it, and so is every frame sent before it; of each acknowledgement that it lies within
what was taken, and not before an earlier one, and that what it asks for lies within
the window (`FramesOK`, `AcksOK`). So a frame
is new, stashed or old by its offset on the circle of numbers. While the ends are in the
same session the line is two such streams (`Pair`, `Linked`). When the host has left, or
crashed, or its RESET was lost (`Parted`), the line says nothing, since the ends may
answer each other's old numbers, and what remains is what each end keeps to itself
whatever it reads (`Sound`); the RESET that the device then reads is the last thing the
older session sent (`ResetLast`), so both start afresh. That the device calls its
application once for each frame is an invariant of its own (`HandledAlways`), since
every order that nested polls can give the calls is a permutation of what was taken.

`UndoProofs` proves `StacksSound` (`StacksStaySound`, from `StacksTyped`,
`LimitHolds`, `MenusFollow`) for any channels, any limit and groups of any size.
Only `execute` enforces the limit; that a redo has room rests on the bound of both
stacks *together*, which is the inductive form. The menus are told of the first
push and the last pop only, so that their agreement has to be carried along.

It also proves that the manager, with its callbacks wired to the ConfigManager,
implements `EditHistory` (`EditsAreOneLine`) and `OnlyMergedStick` (`OnlyTheseStick`). `HInv` says that the pictures of past and
future are one line that the commands of the two stacks follow: each leads from the
picture it was built on to the next (`Leads`), a group along a path of pictures
(`Path`). A command that does not rename is its own way back. A group is undone part
by part from the last, and a part remembers its channel as the group found it, so the
pictures on the way back are not those of the way there, but keep near to them
(`Near`: the same names, each channel that of the way there or that of the first
picture) and meet the first one at the end. Pictures are sets: what the refinement
says of a document it says up to the order of its channels.

`SessionProofs` proves `LinkedIsOpen` (`LinkedMeansOpen`) for any number of threads
and connections. While operations run it is not inductive: the port may be free,
with a thread, or with the transport of an earlier connection. `LinkInv` adds
`Backed`: if the link says connected and its transport has not the port, some
thread is on its way to reopen that very transport (`Returning`), and its step
either opens it or drops the flag. The proof goes by what each place in an
operation may hold, and by who could hold the port when another thread reopens.

`BorrowedIsReturned` and `NothingLostOnTheWay` (`WhatIsBorrowedReturns`,
`NothingIsLost`) hold as long as nothing overlapped, and their invariant, `SessionInv`,
says so too: `Orderly` is claimed only while the ghost `raced` is false. `Orderly`
says that one operation runs at a time (`Alone`), where the port is at each of its
steps (`Held`), that a comparison's thread is awaited, that an open progress dialog
is that of the read under way, that every result on its way is what the node still
holds (`Fresh`), and that document and node agree except between clearing and loading.
The hard part is that each step that could break one of them sets `raced` first: a
second operation as it takes the transport, an upload or a read as it overtakes an
undelivered result, a result that is shown between the two looks of a write at the
events, a power cycle, a join that gives up. A write whose document was taken before
the last events holds the document on the screen unless something raced.

What of the settings survives the way to the node and back is a fact about the codec,
proved for any document (`WholeUploadsReturn`): finitely many channels of known kinds, no
two with the same kind and number, whose image is whole. Counting the channels before a
channel in the order of the tree gives its place in what is sent (`SentHas`); if the
image is whole that place is not cut off (`WholeHas`); and what is packed there comes
back with the channel's inputs and, under the keys of `Kept`, its exact values
(`ChannelsReturn`): each key is found in the field it was packed into, the factor that
was multiplied in is divided out, and the operations that have a name are translated
back one to one. A channel that could not be packed (`Raises`), values that are cut and
keys that do not return are outside the statement, because the code loses or changes
them; "Seen while modelling" lists them. `DocumentsAssumption`, which
TLC evaluates, says that the documents of the session are such documents and closed
under reading back.

`LogicProofs` proves, for any configuration that the validator of channels accepts
(`ConfigsAssumption`, after `channel_validation.py`), any inputs, any times and
uploads at any moment, `TimerKeepsTime` (`TimersAlwaysKeepTime`), `EdgesTakenOnce`
(`EdgesAlwaysTakenOnce`), `FiltersFaithful` (`FiltersAlwaysFaithful`, of which
`DebounceAlwaysSteady` is a part) and `ValuesInBounds` (`ValuesAlwaysInBounds`). What they
say of filters, flip-flops, windows, levels and 3D tables is a statement about these
functions of the library, called once in a cycle, since no channel of the executor runs
them. They compare the state of a block with the history of its inputs and outputs since the last
load, so the invariant has one conjunct per kind of block that says what its few words
of state remember of that history: `TimerInv` since when the trigger holds, `FlipInv`
and `CounterInv` the count as it follows the edges seen, `DebounceInv` since when the
input differs from the output. `ValuesInv` says it of the blocks whose promise is
about values. The ring of a moving average holds the newest samples of the history,
each at its place, and its total is their sum (`RingInv`, `SmaInv`), so a turn takes
off the oldest and adds the newest; the ring of a median holds the same samples in
another order, and sorting undoes it (`MedianInv`). A follower's accumulator lies
between the bounds of what was read times its scale, whatever the rounding
(`FollowerInv`, `Within`). A comparator's last change was made beyond the threshold it
had to cross (`ComparatorInv`), which puts two changes a band apart. Bisection narrows
to two neighbours because each halving keeps `x` between them (`Lies`), and both
interpolations stay between the values at the neighbours. A controller's integral is
cut before it is added, so an error that has turned takes the output off its limit
(`PidOk`).

These hold where the source can promise them, and the properties say so: levels are
left without chatter if each is left below where it is entered, a table interpolates
if its axes increase, and a controller leaves saturation if its integral range lies
within its output range and it has no derivative. Of a one-shot it is said that it
lasts at least its delay and, without auto reset, comes once until it is reset; how long
it stays is left open, because the sources disagree ("Disagreements"). The step of a
counter is any number but 0. A round of the executor is a fold
over the channels of the table; `EachTurn` shows that it gives every channel exactly
one turn, with inputs from what earlier channels of the round left, and that no other
turn touches its state. A channel that reads one further down sees the value of the
previous round.

Only model-checked: all liveness properties (`OvercurrentTrips`, `FilterSettles`,
`UndervoltageRaisesCritical`, `HealthyRecovers`, `PulseEnds`, `CallsReturn`,
`QueuedIsAcked`), since fairness is beyond the prover, and the action property
`LockoutLostToStaleWrite` of the preempted tasks. An induction over one given fold can be carried out by hand through
`Inductions`; a statement about all recursive definitions, or about data of any depth,
cannot.

## Disagreements

*`round_trip`.* The reader says "Extract ALL fields for correct roundtrip"
(`device_controller.py:1266`). The serializer packs an output's inrush limit and
inrush time in one order (`binary_config.py:1229`) and the structure reads them
in the other (`channel_config.py:331`), so that each upload followed by a read
exchanges the two. `SettingsSurvive` says which settings do return.

Three that no run is made for, because the properties leave them open:

- `timer.py:18` says of ONESHOT "Single trigger, stays high until reset", its twin
  `timer.h:31` "Single pulse, requires reset". The code of both ends the pulse with the
  delay (`timer.py:174`). `TimerKeepsTime` therefore does not limit the pulse of a
  one-shot from above.
- `channel_validation.py:836` says "Counter step must be > 0"; the check at `:639`
  rejects only 0, and `counter.py` counts down with a negative step. The model takes
  what the check takes.
- `pmu_min_port.c:78` ("The fix is to defer RX processing until the command handler
  returns") and `:162` promise that no command is handled inside another. The flag
  `min_in_command_handler` is set in the handler, which `min.c` calls after the ACK was
  sent, so the nested poll of that ACK is not deferred.

## Seen while modelling

*Driver and protection.* (1) Shedding calls `PMU_PROFET_SetState` from the
protection task. Preempted after the lockout test at `pmu_profet.c:341` ("Don't
allow state change if in fault lockout"), it finds the output locked out by a
diagnosis of the control task and overwrites the fault state with OFF. The fault
count stays, but the lockout test also asks for a fault state, so the next command
switches the load on. `tasks` and `shedding` have this preemption;
`LockoutLostToStaleWrite` shows that it is the only way either task loses a lockout. (2) Load shedding ends by clearing a flag
(`pmu_protection.c:331`, while `:346` promises "4. Restore outputs when condition
clears"). The list of shed outputs stays, so they remain off until commanded, and
are never candidates again. (3) A saturated sense pin (3.3 V, 4700:1, 1 kOhm)
reads 15.51 A; the thresholds of 42 A and 80 A (`pmu_profet.c:664`) cannot be
reached by that conversion. The fault count is called "Consecutive"
(`pmu_profet.c:42`) but no clean diagnosis resets it. An injected undervoltage, or an injection of no flag
at all, enters the overcurrent state, which is the fallback of `PROFET_FaultToState`
(`pmu_profet.c:167`), with no overcurrent flag beside it. The count is a `uint8_t` that
`InjectFault` (`:592`) increments without a limit: 256 injections bring it back to 0,
which ends the lockout. SetPWM switches a load on
without a CHANNEL_ON event (`pmu_handler.h:51`). A critical temperature asks for
load shedding (`pmu_protection.c:278`), but a pass sheds only when the total
current is also over its limit (`:348`), and too much power never asks for it,
although the note at `:340` names both.

*Executor and node.* `SET_CHANNEL_CONFIG` removes a channel before it adds its
successor (`pmu_protocol.c:1858`), and the storage of removed channels is given
back only by a clear: after enough updates the add fails and the channel is gone.
`LostOnlyWhenFull` shows that this is the only way. A single-channel update of an
output adds a second link. `CLEAR_CONFIG` ("Clear config (factory reset)",
`shared/protocol.h:79`) empties the tables and leaves outputs on. A word that
`HAL_FLASH_Program` fails to write is acknowledged as saved
(`pmu_serial_transfer_port.c:213`; the sibling in `pmu_protocol.c` looks at the
result), and a failed erasure as cleared. `PMU_ChannelExec_LoadConfig` resets the
pins but not `stub_channels`, so telemetry still reports the outputs ON. The
comment at `pmu_channel_exec.h:110` lets Update write results to the channel
registry, which it does not do, so that LOGIC channels do not see other virtual
channels. The firmware never sends BOOT_COMPLETE.

*Connection.* A loop that gives up handles RECONNECT_EXHAUSTED, which ends in
`_stop_reconnection` joining the very thread it runs on
(`connection_recovery.py:335`). `Thread.join` raises, nobody catches it, and
`on_reconnect_failed` (`:402`) is not called, although `device_controller.py:104`
announces "all attempts exhausted". A disconnect that gives up on a thread inside
an attempt returns; the attempt then succeeds, its event is ignored, and a
transport with a receive thread stays open in state DISCONNECTED, although
`docs/device_reboot.md:146` says "User-initiated disconnect: No auto-reconnect". A
loss reported after RECONNECT_SUCCESS but before the loop thread has ended finds
that thread alive and starts no other: the state stays RECONNECTING until the
user acts (`docs/device_reboot.md:147`). A loss reported before CONNECT_SUCCESS is
ignored, and CONNECTED is entered without a transport. A thread that was given up
sees the stop event cleared by its successor and goes on next to it. With the
health checks off, a serial link that falls silent never triggers the recovery.

*T-MIN.* A NACK is never forgotten when a single frame was missing, so the next
gap is repaired by the retransmission time only. A host that goes away without a RESET,
or whose RESET is lost, leaves the numbers of the old session
with the device, which then takes frames of the new session for the continuation
of the old one where the numbers fit, and
drops them where they do not; out of step a NACK may also name more frames than the
window has, which `min.c:376` resends without looking (its assertion is compiled out).
The device acknowledges a frame before it hands it on. If a further frame
has come in meanwhile, the nested poll of `min_tx_finished` hands that one on first, and
`payload` points into the one receive buffer of the context: the waiting call
then runs with the number and length of its own frame and the bytes of the later one. A
frame that is acknowledged is thus taken and handed on once (`DeliveredOnce`), but not
necessarily in order or with its payload, and nothing will send it again. Bytes in the receive
ring are also overtaken by bytes that
`PMU_MIN_ProcessByte` hands to the parser directly. All this concerns builds with
`pmu_min_port.c`; `platformio.ini:235` leaves it out of the Nucleo build ("Replaced by
SerialTransfer"), and the port itself never calls `min_queue_frame`, so the device's
side of the FIFO is that of the library. When both ends have
heard nothing for the idle time neither resends, and a queued frame waits for the
next one.

*Blocks.* `channel_executor.py` annotates three methods with `CfgSwitch`, `CfgCounter`
and `CfgHysteresis` (`:384`, `:408`, `:429`), which are defined nowhere. Up to Python 3.13
annotations are evaluated when the class is made, so the module cannot even be imported
there (`pyproject.toml:5` asks for 3.11 or later); from 3.14 on it can. On any version
`exec_filter` (`:326`) raises NameError for `FilterType`, and as `process_channel` catches
nothing, a FILTER channel ends the cycle in which it is reached. The model is the
executor where it can be imported, without FILTER channels. `update_time` subtracts the time of the cycle before the last one, so that
the elapsed time spans two cycles (docstring at `channel_executor.py:155`); `reset_channel_state` leaves counters, comparators
and flip-flops as they are; `exec_table2d` passes an argument the block has not
(`size=`) and raises; `exec_logic` has no branch for OUTSIDE_RANGE;
`math_scale(0, ..., 0)` is INT32_MIN.

*Undo.* Nothing outside `undo_manager.py` makes a command or calls `execute`, so that the
menu has nothing to undo. A merged update never counts as executed and cannot be undone; a rename
cannot be undone either, since the channel is looked up by its old name. A group
with a rename that fails part-way cannot take the rename back, which is why the
groups of the model have none.

*Codec and documents.* Configurations of more than 250 bytes (five to eight
channels) are cut to one packet by `build_packet`, loaded as far as they go and
acknowledged ("Config synced"); reading them back fails. Values: a logic channel's `constant` is a
float, packed times 100 (`binary_config.py:1406`), and read back unscaled as
`compare_value` (`device_controller.py:1298`), a key the dialog does not read: 5.0 comes
back as a comparison with 500. Numbers with a scale are cut, not rounded (a number of
0.57 comes back as 0.56); points of a table behind the
sixteenth are lost while their count is not. A value outside its field (a gain above
32.767, a time constant above 65.535 s) raises in `struct.pack`, and the channel goes
out without any configuration. Keys the dialogs write
and the serializer does not read: `current_limit_a` and `inrush_current_a` (it
wants `_ma`), `mode` of the timer (`timer_mode`; each round trip walks on through
the modes), `input_pin`, the PID's `process_channel`, the analog scaling, a number's operation, inputs and limits,
a filter's type and window. A CAN
output gets no channel id and is never sent, Lua scripts, handlers and keypads
neither; the next read removes them. A CAN input's byte order is a word where a
number is wanted, so the channel goes out with no configuration. H-bridge, CAN
output and switch settings are never read back; the logic operations 0x30 to 0x37
come back as `is_true`. `CfgMath` declares 32 bytes and packs 34;
`frequency_input` packs pulses per revolution where the timeout is. Saving a
document with a timer to a file raises in `set_channels_from_dicts`;
`ConfigFile.save` opens the file before it serializes, so a failing save truncates
it; the loader drops digital, analog, number and switch channels
(`config_manager.py:162`), and the inputs of logic channels grow with each save.

*Session.* A document with nothing to send is not uploaded ("Config synced (no
virtual channels)") and the device keeps its channels. Undo, redo and the WiFi and
Bluetooth dialogs emit a signal nobody connects, so they do not reach the device.
Every sync sends CLEAR_CONFIG, which erases the saved configuration; SAVE goes
over T-MIN, which the Nucleo build does not answer; after a power cycle the
automatic read therefore finds an empty configuration and replaces the document
without asking. Each edit uploads twice. If two operations race for the port the
loser sets `_is_connected` to False silently: the screen says ONLINE, and a new
connect is refused until the user disconnects. A user who disconnects while a
thread reopens the old transport leaves it open, and later connects fail. Of two
overlapping reads the first progress dialog stays open. A read that ends after an
upload is shown all the same. A write to the device handles events after it has taken
the document (`device_mixin.py:434`, `:439`): a result that is handled there changes the
screen, and the device gets the document from before. `_push_channel_config_to_device` has no caller.

## Not modelled

The components with status `not_modelled` in `PROJECT.json`: H-bridge, CAN, LIN,
bootloader, H7 storage, logging, Lua, analog inputs, wireless, LEDs and keypads.
They share no state with what is modelled; bootloader, H-bridge and the H7's
chunked upload are what could follow next. Of the Python code the larger part is
the layout, painting and wiring of Qt widgets (dialogs, monitors, loggers,
tuners, previews): it keeps no state of the system beyond what `Session` and
`ChannelCodec` have of it, and a model of it would say nothing.

Of the modelled components: parsing of packets byte by byte (packets are atomic
in `Session`, frames in `TMin`, where a frame of which a nested poll has read a part is a
lost one; the CRCs are taken to tell different contents
apart); the payload a nested poll of T-MIN leaves to the frame that waits; the widths and offsets of binary records; telemetry and streaming;
registers and timers of the PWM; the arithmetic of temperature conversion; the
executor's channel types other than LOGIC and TIMER, which the firmware stores
and does not evaluate; HAL ticks before the first software tick of the Nucleo
node; a push to the event queue torn by another. `SetChannel` belongs to the H7
protocol, whose builds do not call the executor's update, so `ExecSpec` is the
executor as a library: every operation of its interface in any order, a superset
of what either build does. No task calls the service interface of the protection
system; `TasksSpec` leaves it out, `Spec` keeps it. Of the connection: health
checks, which the controller switches off, `force_reconnect` and `stop_reconnect`,
which nothing calls, and changes of the settings while threads run. Of the
session: the emulator and WiFi transports, single-value commands, and the
recovery machine, which has a model of its own. The C twins of the function
blocks are not compared with the Python ones.
