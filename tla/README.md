# SimulIDE: a TLA+ model

SimulIDE simulates electronic circuits with microcontrollers in them. This
directory holds a formal model of the parts of it that are hardest to test:
the list of pending events that drives every simulation, the two threads that
share the simulator, the interrupt controller, sleep and timers of the
simulated microcontrollers, and the devices that run their firmware in a QEMU
process: the memory the two share, the serial port and the Bluetooth
controllers. TLC checks the models on small instances. Proved with TLAPS, for
all values of the constants, are the promise that the event list makes to the
circuit's elements and that the linked list keeps it, the safety of the two
threads, what the interrupt controller promises to programs of tame habits, the
implementation of a mailbox by the shared memory, that the serial port loses
neither an interrupt nor, unnoticed, a byte, and that the two ends of a
Bluetooth connection agree.

All paths below are relative to `src/src/` unless they start with `src/`.

## The system

| Component | Code | State it keeps | Operations | Modelled in |
|---|---|---|---|---|
| Event list | `simulator/simulator.cpp` 236-297, 340-368, 411-498, 545-618; `simulator/e-element.cpp` | `m_firstEvent`, each element's `nextEvent`, `eventTime`, `m_pendingTime`, the clock `m_circTime` | add, cancel, deliver, pause, resume, start, stop | `EventQueue`, `EventList` |
| Simulation control | `simulator.cpp` 58-297, 411-512; `gui/circuitwidget/circuitwidget.cpp` | `m_state`, `m_oldState`, the timer, the future of the circuit thread | power, pause, edits, timer tick, one frame | `Simulator` |
| Debugger session | `gui/editorwidget/editorwindow.cpp`, `basedebugger.cpp` | the editor's own `m_state` | run, pause, reset, stop, line reached | `Simulator` |
| MCU interrupts | `microsim/mcuinterrupts.cpp` | flags, enable bits, priorities, `m_pending`, `m_active`, `m_running` | raise, clear, enable, serve, RETI, reset | `McuInterrupts` |
| Bluetooth controllers | `microsim/cores/qemu/qemubt.cpp` | two rings shared with QEMU, event queue, connection, credits; the medium common to all | pump, commands, ACL data, connect, disconnect | `QemuBt` |
| MCU clock and sleep | `microsim/e_mcu.cpp`, `mcusleep.cpp` | state of the core | step, sleep, wake, watchdog | in part, in `McuInterrupts` and `McuTimer` |
| MCU timers | `microsim/mcutimer.cpp`, `mcuocunit.cpp` | count, top, time of the overflow, clock | schedule, count, compare, stop, sleep, external clock | `McuTimer` |
| QEMU devices | `microsim/cores/qemu/qemudevice.cpp`, `qemumodule.cpp`, `qemuarena.h` | a shared-memory arena, the device's event, the reset pin's calls | run an event, register accesses, reset, start, pause | `Mailbox`, `QemuDevice` |
| Serial port of ESP32 devices | `microsim/cores/qemu/esp32/esp32usart.cpp` | two FIFOs, interrupt flags, the ring of interrupts | register accesses, send, receive, raise | `Esp32Usart` |
| Circuit solver | `simulator/e-node.cpp`, `circmatrix.cpp` | changed nodes, admittance matrix | solve a time step | one step of `Simulator` |
| Pins and slopes | `gui/circuitwidget/iopin.cpp`, `microsim/mcupin.cpp` | level, target level, step of a slope | set a level, run an event | planned |
| Serial peripherals | `microsim/modules/{twi,spi,usart}` | shift registers, bus state | clock edges | planned (TWI) |
| Batch tests | `gui/testing/batchtest.cpp`, `components/other/testunit.cpp` | queue of circuits | next test | planned |
| Instruction cores, components, editing and undo, compilers, scripts, views | `microsim/cores/*`, `components/*`, `gui/*`, `angel/` | | | not modelled |

`PROJECT.json` lists the same components with the reason for each that is not
modelled.

### How they interact

The GUI thread owns a timer. On each tick `timerEvent` waits for the circuit
thread, lets the elements update their display, and starts the circuit thread
on one frame (50 ms of real time). The circuit thread runs `runCircuit`: solve
the circuit, take the first element off the event list, move the clock to its
event, call it, and so on with all events of that time, until the frame is
over. Elements add and cancel events, their own and others', from these
callbacks. Microcontrollers are elements; their peripherals raise interrupts
from their callbacks, and the core takes interrupts between two instructions.
ESP devices run in a QEMU process of their own, which shares memory with the
simulator. The process posts one request at a time (read or write a register,
do the periodic work, go on at a later time); the circuit thread waits for it
in `QemuDevice::runEvent`, up to a second, has a module execute it, and
schedules the next event. Interrupts go the other way, through a ring. A reset
pin moves on the circuit thread, kills and starts the process on the GUI
thread, by queued calls. A `QemuBt` is called once per simulation event, moves
frames between its rings, and calls its peers. Buttons, property edits and the
debugger run on the GUI thread between two ticks, while the circuit thread may
be running. The two threads share no lock, only the field `m_state`, which is
volatile but not atomic: a test and the write after it are two steps.

### What is hard, and what makes it right

* **Event list.** Everything is a callback out of the list that is being taken
  apart. *Right if*: an element has at most one event, and each event is
  delivered once, in order, at its own time; nothing of one simulation is left
  in the next.
* **Simulation control.** Two threads, a field written by both, handlers that
  interrupt each other. *Right if*: the GUI thread never touches the elements
  beside the circuit thread where it believes not to; stop stops; pause pauses;
  no handler leaves `m_state` at a value from which no frame follows; the clock
  does not overtake events.
* **Interrupts and sleep.** Two lists in one link field, changed from all
  sides. *Right if*: the lists are disjoint, a due interrupt is pending or in
  service, none is served that is not due, the order of service is that of
  priorities, and no core sleeps through what should wake it.
* **Timers.** They do not count, but work the count out from the time of an
  event that others cancel, and every write schedules anew. *Right if*: an
  overflow comes when the registers say and no compare match is missed.
* **QEMU devices.** Four actors on a few words of memory, no lock, a timeout,
  a process that dies. *Right if*: each request is executed once, before QEMU
  believes it done, none survives a restart, and nobody waits for ever.
* **Serial port.** Interrupts by level, told by events. *Right if*: no byte is
  lost unnoticed, and the level QEMU knows is the one the port has.
* **Bluetooth controllers.** Rings that fill up and empty at any moment,
  controllers that call each other recursively, connections that end while data
  is under way. *Right if*: both ends of a connection agree, a host has been
  told what is the case, data arrives once and in order, credits neither leak
  nor appear, and everything is answered in the end.
* **Solver**: every node that changed is solved before the next event.
  **Pins**: a slope ends at its target, whatever changes meanwhile.
  **TWI**: master and slave agree on every bit. (Planned.)

`PROJECT.json` lists the hazards at their lines, and for each one the property
that watches it or the reason why none does yet.

## The modules

### EventQueue: what the event list promises

`queue` (elements in the order of delivery), `due` (each one's time, 0 for
none) and the clock `now`. `Schedule`, `Cancel`, `Deliver`, `PassTime` and
`Discard` (the simulation ends) are the abstract operations. An event goes
*before* those that are due at the same time, as `addEventAt` puts it. The
promise has one exception, which the code makes: after `Resume` in a frame that
was broken off the clock may `Overtake` events. They are delivered late, and
`overtaken` says which they are; of all the others the promise holds.

### EventList: how the list keeps the promise

The linked list itself: `m_firstEvent`, `nextEvent`, `eventTime`, and
`m_pendingTime` of peripherals of a sleeping microcontroller. `pc` says where
the simulator is: off, in the three passes of `startSim`, between frames, in
the event loop. `NextTimeStep` and `SameTimeStep` are the two ways in which
the loop takes the next event, `Solve`, `EndFrame`, `BreakFrame` and
`LeaveFrame` the rest of `runCircuit`. Between the last two the GUI may resume
(`ResumeSim`): line 293 then moves the clock to the end of the frame, past the
events that are left. `PauseEvents` of one of these keeps a negative remainder.
Wherever elements' code runs, any element may add or cancel any
event or pause and resume a sleeper's. `Implements` is the refinement of
`EventQueue`, with `queue` the elements reached from `m_firstEvent`.

`addEventAt` for an element that already has an event is a message and no
change, as in the code. A call with a time before the clock is not modelled:
`addEvent` takes a non-negative delay, and the one place found that passes a
wrapped one is a run of its own (`timer_compare`).

### Simulator: two threads

`gui` and `thread` say where each thread is; `m_state`, `m_oldState`, the
timer, the button's icon and the debugger's state are the code's. A GUI handler
is one step, except where it waits (`waitForFinished`) or leaves `m_state` at
an intermediate value. A step of the circuit thread is what it does between
two accesses to what the other one writes; `pauseSim`, called by a breakpoint
on the circuit thread, is two steps, a read and a write. The event list is
abstracted to the distance `next` of its first event, the rest of the frame to
`left`. Time is relative, so the state space is finite without a bound on time.

### McuInterrupts: the interrupt controller, and sleep

The two lists with their common link field, flags, enable bits, priorities and
global enable, one action for each call of `Interrupt` and `Interrupts`.
`Sleep` is `eMcu::sleep` with the mode in which the core sleeps; `Raise` wakes
it if the test of the interrupt's mask allows it, and `Watchdog` does. The test
is the code's: it ANDs the mask, which has a bit for each mode, with the number
of the mode. `Lower` is `raise(0)`, which only a pin sends, one whose interrupt
follows a level or is not configured yet; it clears the flag of any interrupt
that clears itself. Firmware is a set of habits (`Habits`): whether it nests,
touches the flag of a running routine, uses level interrupts, leaves flags set,
changes priorities, sleeps.

### McuTimer: a timer with a compare unit

`McuTimer` and one `McuOcUnit`, driven by their two events, by the firmware's
writes, by sleep and by the edges of an external clock. `updtCount`,
`sheduleEvents` and `ocSheduleEvents` are the functions that each of these
calls; an action that calls them includes them. Time is in instructions. The
history variable `left` is the counter that the code does without: the time to
the overflow, had nothing intervened. Firmware again is a set of habits. Waking
up takes two steps, as in `eMcu::sleep` (`e_mcu.cpp` 203-209): `Wake` sets the
core running, which executes one instruction at once, and `Rouse` wakes the
timer after it; that instruction may be about the timer in firmware that is
`hasty`. The compare unit is one whose register is not the top: the
`ocrWriteL` in `topReg0Changed` is the call of another unit.

### Mailbox and QemuDevice: the arena

`Mailbox` says what a QEMU process is promised: its request is `Execute`d once
and `Complete`d after that. It may be taken for done without (`Drop`) only if
nobody was watching when it was posted or if no module has the address it is
for, and never if it is a read. The process is part of the promise: only when
another one is started (`Restart`) is a request forgotten. `QemuDevice` has the words of the arena,
the device, `runEvent` in the steps between two accesses to the arena
(`RunEvent`, `Clear`, `GiveUp`, `TakeNow`, `TakeLater`), the reset pin with the
calls it queues (`PinLow`, `PinHigh`, then `Kill`, `Restart`, `Started`,
`ResetDone` on the GUI thread), and the timer and pause of the simulator.
`Promise` maps it to `Mailbox`: the register is `m_ioMem`, the answer
`regData`. The process is external; it posts a request, waits until `simuTime`
is 0 and goes on. An address belongs to a module or to none (`nowhere`), for
which `doAction` does nothing: a write is acknowledged and lost, a read is
acknowledged and never answered.

### Esp32Usart: the serial port

The FIFOs, the bytes that wait behind the full one (`m_txPending`), the flags
with the level they make, and the ring of interrupts between `setInterrupt` and
QEMU. Two programs access the registers: `any`, in any order, and `driver`,
which fills the FIFO, enables the interrupt and sleeps until it comes. `Restart`
empties the ring and leaves the module as it is, as `QemuDevice::stamp` does.
All modules of a device share the ring, and nothing in this repository bounds
how far QEMU is behind with it. In a `crowded` session the others send
(`OtherInterrupt`) and the firmware goes on however full the ring is; in the
others QEMU reads the ring down to `MaxLag` events before the next access.
`dropped` says that the port's last change did not fit.

### QemuBt: Bluetooth controllers

The thread's call stack is a variable: a sequence of calls (`at`, `of`), the
innermost first. A step is what `pumpTx` or `pumpPendingEvents` does from one
access to a ring to the next, so that the hosts' steps come between any two.
`PumpTx` to `PumpAgain` are `pumpTx` from top to bottom; `Commit...` are the
branches of `commitPendingAction`; `PushEvent`, `EndDrain` and `Drained` are
`pumpPendingEvents`. `PumpTx` of a controller that is already pumping sets
`m_pumpRequested`, as the code does. `Destroy` and `Construct` remove and make
a controller while the thread is not running.

A controller stands for its address, a packet for its number on its
connection, an event for its type and handle. Hosts (firmware, not in this
repository) wait for the answer to a command before the next one and send one
packet at a time, which is what `LE Read Buffer Size` tells them
(`qemubt.cpp` `handleLeReadBufferSize`); they give back every packet they were
sent. `host` records what each one has been told.

## The runs

| Run | Question | Instance | States |
|---|---|---|---|
| `event_queue` | Is the promise consistent? | 3 elements, times 1-4 | 8 thousand |
| `event_list` | Does the list keep it? | 3 elements, one of them a sleeper, delays 0, 1, 3, frames of 2, time up to 5 | 418 thousand |
| `sim` | Do the threads share the simulator safely in ordinary sessions? | delays 1 and 3, frames of 2, the sessions `SoundUsages` | 98 thousand |
| `sim_resume` | Are all events of a frame done when it ends? (no) | edits while running | |
| `ints` | Does the controller serve well-behaved programs, and wake their core when the mask's test allows? | 3 interrupts, 3 priorities, 3 sleep modes, the programs `SoundFirmwares` | 864 thousand |
| `timer` | Does a timer overflow and match when it should? | counter of two bits, ticks of two instructions, 14 instructions, the programs `SoundFirmwares` | 2.5 million |
| `timer_compare` | Is the next match always ahead? (no) | the compare register is written within a tick | |
| `qdev` | Is the arena a mailbox, and is everybody answered? | 2 values, 2 requests at one moment, 4 calls, the sessions `AllSessions`, addresses of a module and of none | 532 thousand |
| `qdev_reset` | Does the device run when a reset is over? (no) | two pulses of the reset pin | |
| `usart` | Are bytes and interrupts kept, and does a driver come to its end? | FIFOs of 2, ring of 4 (crowded or not), 4 bytes, one restart | 385 thousand |
| `bt` | Do two controllers agree, and lose nothing? | two controllers that advertise and initiate, 3 and 2 commands, 2 packets, rings of 2 frames | 1.1 million |
| `bt_live` | Is everything answered? | the same two, one credit, rings of 1 frame, nested pumps | 46 thousand |

### What they show

* `ListIntact`, `Implements` (of `EventList`): whatever the callbacks do, the
  list is finite, contains exactly the elements with an event, has no element
  of an earlier simulation, and delivers as `EventQueue` promises. The event
  loop does not compare the head of the list with the clock. It is right not to
  except for the events that line 293 overtakes when a broken frame is resumed:
  those come first, the clock goes back to them, and events asked for meanwhile
  follow in the order of their times (`overtaken`).
* `GuiExclusive`, `StopClean`, `NothingOvertaken`, `EventsOnSolved`,
  `DebuggerCanContinue`, `GuiComesBack`, `FramesGoOn`: in the sessions of
  `SoundUsages`. Two of them are stated for simulations in which no edit
  resumed a frame that was still ending (`late`): `sim_resume` shows why.
  `DebuggerCanContinue` (the debugger is never left with a simulation that its
  buttons cannot continue) and `FramesGoOn` are stated for those in which the
  debugger's pause button was not pressed while a breakpoint was being reached
  (`crossed`): both fail without this, see below.
* `ListsSeparate`, `PendingIffDue`, `ServedByPriority`, `ServiceIsAStack`: for
  programs of one habit at a time, and for changing priorities together with
  nesting or touching. `SleepsOnlyIdle`: while a core sleeps that fell asleep
  with nothing to serve, no enabled interrupt is raised that the code's test of
  mask and mode lets wake it. It does not say that the test is the right one.
* `OnTime`: the overflow of a timer is due when its counter would overflow, up
  to a tick for each call that scheduled it anew: `updtCount` gives the count
  one tick behind, so that a program that keeps writing registers delays its
  timer. The bound says how much, and that nothing else does. `NoMatchMissed`:
  whatever is scheduled anew, no match that was ahead is skipped. Both are for
  firmware that leaves the timer alone in the instruction by which the core
  wakes; where it does not, both fail, see below.
* `Implements` (of `QemuDevice`), `RunEventReturns`, `Answered`: see `Mailbox`;
  besides, `runEvent` always returns, and a request it waited for is answered
  unless the user pauses, the process ends or it reads an address that no module
  has (`doAction`, `qemudevice.cpp` 427-441, passes it over).
* `BytesKept`: bytes are sent and received in order, and a lost one is told by
  `RXFIFO_OVF`. `LevelArrives`: when QEMU has emptied the ring it knows the
  level, unless it was high at a reset of the device, or its last change did not
  fit the ring (`qemumodule.cpp:67`); and a change that does not fit is one in a
  crowded ring. `Transmits`: the driver's bytes are all sent, unless the change
  that should wake it did not fit.
* `Mutual`: a connection has two ends that know each other, with unique
  handles. `HostKnowsLink`: a host that has read its news knows of its
  controller's connection and of no other. `AclInOrder`: what one host sent and
  the other has not heard is in the rings and queues between them, once and in
  order. `CreditsAccounted`: a credit that is not there is a packet on its way
  to the host or back. `NoMissed`: only the end of a
  connection can leave an initiator waiting for an advertiser that it could
  connect to; then the code does not try again, see below. `ReliableKept`: the queue of events of a controller that
  does not advertise and initiate at once never is full, so that ignoring the
  result of `queueFrame` is harmless; the instance with a margin of 3 fails, the
  code's margin of 4 holds. `HostsServed`:
  every command is answered and every packet completed.

### Disagreements found

Three places where the code does not do what it says are runs that expect a
violation; `PROJECT.json` has each under "findings", with the line it
contradicts:

1. An edit that pauses and resumes while the circuit thread is leaving its
   frame makes the clock jump over events (`sim_resume`).
2. A second pulse of the reset pin while the first is being handled leaves a
   QEMU device without an event and without a restart (`qdev_reset`).
3. A compare register written with the present count while a tick is not over
   gets an event before the clock: the difference is unsigned and wraps
   (`timer_compare`).

TLC showed these too; they are described under "hazards", and the passing runs
leave out what provokes them:

* A breakpoint reached while `timerEvent` waits is lost, since it writes back
  the `m_state` it had saved (`simulator.cpp:133`). If the debugger's pause
  button was pressed when the breakpoint was being reached, `timerEvent` writes
  back `SIM_PAUSED`, but the breakpoint's `pauseSim` has kept `SIM_WAITING` as
  the state to resume to (`simulator.cpp:504`): the debugger's Run goes there,
  and the timer does nothing for ever.
* After RETI a level interrupt that its routine disabled is pending again
  (`mcuinterrupts.cpp:190`).
* A routine that clears its flag, is raised again and is then interrupted is in
  both lists at once (`mcuinterrupts.cpp:207`).
* A core that goes to sleep with an interrupt that is raised already is not
  woken by it (`mcuinterrupts.cpp:110`). The same line ANDs a mask that has one
  bit for each mode with the number of the mode, so that nothing wakes a core
  from idle, which is mode 0.
* `reset` clears `m_continuous` and not `m_autoClear` (`mcuinterrupts.cpp:28`):
  a level interrupt that is an edge interrupt after a reset keeps its flag when
  its routine returns, and is raised no more.
* A timer that is woken at once, one that does not sleep with its core, and one
  that goes back from the external clock are scheduled wrongly
  (`mcutimer.cpp` 81, 140; the comment at 157, "This will shedule or cancel
  events", promises a cancellation that does not happen). A timer that is
  stopped, has its counter written, sleeps and is started may never overflow:
  the new count can come to the time that `m_ovfTime` still has, and line 140
  then takes for granted the event that sleep has removed.
* The instruction that `eMcu::sleep` runs before it wakes the timers
  (`e_mcu.cpp:204`) finds them asleep. If it reads the counter, `updtCount` works
  the count out from the old `m_ovfTime`, as though the timer had run on: the
  overflow comes early by the time the core slept, and matches are skipped
  (`OnTime` and `NoMatchMissed` both fail for firmware that is `hasty`).
* A timer that is stopped counts the edges of its external clock all the same
  (`mcutimer.cpp:88`), past its top without an overflow; PIC's `T1CON` selects
  the clock and starts the timer with two bits (`OnTime` fails for firmware that
  is `halted`).
* The FIFOs of the serial port are never reset: `writeCR0` keeps bits 17 and 18
  in eight (`esp32usart.cpp:230`, against `src/README.md` 126-129).
* A Bluetooth initiator that was passed over, since it or the advertiser had a
  connection (`qemubt.cpp` 951, 956), is not tried again when that connection
  ends: `teardownConnection` (1023-1039) never calls `tryPendingConnection`, so
  that it waits for an advertiser that it could connect to. `NoMissed` names the
  end of a connection as the only way to get there; `bt` does get there.
* A Bluetooth command is checked when it is read and committed when its answer
  fits the ring, with what was found at the first moment (`qemubt.cpp:389`).
* The margin of `ReliableKept` can be used up. A controller that advertises
  while its own initiation is pending may be connected to and then connect,
  while its host does not read and its queue holds data up to
  `RELIABLE_DATA_EVENT_MAX`; the beginnings and ends of its connections fill the
  queue, and the result of the next `queueFrame`, for the end of a connection,
  is not looked at (`qemubt.cpp:850`). One peer that is both is enough to fill
  the queue.

### Bounds, and why they are enough

* Three elements (interrupts) are the least with a head, a middle and an end.
  Delays are below, at and beyond the end of a frame; delay 0 is an event in
  the running time step. Time up to 5 is more than two frames, and restarts
  begin again at 1. Elements that do not sleep are interchangeable, as are
  interrupts, hence the symmetry; neither of the runs checks liveness.
* `MaxLate` bounds by how much an overtaken event counts as late; later ones
  behave alike.
* Three priorities allow nesting to depth three.
* The timer counts 0 to 3, for 0 to 255 or 65535, in ticks of one or two
  instructions; 14 instructions are three periods of the fast clock and more
  than one of the slow. At most two calls schedule anew in a period
  (`MaxSlips`): what each one costs is in `OnTime`. The firmware accesses a
  register once per instruction, and the writes it makes are those a program
  makes on purpose: the top not below the count and only while the timer counts
  up, the count not while it counts down.
* `MaxNoProgress` is 2 for 100: one request within the limit, one at it.
  `MaxCalls` holds the calls of two pulses of the reset pin.
* FIFOs of 2 stand for 128 and have an empty, a full and a state between;
  `MaxLag` is 1, and the ring has the 4 places that this takes: it stays short
  of full with the port alone, and is full in a crowded session, where changes of
  the level are dropped. Only the driver runs crowded; the theorem covers any
  program. Four bytes fill FIFO and shift register and leave one behind.
* `Programs` fixes how many commands a Bluetooth host gives and among which it
  chooses; `MaxAcl` how many packets it sends. Three commands of the central
  are enough to connect, disconnect and connect again with data of the first
  connection still under way; with two of the peripheral they are enough for
  one to wait for the other, be connected to by it and be left waiting. A host
  switches a scan off and asks for its peer's features in the liveness run.
  The queues' limits are 1, 1 and 5 for the code's 48, 60 and 64: the margin
  between the last two is the code's, the rest only takes longer to fill.
  Handles wrap around after `MAX_HANDLE`, 6 for 3839.
* `CHECK_DEADLOCK FALSE` is set for `event_list`, the Bluetooth, timer, serial
  port and QEMU device runs, which stop where a bound stops them, or with a
  device that is off and nothing left to do.

### Fairness, and why the code justifies it

`Simulator`: `WF(Thread)`, the operating system runs the circuit thread;
`WF(GuiContinues)`, a handler that can go on does; `SF(Tick)`, Qt's timer fires
whenever the GUI thread comes back to its event loop often enough. Nothing is
assumed of the user.

`QemuDevice`: `WF(InRunEvent)`, the circuit thread goes on; `WF(EndFrame)`, a
frame ends; `SF(RunEvent)`, a frame runs the first event at least, so that a
device's event comes up when frames keep being run; `WF(TickGoesOn)` and
`SF(Tick)`, as in `Simulator`; weak fairness of the queued calls, which Qt's
event loop delivers; `WF(Complete)` and `WF(Boot)`, the process sees its answer
and starts. Nothing is assumed of the reset pin, the user, or that QEMU asks
for anything.

`Esp32Usart`: `WF(frameSent)`, the event of a frame comes; `WF(QemuTakesIrq)`,
QEMU reads the ring; `WF(DriverAccess)`, the driver's program runs when it is
not asleep.

`QemuBt`: `WF(Thread)`, as above; `SF(RunTick(c))`, QEMU's periodic event calls
`runTick` of every module (`src/docs/esp-wireless-support.md` says "`QemuBt`
also retries queued ring work on periodic simulation events");
`WF(HostReads(c))` and `SF(HostReturns(c))`, the firmware reads its ring and
returns packets. Without the last two a host could refuse to read for ever, and
no controller can help that.

### Sessions and programs that are left out of the passing runs

* The pause button together with edits that do not check the state: after both
  the power button says Off while the simulation runs, and starts a second
  frame beside the first. F5 does the same at any time
  (`mainwindow.cpp:121`). From there on two threads delete and use the same
  nodes, and there is no state to model.
* Delays of 0 in `Simulator`: the inner loop of `runCircuit` does not look at
  `m_state`, so elements that keep asking for the present moment block the GUI.
* The pause button together with a debugger and a test: a test that ends
  switches off behind the debugger's back (`testunit.cpp:93`); when the circuit
  is switched on again with the power button, a breakpoint pauses it, and from
  there on it is as with edits.
* Programs that both nest and touch their flags, or that use level interrupts
  and nest or touch.
* Timers of programs that nap, idle, use the timer in the instruction by which
  the core wakes, select the external clock for a timer that is stopped or stop
  it with that clock, go back to the internal clock, or stop, write and sleep:
  `OnTime` fails for each (above). It also fails where an
  external clock is selected within a tick of several instructions, since the
  edges then make up for the part of it that was over; the bound of `OnTime` has
  no room for that.
  The theorems of `McuTimerProofs` hold for all other programs.
* QEMU devices under all combinations of gaps, pauses, resets and crashes: the
  run has three of them, the theorem `KeepsPromise` all.
* Bluetooth hosts that are central and peripheral at the same time for longer
  than the few commands of `bt`, that set up flow control while they can be
  connected to, and more than two controllers:
  see the hazards at `qemubt.cpp` 389, 719 and 850. The theorems `TypeCorrect`
  and `ConnectionsMutual` hold for all of them, `CreditsKept` for those whose
  flow control is set up in time.

## The proofs

**`EventQueueProofs`**, for any set of elements and any set of times that
holds 1 and not 0 (`TimeAssumption`): `TypeCorrect`; `NoneLostNoneLeft`
(`ExactlyOnce`), every scheduled event is in the queue exactly once and nothing
else is; `DeliveredInOrder` (`InOrderOfTime`); `TimeForward` (`ClockForward`).

`ExactlyOnce` is not inductive: whether an element may be appended depends on
`due`, whether deleting it keeps the order on the order before, and whether the
clock may move on the queue's head being the least. The inductive invariant is
`IInv`, the conjunction of `TypeOK`, `Sorted`, `Distinct`, `QueuedIffDue` and
`NothingLate`. `InitIInv` establishes it and `NextIInv` shows that every step
preserves it, with a lemma for each operation that changes the queue
(`ScheduleIInv`, `RemoveIInv`). They rest on two lemmas about sequences:
inserting behind everything earlier keeps a sorted sequence sorted and adds
exactly the element (`InsertInOrder`); deleting an element keeps the others
(`DeleteInOrder`).

**`EventListProofs`**, for any elements, sleepers among them, delays and frames
(`ListAssumption`): `TypeCorrect`; `ListStaysIntact` (`ListIntact`); and
`ListImplementsQueue` (`Implements`), by which all that is proved of
`EventQueue` is true of the linked list. `ListIntact` speaks of what a walk from
`m_firstEvent` meets, which no step can be reasoned about by itself. The
inductive invariant is that some sequence is spelled by the pointers and holds
exactly the elements with an event, in order (`Held`), with the types and where a frame can be (`FrameOpen`); late are only the
elements of `overtaken` (`NoneLate`). Each operation does to
that sequence what `EventQueue` does to its queue (`Simulated`), and the lemmas
of `EventQueueProofs` about inserting and deleting are used again there. No case
needs to know that elements cooperate: every callback may add, cancel, pause and
resume any event.

`EventQueueProofs` also has the lemmas about lists threaded through their
elements that `EventListProofs` and `McuInterruptsProofs` share, and take from
there as `Links`: what linking an element in
(`InsertLinks`, `PutFirst`) and unlinking one (`DeleteLinks`, `DropFirst`) do to
the sequence that the pointers spell, that pointers of elements outside it do
not matter (`Untouched`), and that a walk along the pointers, a recursive
function, meets the sequence and nothing else (`WalkMeets`, `WalkElems`). The
last one is an induction, done by looking at the least place where the two would
differ (`LeastNatural`).

**`SimulatorProofs`**, for any delays, frames and sessions
(`SimulatorAssumption`), in three parts.

* `GuiAlone` (`GuiExclusive`), `StopIsClean` (`StopClean`) and
  `DebuggerContinues` (`DebuggerCanContinue`), for sessions
  that do not have both the pause button and unguarded edits, or the pause
  button, a debugger and a test (`Guarded`; the sessions left out, above, say
  why). None is inductive. `IInv`
  adds that without its timer the simulator has no thread, but one that is
  being stopped (`ThreadTimed`); where in the GUI's handlers the timer is on
  (`TimerPlace`); that with a timer `m_state`, and what `timerEvent` and
  `resumeSim` will write to it, is not stopped (`TimerState`); that the power
  button shows Off beside a timer only when the pause button paused the
  simulation (`IconOff`), which is where `Guarded` is needed; and where the
  debugger can be (`DebuggerPlace`). For the debugger `DInv` adds that a program
  which it lets run is paused only on the way to telling it so, or by an edit
  (`PausedAndActive`), and where `SIM_WAITING` may be kept as the state to write
  back or to resume to (`NotLeftWaiting`).
* `ClockWaits` (`NothingOvertaken`) and `SolvedFirst` (`EventsOnSolved`), for
  all sessions: `resumeSim` on a frame that is still ending is the only way in
  which the clock overtakes an event, or one runs on a circuit that is not
  solved. `CInv` says that a thread that leaves its frame while `m_state` is
  running has done all events of it, and that the loop runs on a solved
  circuit; only `m_state` becoming running behind the thread's back disturbs
  it, and the proof shows that nothing but `resumeSim` does that.
* `TypeCorrect`. The rest of a frame is bounded only because an event that is
  behind the clock is taken first (`Clock`).

In sessions that are not `Guarded` a second frame may start beside the first; of
that the model, which has one circuit thread, says nothing.

**`McuInterruptsProofs`**, for any interrupts, priorities and sleep modes
(`InterruptsAssumption`), and for programs of tame habits (`AllTame`):
`TypeCorrect`, `ListsStaySeparate` (`ListsSeparate`), `NoneForgotten`
(`PendingIffDue`), `PriorityDecides` (`ServedByPriority`), `NoneSleptThrough`
(`SleepsOnlyIdle`) and the action property `ServiceStaysAStack`
(`ServiceIsAStack`). The inductive invariant names two sequences that
`m_pending` and `m_running` spell through the one link of each interrupt, and
says what is in them (`Waiting`), in which order (`Sorted`), and what the
program's habits keep true (`Kept`). The two are disjoint, and `m_active` is not
in the second one (`Lists`); this is what every operation relies on when it
writes the link, and what the programs left out would break:

* nesting and touching: a routine clears its own flag, is raised again, and is
  pending when it is interrupted and goes to `m_running`, with one link for both
  lists;
* nesting and level interrupts: a level that falls and rises does the same to
  the routine in service; and one that is still there when its routine returns
  into an interrupted one is not pending again (`mcuinterrupts.cpp:184`);
* level interrupts and touching: RETI puts one back that its routine disabled;
* level interrupts and changed priorities: a routine whose level rose again
  while it ran is pending; RETI puts it in a second time, when its priority is
  higher now, since the search for it ends at the first lower one;
* leaving a flag set: the interrupt is raised, and not pending after RETI.

All programs of the run `ints` are tame, and each habit but `leave` is in some
tame program.

**`McuTimerProofs`**, for a counter of any width, any prescaler and any bounds
(`McuTimerAssumption`), and for firmware of tame habits (`AllTame`):
`TypesKept` (`TypeOK`) and `OverflowsOnTime` (`OnTime`); and where the compare
unit has no prescaler before it (`AllUnitTame`), `MatchesAhead` (`MatchAhead`)
and the action property `NoMatchIsMissed` (`NoMatchMissed`). All programs of the
run `timer` are tame in both senses; those that are not are the ones above.

`OnTime` compares an event in the list with the time that is left, but each
operation starts from the count, which was last written when somebody asked for
it. The inductive invariant `IInv` therefore compares three times. `Rest` is the
time that the count, however old, stands for. While the timer counts, the event
in the list is within the bound of `OnTime`; if `updtCount` cannot tell the
count from it, which is so in the first tick of a period, `Rest` is no less
(`Scheduled`). While it does not, `Rest` is within the bound of one more call
(`Kept`). With an external clock it is the edges to come (`Edges`). What
`updtCount` does to them is one lemma for all operations that call it
(`Counted`: the count stands for the time that is left, or for a tick more), and
what `sheduleEvents` does is another (`Rescheduled`). That one needs that
`m_ovfTime` is not by chance what it will be while the event is gone: `Asleep`
and `Stopped` bound it from above while the core sleeps, or runs before the timer
does, and while the timer is stopped, and this is where habits that are not tame break the argument. For the
unit, `Ahead` says that a match which is still expected is not behind the count,
and no further behind the overflow's event than its count is below the top.

**`QemuDeviceProofs`**, for any values, numbers of requests and calls, and
sessions (`QemuDeviceAssumption`, `NoRequestAssumption`): `TypeCorrect`, and
`KeepsPromise`, that `QemuDevice` implements `Mailbox`. Each action is mapped
to one of `Mailbox` or a stutter. For that one has to know that what starts the
process is the first of the queued calls (`StartedByCall`); that what `runEvent`
finds in the arena, or leaves for a module, is the request that QEMU waits for,
not executed (`FoundIsRequest`, `LeftIsRequest`); that a request it was waiting
for, if a module has the address, stays there until it is executed
(`WatchedIsKept`); and that the arena holds
no answer before the question (`NoEarlyAnswer`).

**`Esp32UsartProofs`**, for FIFOs, thresholds, lag and ring of any size, crowded
or not, also one that has no room for the port's own events
(`Esp32UsartAssumption`): `LevelAlwaysArrives` (`LevelArrives`), `TypeCorrect`
and `NoByteLost` (`BytesKept`). That a change of the level is the newest event of
the port in the ring, or `dropped`, is `NewestRight`. That nothing is dropped in
a ring that is not crowded and has room for two events more than `MaxLag` (the
code's has 255) is counted by `RingRoom`: frames and bytes can only set flags, so
that between two accesses of the firmware the level rises at most once.
`FlagsTrue` and `SenderBusy` say what the flags are.
For `BytesKept` `KInv` adds where each byte is that was written (`SendKept`) or
has arrived (`ReceiveKept`), and that what has been lost was told or is in the
overflow flag.

**`QemuBtProofs`**, for any number of controllers, programs of their hosts and
sizes of rings and queues (`QemuBtAssumption`): `TypeCorrect`, and
`ConnectionsMutual` (`Mutual`). What makes them hard is that `pumpTx` and
`publishAdvertisement` call the pumps of other controllers, which call back.
The inductive invariant `IInv` adds to both a discipline of the calls
(`StackRight`): at most one call on the stack works for a controller, and
`m_pumping` says that it does (`Alone`); and what a call has found before it
called others is still so when they return (`Sure`): its controller and those
it is still to call exist, the command it read is still first in the ring, and
the response it made is there. Given that, each step writes the connection
of two controllers together or of none. There is one lemma for each action;
they rest on what the model's operators do to the stack (`Begins`, `KeepsOn`,
`Ends`, `Returns`), to connections (`Joined`, `Parted`, `Detached`), to handles
(`Allocated`) and to queues (`Queued`, `Requeued`, `Dropped`).

`CreditsKept` (`CreditsAccounted`) says that nothing but a late set-up of flow
control breaks the account of credits. A Host Buffer Size command is checked when
it is read and committed when its response fits the ring; if a packet comes in
between, the credits start anew with that packet under way, and `CreditsAccounted`
fails for a host whose program does that (the hazard at line 389). The theorem is
therefore about behaviours whose set-up is in time: with `[][Timely]_vars`, Host
Buffer Size under flow control is committed with nothing outstanding, and flow
control is turned on by a host that gives packets back, with none under way.
Behaviours of `bt` are such: its peripheral says Host Buffer Size again, and if
that were committed late the run would find the sum wrong. `CreditsSettled` has no
such condition: it is about all programs of hosts that have set flow control up
before the start (`Settled`). The inductive invariant `AInv` adds to the account
of every controller, on the medium or not (`Account`), that a host gives packets
back one at a time and asks only for what is in its program (`Modest`), and that
no answer to a reset is on its way to a host under flow control (`Unreset`), which
would make it forget what it holds. `Moved` is the step of the account: a packet
changes its place. What `Count` and `SumFunction` make of changed queues and
functions is proved from their definitions (`CountConcat`, `SumChanged`).

Only model-checked:

* of `QemuBt`: `HostKnowsLink`, `ReliableKept`, `NoMissed` and `AclInOrder`. They
  are promises to the hosts of the runs, and not all are true of every number of
  controllers and every program that `QemuBtProofs` is about (the hazards at
  `qemubt.cpp` 389, 719 and 850): for a theorem the assumptions under which they
  hold have to be stated first.
* Out of the prover's reach: liveness under fairness (`GuiComesBack`,
  `FramesGoOn`, `RunEventReturns`, `Answered`, `Transmits`, `HostsServed`) and
  `ENABLED`; the induction theorems of the library, which cannot be
  instantiated, so that an induction has to be put as a least counterexample,
  as in `LeastNatural`; and anything in a module with a `RECURSIVE` operator, of
  which there is none here.

## What is not modelled

The repository is some 180 thousand lines. Most of them are a vendored script
engine (`angel/`), the drawing and dialogs of the user interface, several
hundred components and a dozen instruction cores. What is modelled is a third
of the lines of the files it is in, and about a hundredth of the whole; no
model could honestly stand for much more. In detail:

* Voltages and currents: the matrix and the components are floating-point
  arithmetic, best tested numerically.
* Instruction sets: large, sequential, and covered by test programs.
* Drawing, dialogs, files, XML, compilers and scripts: they reach the simulator
  as edits and button presses, which `Simulator` has.
* The code of QEMU and of guest firmware, which is not in this repository.
* In the modules themselves: overflow of the 64-bit clock (213 days of simulated
  time), the data races on components' own fields during edits, event masks and
  advertising parameters of the Bluetooth controllers; the other modules of the
  ESP32 and STM32 devices; modes of the timers beyond counting up and counting
  up and down; the serial port's baud rates and parity.

## Plan

In this order, each with its run, and each written so that it can be proved
about: constants with named assumptions, invariants as conjunctions of named
parts, no `RECURSIVE`.

1. `QemuBtProofs`: `HostKnowsLink` and `AclInOrder` under assumptions on the
   programs.
2. `McuSleep` with `EventList`'s `PauseEvents` and `ResumeEvents`: what a
   peripheral is owed on waking; a hazard waits for it (`e-element.cpp:48`).
3. `IoPin`: the slope machine; a slope ends at the last level asked for.
4. `TwiModule`: a master and a slave on one bus, implementing a byte channel.
5. `Solver`: the lists of changed nodes, composed with the event loop.
6. `BatchTest`: the chain of circuits, composed with `Simulator`.

Each violation run may be replaced by one for a module still to come: the
finding then moves to the hazards.
