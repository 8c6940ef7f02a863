----------------------------- MODULE QemuDevice -----------------------------
(***************************************************************************)
(* A simulated device whose firmware runs in a QEMU process                *)
(* (qemudevice.cpp, qemumodule.cpp), and the memory they share             *)
(* (qemuarena.h).                                                          *)
(*                                                                         *)
(* Four actors touch that memory without a lock.  The QEMU process posts a *)
(* request and waits until it is done.  The circuit thread runs the        *)
(* device's event, runEvent, which waits for a request and executes it.    *)
(* The circuit, on the same thread, moves the reset pin.  The GUI thread   *)
(* runs the timer, pauses the simulation, and gets the calls by which the  *)
(* reset pin has the process killed and started again.                     *)
(*                                                                         *)
(* A step of a thread is what it does from one access to shared state to   *)
(* the next.  Simulated time is left out but for the question whether a    *)
(* request is due now or later.  The process is not in the repository:     *)
(* its actions are what runEvent and readRegister rely on.                 *)
(***************************************************************************)
EXTENDS Naturals, Sequences

CONSTANTS
    Values,         \* that are written to a register
    NoRequest,
    MaxNoProgress,  \* requests that are executed at one moment (100)
    MaxCalls,       \* bound on the calls that wait for the GUI thread
    Sessions        \* sets of Habits

(***************************************************************************)
(* "gap"    QEMU posts a request while runEvent does not wait for one      *)
(* "pause"  the user pauses and resumes the simulation                     *)
(* "reset"  the circuit moves the reset pin                                *)
(* "crash"  the QEMU process may end by itself, or not start in time       *)
(***************************************************************************)
Habits == {"gap", "pause", "reset", "crash"}

ASSUME QemuDeviceAssumption ==
    /\ Values \subseteq Nat \ {0}
    /\ {MaxNoProgress, MaxCalls} \subseteq Nat \ {0}
    /\ Sessions \subseteq SUBSET Habits

VARIABLES
    session,
    \* the arena; simuTime is 0 or a time, simuAction what to do then
    simuTime, simuAction, qemuAction, regAddr, regData, running,
    \* the device
    m_eventModule,      \* what doAction left for a module to do, or NoRequest
    m_resetRequested,
    m_ioMem,            \* one register of a module
    scheduled,          \* the device's event is in the event list
    \* the circuit thread
    thread,             \* idle; in runEvent, about to clear or reading simuTime
    noProgress,
    frame,              \* a frame is being run
    pin,                \* the reset pin is high
    \* the GUI thread
    gui,                \* idle; in timerEvent waiting; in stamp, starting QEMU
                        \* or behind its addEvent
    m_state,
    calls,              \* queued by voltChanged
    \* the QEMU process
    process,
    request, watched, executed

arena == <<simuTime, simuAction, qemuAction, regAddr, regData, running>>
device == <<m_eventModule, m_resetRequested, m_ioMem, scheduled>>
circuit == <<thread, noProgress, frame, pin>>
control == <<gui, m_state, calls>>
qemu == <<process, request, watched, executed>>
vars == <<session, arena, device, circuit, control, qemu>>

\* An address is that of a register of a module, or of none.
Addresses == {"register", "nowhere"}

Requests == [op : {"event", "time"}, value : {0}, address : {"nowhere"}]
            \cup [op : {"read"}, value : {0}, address : Addresses]
            \cup [op : {"write"}, value : Values, address : Addresses]

ASSUME NoRequestAssumption == NoRequest \notin Requests

TypeOK ==
    /\ session \in Sessions
    /\ simuTime \in {0, 1}
    /\ simuAction \in {"none", "read", "write", "event"}
    /\ qemuAction \in {"none", "read"}
    /\ regAddr \in Addresses
    /\ regData \in Values \cup {0}
    /\ running \in BOOLEAN
    /\ m_eventModule \in {r \in Requests : r.op \in {"read", "write"}} \cup {NoRequest}
    /\ m_resetRequested \in BOOLEAN
    /\ m_ioMem \in Values \cup {0}
    /\ scheduled \in BOOLEAN
    /\ thread \in {"idle", "clear", "poll"}
    /\ noProgress \in 0 .. MaxNoProgress - 1
    /\ frame \in BOOLEAN
    /\ pin \in BOOLEAN
    /\ gui \in {"idle", "waiting", "starting", "added"}
    /\ m_state \in {"paused", "waiting", "running"}
    /\ calls \in Seq({"kill", "restart"})
    /\ process \in {"off", "boot", "up"}
    /\ request \in Requests \cup {NoRequest}
    /\ watched \in BOOLEAN
    /\ executed \in BOOLEAN

\* The simulation has been started: stamp found QEMU running and added the event.
Init ==
    /\ session \in Sessions
    /\ simuTime = 0
    /\ simuAction = "none"
    /\ qemuAction = "none"
    /\ regAddr = "nowhere"
    /\ regData = 0
    /\ running = TRUE
    /\ m_eventModule = NoRequest
    /\ m_resetRequested = FALSE
    /\ m_ioMem = 0
    /\ scheduled = TRUE
    /\ thread = "idle"
    /\ noProgress = 0
    /\ frame = FALSE
    /\ pin = TRUE
    /\ gui = "idle"
    /\ m_state = "running"
    /\ calls = <<>>
    /\ process = "up"
    /\ request = NoRequest
    /\ watched = FALSE
    /\ executed = FALSE

-----------------------------------------------------------------------------
\* The QEMU process.

\* It posts a request when the memory is free.  simuTime is written last.
Post(r) ==
    /\ process = "up"
    /\ request = NoRequest
    /\ simuTime = 0
    /\ thread = "poll" \/ "gap" \in session
    /\ request' = r
    /\ watched' = (thread = "poll")
    /\ executed' = FALSE
    /\ simuTime' = 1
    /\ simuAction' = IF r.op = "time" THEN "none" ELSE r.op
    /\ qemuAction' = "none"
    /\ regAddr' = IF r.op \in {"read", "write"} THEN r.address ELSE regAddr
    /\ regData' = r.value
    /\ UNCHANGED <<session, running, device, circuit, control, process>>

\* It goes on when simuTime is 0 again, or when what it reads is there.
Complete ==
    /\ process = "up"
    /\ request # NoRequest
    /\ IF request.op = "read" THEN qemuAction = "read" ELSE simuTime = 0
    /\ request' = NoRequest
    /\ UNCHANGED <<session, arena, device, circuit, control, process, watched, executed>>

\* It comes up and says so.
Boot ==
    /\ process = "boot"
    /\ process' = "up"
    /\ running' = TRUE
    /\ UNCHANGED <<session, simuTime, simuAction, qemuAction, regAddr, regData, device, circuit, control,
                   request, watched, executed>>

\* It ends when it is told to, or by itself.
Exit ==
    /\ process # "off"
    /\ (process = "up" /\ ~running) \/ "crash" \in session
    /\ process' = "off"
    /\ UNCHANGED <<session, arena, device, circuit, control, request, watched, executed>>

-----------------------------------------------------------------------------
\* The circuit thread.

\* runModuleEvent with what doAction left in module: runAction of the module,
\* which reads or writes its register.
runModuleEvent(module) ==
    /\ m_eventModule' = NoRequest
    /\ executed' = (executed \/ module # NoRequest)
    /\ m_ioMem' = IF module # NoRequest /\ module.op = "write" THEN module.value ELSE m_ioMem
    /\ IF module # NoRequest /\ module.op = "read"
         THEN qemuAction' = "read" /\ regData' = m_ioMem
         ELSE UNCHANGED <<qemuAction, regData>>

\* The device's event is the next in the list: runEvent begins.
RunEvent ==
    /\ frame
    /\ thread = "idle"
    /\ scheduled
    /\ scheduled' = FALSE
    /\ runModuleEvent(m_eventModule)
    /\ thread' = "clear"
    /\ noProgress' = 0
    /\ UNCHANGED <<session, simuTime, simuAction, regAddr, running, m_resetRequested, frame, pin,
                   control, process, request, watched>>

\* What was done is acknowledged; from here on runEvent waits for a request.
Clear ==
    /\ thread = "clear"
    /\ simuTime' = 0
    /\ thread' = "poll"
    /\ UNCHANGED <<session, simuAction, qemuAction, regAddr, regData, running, device, noProgress, frame,
                   pin, control, qemu>>

\* MUTANT of GiveUp: the simulator calls again when it runs.
GiveUpForGood ==
    /\ thread = "poll"
    /\ simuTime = 0
    /\ thread' = "idle"
    /\ scheduled' = (scheduled \/ (m_state = "running" /\ ~m_resetRequested))
    /\ UNCHANGED <<session, arena, m_eventModule, m_resetRequested, m_ioMem, noProgress, frame,
                   pin, control, qemu>>

\* No request comes: runEvent returns because the simulation is to stop for a
\* while, because the device is being reset, or because a second is over.  But
\* for a reset it asks to be called again.
GiveUp ==
    /\ thread = "poll"
    /\ simuTime = 0
    /\ thread' = "idle"
    /\ scheduled' = (scheduled \/ m_state # "running" \/ ~m_resetRequested)
    /\ UNCHANGED <<session, arena, m_eventModule, m_resetRequested, m_ioMem, noProgress, frame,
                   pin, control, qemu>>

\* MUTANT of limit: however many requests come without time going on.
noLimit == FALSE

\* So many requests at one moment that the simulation has to go on.
limit == noProgress + 1 >= MaxNoProgress

\* doAction: the module of the address gets the request; if there is none, the
\* request is passed over.
doAction ==
    IF regAddr = "nowhere" THEN m_eventModule
    ELSE [op |-> simuAction, value |-> IF simuAction = "write" THEN regData ELSE 0,
          address |-> regAddr]

\* A request is found that is due now.  It is executed on the spot, and the
\* next one awaited, at most MaxNoProgress times.
TakeNow ==
    /\ thread = "poll"
    /\ simuTime # 0
    /\ simuAction # "none"
    /\ simuAction' = "none"
    /\ IF simuAction = "event"
         THEN executed' = TRUE /\ UNCHANGED <<m_eventModule, m_ioMem, qemuAction, regData>>
         ELSE runModuleEvent(doAction)
    /\ thread' = IF limit THEN "idle" ELSE "clear"
    /\ scheduled' = (scheduled \/ limit)
    /\ noProgress' = IF limit THEN 0 ELSE (noProgress + 1) % MaxNoProgress
    /\ UNCHANGED <<session, simuTime, regAddr, running, m_resetRequested, frame, pin, control,
                   process, request, watched>>

\* MUTANT of forModule: whatever the request is.
forAny == TRUE

\* The request is for a module, not for the device itself.
forModule == simuAction \in {"read", "write"}

\* A request is found that is due later, or there is nothing to do: the device's
\* event is scheduled, which executes what doAction left, and acknowledges it.
\* The periodic work is done at once.
TakeLater ==
    /\ thread = "poll"
    /\ simuTime # 0
    /\ simuAction' = "none"
    /\ executed' = (executed \/ simuAction \in {"event", "none"})
    /\ m_eventModule' = IF forModule THEN doAction ELSE m_eventModule
    /\ thread' = "idle"
    /\ scheduled' = TRUE
    /\ noProgress' = 0
    /\ UNCHANGED <<session, simuTime, qemuAction, regAddr, regData, running, m_resetRequested, m_ioMem,
                   frame, pin, control, process, request, watched>>

\* The frame is over, or broken off.
EndFrame ==
    /\ frame
    /\ thread = "idle"
    /\ frame' = FALSE
    /\ UNCHANGED <<session, arena, device, thread, noProgress, pin, control, qemu>>

\* The circuit pulls the reset pin: voltChanged.
PinLow ==
    /\ "reset" \in session
    /\ frame /\ thread = "idle"
    /\ pin
    /\ Len(calls) < MaxCalls
    /\ pin' = FALSE
    /\ m_resetRequested' = TRUE
    /\ running' = FALSE
    /\ calls' = Append(calls, "kill")
    /\ UNCHANGED <<session, simuTime, simuAction, qemuAction, regAddr, regData, m_eventModule,
                   m_ioMem, scheduled, thread, noProgress, frame, gui, m_state, qemu>>

\* The circuit releases the reset pin: voltChanged.
PinHigh ==
    /\ "reset" \in session
    /\ frame /\ thread = "idle"
    /\ ~pin
    /\ Len(calls) < MaxCalls
    /\ pin' = TRUE
    /\ calls' = IF m_resetRequested THEN Append(calls, "restart") ELSE calls
    /\ UNCHANGED <<session, arena, device, thread, noProgress, frame, gui, m_state, qemu>>

-----------------------------------------------------------------------------
\* The GUI thread.

\* timerEvent starts a frame; it waits for the last one to end.
Tick ==
    /\ gui = "idle"
    /\ m_state = "running"
    /\ IF frame THEN m_state' = "waiting" /\ gui' = "waiting" /\ UNCHANGED frame
                ELSE frame' = TRUE /\ UNCHANGED <<gui, m_state>>
    /\ UNCHANGED <<session, arena, device, thread, noProgress, pin, calls, qemu>>

TickGoesOn ==
    /\ gui = "waiting"
    /\ ~frame
    /\ gui' = "idle"
    /\ m_state' = "running"
    /\ frame' = TRUE
    /\ UNCHANGED <<session, arena, device, thread, noProgress, pin, calls, qemu>>

\* The user.
PauseOrResume ==
    /\ "pause" \in session
    /\ gui = "idle"
    /\ m_state' = IF m_state = "running" THEN "paused" ELSE "running"
    /\ UNCHANGED <<session, arena, device, circuit, gui, calls, qemu>>

\* The call that voltChanged queued when the pin went low.
Kill ==
    /\ gui = "idle"
    /\ calls # <<>> /\ Head(calls) = "kill"
    /\ calls' = Tail(calls)
    /\ IF process = "off"
         THEN UNCHANGED <<process, scheduled>>
         ELSE process' = "off" /\ scheduled' = FALSE
    /\ UNCHANGED <<session, arena, m_eventModule, m_resetRequested, m_ioMem, circuit, gui, m_state,
                   request, watched, executed>>

\* MUTANT of Restart: the module keeps what it was to do.
RestartKeeping ==
    /\ gui = "idle"
    /\ calls # <<>> /\ Head(calls) = "restart"
    /\ gui' = "starting"
    /\ scheduled' = FALSE
    /\ simuTime' = 0 /\ simuAction' = "none" /\ qemuAction' = "none"
    /\ regAddr' = "nowhere" /\ regData' = 0
    /\ running' = FALSE
    /\ process' = "boot"
    /\ request' = NoRequest
    /\ UNCHANGED <<session, m_eventModule, m_resetRequested, m_ioMem, circuit, m_state, calls,
                   watched, executed>>

\* The call that voltChanged queued when the pin went high: stamp clears the
\* arena and starts the process.
Restart ==
    /\ gui = "idle"
    /\ calls # <<>> /\ Head(calls) = "restart"
    /\ gui' = "starting"
    /\ scheduled' = FALSE
    /\ m_eventModule' = NoRequest
    /\ simuTime' = 0 /\ simuAction' = "none" /\ qemuAction' = "none"
    /\ regAddr' = "nowhere" /\ regData' = 0
    /\ running' = FALSE
    /\ process' = "boot"
    /\ request' = NoRequest
    /\ UNCHANGED <<session, m_resetRequested, m_ioMem, circuit, m_state, calls, watched, executed>>

\* stamp finds the process running and adds the event,
Started ==
    /\ gui = "starting"
    /\ running
    /\ gui' = "added"
    /\ scheduled' = TRUE
    /\ UNCHANGED <<session, arena, m_eventModule, m_resetRequested, m_ioMem, circuit, m_state,
                   calls, qemu>>

\* or waits five seconds in vain;
StartTimeout ==
    /\ gui = "starting"
    /\ ~running
    /\ process # "boot" \/ "crash" \in session
    /\ gui' = "idle"
    /\ calls' = Tail(calls)
    /\ m_resetRequested' = FALSE
    /\ UNCHANGED <<session, arena, m_eventModule, m_ioMem, scheduled, circuit, m_state, qemu>>

\* behind it the reset is over.
ResetDone ==
    /\ gui = "added"
    /\ gui' = "idle"
    /\ calls' = Tail(calls)
    /\ m_resetRequested' = FALSE
    /\ UNCHANGED <<session, arena, m_eventModule, m_ioMem, scheduled, circuit, m_state, qemu>>

-----------------------------------------------------------------------------

InRunEvent == Clear \/ GiveUp \/ TakeNow \/ TakeLater
Circuit == RunEvent \/ InRunEvent \/ EndFrame
Gui == Tick \/ TickGoesOn \/ Kill \/ Restart \/ Started \/ StartTimeout \/ ResetDone
Qemu == Complete \/ Boot \/ Exit

Next ==
    \/ Circuit \/ PinLow \/ PinHigh
    \/ Gui \/ PauseOrResume
    \/ Qemu \/ \E r \in Requests : Post(r)

\* The circuit thread, once it has been called, goes on; a frame always runs at
\* least the next event, so that the device's turn comes; the GUI thread comes
\* back to its calls and its timer; QEMU sees that it was answered.
Fairness ==
    /\ WF_vars(InRunEvent)
    /\ WF_vars(EndFrame)
    /\ SF_vars(RunEvent)
    /\ WF_vars(TickGoesOn)
    /\ SF_vars(Tick)
    /\ WF_vars(Kill \/ Restart \/ Started \/ StartTimeout \/ ResetDone)
    /\ WF_vars(Complete)
    /\ WF_vars(Boot)

Spec == Init /\ [][Next]_vars /\ Fairness

-----------------------------------------------------------------------------

\* The device keeps what Mailbox promises: a request is executed once, before
\* QEMU takes it for done; a read gives what was written last; only a request
\* for an address of no module, or one that was posted while runEvent was not
\* waiting and is wiped by its next simuTime = 0, is taken for done without; and
\* nothing that an earlier process asked for is done once another was started.
Promise == INSTANCE Mailbox WITH
    register <- m_ioMem,
    answer <- IF request # NoRequest /\ request.op = "read" /\ executed THEN regData ELSE 0

Implements == Promise!Spec

\* runEvent returns, however many requests there are and whether or not one
\* comes: the circuit thread is never stuck in it, nor the GUI thread behind it.
RunEventReturns == []<>(thread = "idle")

\* A request is completed, unless the simulation is paused or the process ends.
\* This is not so for a read that runEvent was not waiting for, or of an address
\* that no module has: its answer is awaited for ever.  Behind a reset only what
\* runEvent waits for is certain.
Answered ==
    /\ request # NoRequest
    /\ request.op = "read" => request.address # "nowhere"
    /\ watched \/ (request.op # "read" /\ "reset" \notin session)
    ~> request = NoRequest \/ m_state = "paused" \/ process # "up"

\* When the reset is over the device runs: it has an event, or is in it
\* (qemudevice.cpp: "Reset in progress: stamp() will reschedule").
Rescheduled ==
    pin /\ calls = <<>> /\ gui = "idle" /\ thread = "idle" => scheduled

=============================================================================
