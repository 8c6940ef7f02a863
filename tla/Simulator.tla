----------------------------- MODULE Simulator -----------------------------
(***************************************************************************)
(* How the GUI thread and the circuit thread share the simulator           *)
(* (simulator.cpp, circuitwidget.cpp, editorwindow.cpp).                   *)
(*                                                                         *)
(* Each timer tick the GUI thread waits for what is left of the last       *)
(* frame, updates the screen and starts the circuit thread on the next     *)
(* frame.  The two talk through m_state alone: a volatile field, with no   *)
(* lock and no atomic update, which both write and the circuit thread      *)
(* looks at between two time steps.  GUI handlers                          *)
(* (buttons, edits of properties, the debugger) run between two ticks,     *)
(* beside the circuit thread.                                              *)
(*                                                                         *)
(* One step of the circuit thread is what it does between two accesses to  *)
(* m_state or to the clock.  A GUI handler is one step, except where it    *)
(* waits or leaves m_state at a value for others to see.                   *)
(*                                                                         *)
(* Times are relative to m_circTime, so that nothing bounds the run: next  *)
(* is the distance to the first event, left to endRun.                     *)
(***************************************************************************)
EXTENDS Integers

CONSTANTS
    Usages,     \* what the user does with the program: sets of inputs
    Delays,     \* how far ahead elements ask for events
    m_psPF,     \* simulated time per frame
    MaxLate     \* BOUND: an event overtaken by the clock is counted as at most this late

Inputs == {"power", "pause", "edit", "guardedEdit", "test", "debug", "dbgPause"}

ASSUME SimulatorAssumption ==
    /\ Usages \subseteq SUBSET Inputs
    /\ Delays \subseteq Nat \ {0}
    /\ m_psPF \in Nat \ {0}
    /\ MaxLate \in Nat

VARIABLES
    usage,          \* the inputs of this session
    m_state,
    m_oldState,     \* what resumeSim goes back to
    m_timerOn,      \* m_timerId # 0
    m_converged,
    gui,            \* where the GUI thread is
    saved,          \* timerEvent's local copy of m_state
    thread,         \* where the circuit thread is, "none" if its future is finished
    next,           \* first event - m_circTime, NoEvent if the list is empty
    left,           \* endRun - m_circTime
    icon,           \* what the power button shows
    pauseEnabled,   \* pauseSimAct is enabled
    dbg,            \* EditorWindow's own m_state
    late,           \* HISTORY: resumeSim was called before the thread had ended
    crossed         \* HISTORY: the debugger's pause button met a breakpoint being reached

simVars == <<m_state, m_oldState>>
guiVars == <<gui, saved, m_timerOn, icon, pauseEnabled>>
threadVars == <<thread, next, left, m_converged>>
past == <<late, crossed>>
vars == <<usage, simVars, guiVars, threadVars, dbg, past>>

\* simState_t; SIM_ERROR and SIM_DEBUG are never assigned.
SIM_STOPPED  == 0
SIM_STARTING == 2
SIM_PAUSED   == 3
SIM_WAITING  == 4
SIM_RUNNING  == 5
simState_t == {SIM_STOPPED, SIM_STARTING, SIM_PAUSED, SIM_WAITING, SIM_RUNNING}

NoEvent == 1000     \* an empty list, as a distance beyond any frame

TypeOK ==
    /\ usage \in Usages
    /\ m_state \in simState_t
    /\ m_oldState \in simState_t
    /\ m_timerOn \in BOOLEAN
    /\ m_converged \in BOOLEAN
    /\ gui \in {"idle", "editing", "waiting", "update", "starting",
               "stopping", "dbgStopping", "restarting"}
    /\ saved \in simState_t
    /\ thread \in {"none", "enter", "entered", "loop", "event", "solve", "check", "leave",
                   "pauseSim", "pauseSimWrite", "dbgPaused"}
    /\ next # NoEvent => \E d \in Delays : next \in -MaxLate .. d
    /\ left \in 0 .. m_psPF + MaxLate
    /\ icon \in {"Off", "On", "Debug"}
    /\ pauseEnabled \in BOOLEAN
    /\ dbg \in {"STOPPED", "PAUSED", "STEPING", "RUNNING"}
    /\ late \in BOOLEAN
    /\ crossed \in BOOLEAN

Init ==
    /\ usage \in Usages
    /\ m_state = SIM_STOPPED
    /\ m_oldState = SIM_STOPPED
    /\ m_timerOn = FALSE
    /\ m_converged = TRUE
    /\ gui = "idle"
    /\ saved = SIM_STOPPED
    /\ thread = "none"
    /\ next = NoEvent
    /\ left = 0
    /\ icon = "Off"
    /\ pauseEnabled = FALSE
    /\ dbg = "STOPPED"
    /\ late = FALSE
    /\ crossed = FALSE

-----------------------------------------------------------------------------
\* The simulator's methods, as the GUI thread calls them.

pauseSim ==
    IF m_state <= SIM_PAUSED
      THEN UNCHANGED simVars
      ELSE m_oldState' = m_state /\ m_state' = SIM_PAUSED

resumeSim ==
    IF m_state # SIM_PAUSED
      THEN UNCHANGED <<simVars, past>>
      ELSE /\ m_state' = m_oldState
           /\ late' = (late \/ thread # "none")
           /\ UNCHANGED <<m_oldState, crossed>>

\* stopSim up to waitForFinished; then says what the caller does afterwards.
stopSim(then) ==
    /\ m_timerOn' = FALSE
    /\ m_state' = SIM_STOPPED
    /\ gui' = then

\* timerEvent up to waitForFinished, entered with m_state at state.
timerEvent(state) ==
    IF thread = "none"
      THEN gui' = "update" /\ m_state' = state /\ UNCHANGED saved
      ELSE gui' = "waiting" /\ m_state' = SIM_WAITING /\ saved' = state

(***************************************************************************)
(* The power button: powerCirc, powerCircOn and powerCircOff.              *)
(***************************************************************************)
powerCircOn ==
    /\ m_state' = SIM_STARTING      \* resetSim, SIM_STARTING
    /\ gui' = "starting"
    /\ icon' = "On"
    /\ pauseEnabled' = TRUE
    /\ next' = NoEvent
    /\ UNCHANGED m_timerOn

powerCircOff(then) ==
    /\ IF m_state >= SIM_STARTING
         THEN stopSim(then)
         ELSE UNCHANGED <<m_timerOn, m_state, gui>>
    /\ icon' = "Off"
    /\ pauseEnabled' = FALSE
    /\ UNCHANGED next

PowerCirc ==
    /\ gui = "idle" /\ "power" \in usage /\ icon # "Debug"
    /\ IF m_state # SIM_PAUSED /\ icon = "Off" THEN powerCircOn ELSE powerCircOff("stopping")
    /\ UNCHANGED <<usage, m_oldState, saved, thread, left, m_converged, dbg, past>>

\* startSim from the initialisation of the elements to its call of timerEvent.
Started ==
    /\ gui = "starting"
    /\ next' \in Delays \cup {NoEvent}
    /\ m_timerOn' = TRUE
    /\ IF icon = "Debug"
         THEN m_oldState' = SIM_RUNNING /\ timerEvent(SIM_PAUSED)
         ELSE UNCHANGED m_oldState /\ timerEvent(SIM_RUNNING)
    /\ UNCHANGED <<usage, icon, pauseEnabled, thread, left, m_converged, dbg, past>>

\* MUTANT of Stopped: clearEventList is forgotten.
StoppedUncleared ==
    /\ gui \in {"stopping", "dbgStopping", "restarting"}
    /\ thread = "none"
    /\ late' = FALSE /\ crossed' = FALSE
    /\ IF gui = "restarting"
         THEN gui' = "starting" /\ m_state' = SIM_STARTING
         ELSE gui' = "idle" /\ UNCHANGED m_state
    /\ dbg' = IF gui = "dbgStopping" THEN "STOPPED" ELSE dbg
    /\ UNCHANGED <<usage, m_oldState, saved, m_timerOn, icon, pauseEnabled, threadVars>>

\* stopSim after waitForFinished: no events are left.  Only stopDebbuger stops
\* the debugger too; powerCircDebug goes on to startSim.
Stopped ==
    /\ gui \in {"stopping", "dbgStopping", "restarting"}
    /\ thread = "none"
    /\ next' = NoEvent
    /\ late' = FALSE /\ crossed' = FALSE
    /\ IF gui = "restarting"
         THEN gui' = "starting" /\ m_state' = SIM_STARTING
         ELSE gui' = "idle" /\ UNCHANGED m_state
    /\ dbg' = IF gui = "dbgStopping" THEN "STOPPED" ELSE dbg
    /\ UNCHANGED <<usage, m_oldState, saved, m_timerOn, icon, pauseEnabled,
                   thread, left, m_converged>>

(***************************************************************************)
(* The pause button, and edits of a component's properties.                *)
(***************************************************************************)
PauseCirc ==
    /\ gui = "idle" /\ "pause" \in usage /\ pauseEnabled
    /\ \/ m_state > SIM_PAUSED /\ pauseSim /\ icon' = "Off" /\ UNCHANGED past
       \/ m_state = SIM_PAUSED /\ resumeSim /\ icon' = "On"
    /\ UNCHANGED <<usage, gui, saved, m_timerOn, pauseEnabled, threadVars, dbg>>

\* Most edits pause and resume whatever the state was ...
Edit ==
    /\ gui = "idle" /\ "edit" \in usage /\ m_state # SIM_STOPPED
    /\ pauseSim
    /\ gui' = "editing"
    /\ UNCHANGED <<usage, saved, m_timerOn, icon, pauseEnabled, threadVars, dbg, past>>

\* ... some only if it was not paused.
GuardedEdit ==
    /\ gui = "idle" /\ "guardedEdit" \in usage /\ m_state > SIM_PAUSED
    /\ pauseSim
    /\ gui' = "editing"
    /\ UNCHANGED <<usage, saved, m_timerOn, icon, pauseEnabled, threadVars, dbg, past>>

Edited ==
    /\ gui = "editing"
    /\ resumeSim
    /\ gui' = "idle"
    /\ UNCHANGED <<usage, saved, m_timerOn, icon, pauseEnabled, threadVars, dbg>>

(***************************************************************************)
(* The debugger's buttons: EditorWindow.                                   *)
(***************************************************************************)

\* debug, and reset, which is enabled while the debugger shows a line:
\* powerCircDebug stops the simulation and starts it paused.
DebugReset ==
    /\ gui = "idle" /\ "debug" \in usage /\ dbg \in {"STOPPED", "PAUSED"}
    /\ dbg' = "PAUSED"
    /\ icon' = "Debug"
    /\ pauseEnabled' = FALSE
    /\ IF m_state >= SIM_STARTING
         THEN stopSim("restarting") /\ UNCHANGED next
         ELSE /\ m_state' = SIM_STARTING
              /\ gui' = "starting"
              /\ next' = NoEvent
              /\ UNCHANGED m_timerOn
    /\ UNCHANGED <<usage, m_oldState, saved, thread, left, m_converged, past>>

\* run, step, stepOver: enabled while the debugger shows a line.
DebugRun ==
    /\ gui = "idle" /\ "debug" \in usage /\ dbg = "PAUSED"
    /\ dbg' \in {"STEPING", "RUNNING"}
    /\ resumeSim
    /\ UNCHANGED <<usage, guiVars, threadVars>>

DebugPause ==
    /\ gui = "idle" /\ "dbgPause" \in usage /\ dbg \in {"STEPING", "RUNNING"}
    /\ pauseSim
    /\ dbg' = "PAUSED"
    /\ crossed' = (crossed \/ thread = "pauseSim")
    /\ UNCHANGED <<usage, guiVars, threadVars, late>>

\* stopDebbuger.
DebugStop ==
    /\ gui = "idle" /\ "debug" \in usage /\ dbg # "STOPPED"
    /\ powerCircOff("dbgStopping")
    /\ dbg' = IF m_state >= SIM_STARTING THEN dbg ELSE "STOPPED"
    /\ UNCHANGED <<usage, m_oldState, saved, thread, left, m_converged, past>>

-----------------------------------------------------------------------------
\* The timer of the GUI thread.

\* (m_error, for which timerEvent would switch off, is never set.)
Tick ==
    /\ gui = "idle"
    /\ m_timerOn
    /\ m_state # SIM_WAITING
    /\ timerEvent(m_state)
    /\ UNCHANGED <<usage, m_oldState, m_timerOn, icon, pauseEnabled, threadVars, dbg, past>>

\* MUTANT of Waited: the GUI thread does not wait.
WaitedNotAtAll ==
    /\ gui = "waiting"
    /\ m_state' = saved
    /\ gui' = "update"
    /\ UNCHANGED <<usage, m_oldState, saved, m_timerOn, icon, pauseEnabled, threadVars, dbg, past>>

\* waitForFinished returned.
Waited ==
    /\ gui = "waiting"
    /\ thread = "none"
    /\ m_state' = saved
    /\ gui' = "update"
    /\ UNCHANGED <<usage, m_oldState, saved, m_timerOn, icon, pauseEnabled, threadVars, dbg, past>>

\* MUTANT of UpdateStep: the state to run in is missed by one.
UpdateStepOffByOne ==
    /\ gui = "update"
    /\ gui' = "idle"
    /\ thread' = IF m_state > SIM_RUNNING THEN "enter" ELSE thread
    /\ UNCHANGED <<usage, simVars, saved, m_timerOn, icon, pauseEnabled,
                   next, left, m_converged, dbg, past>>

\* The screen is updated, and the circuit thread started on the next frame.
UpdateStep ==
    /\ gui = "update"
    /\ gui' = "idle"
    /\ thread' = IF m_state = SIM_RUNNING THEN "enter" ELSE thread
    /\ UNCHANGED <<usage, simVars, saved, m_timerOn, icon, pauseEnabled,
                   next, left, m_converged, dbg, past>>

\* The updateStep of a TestUnit whose test is done switches the circuit off,
\* paused or not.
TestDone ==
    /\ gui = "update" /\ "test" \in usage
    /\ powerCircOff("stopping")
    /\ UNCHANGED <<usage, m_oldState, saved, thread, left, m_converged, dbg, past>>

-----------------------------------------------------------------------------
\* The circuit thread: runCircuit.

\* MUTANT of Solving: it goes on whatever m_state is.
SolvingUnchecked ==
    /\ thread \in {"enter", "solve"}
    /\ m_converged' = ~m_converged
    /\ UNCHANGED <<usage, simVars, guiVars, thread, next, left, dbg, past>>

\* solveCircuit goes on for as long as the circuit changes, or gives up.
Solving ==
    /\ thread \in {"enter", "solve"}
    /\ m_state >= SIM_RUNNING
    /\ m_converged' = ~m_converged
    /\ UNCHANGED <<usage, simVars, guiVars, thread, next, left, dbg, past>>

\* It ends converged, or by the limit of iterations (m_converged is TRUE then
\* too), or not converged when it finds that m_state is below SIM_RUNNING.
Solved ==
    /\ thread \in {"enter", "solve"}
    /\ thread' = IF thread = "enter" THEN "entered" ELSE "check"
    /\ \/ m_converged' = TRUE
       \/ m_state < SIM_RUNNING /\ m_converged' = FALSE
    /\ UNCHANGED <<usage, simVars, guiVars, next, left, dbg, past>>

\* m_state is looked at once more before the frame is begun.
BeginFrame ==
    /\ thread = "entered"
    /\ IF m_state < SIM_RUNNING
         THEN thread' = "none" /\ UNCHANGED left
         ELSE thread' = "loop" /\ left' = m_psPF
    /\ UNCHANGED <<usage, simVars, guiVars, next, m_converged, dbg, past>>

\* The first event, if it is due in this frame; its callback may add one.
NextEvent ==
    /\ thread = "loop"
    /\ next # NoEvent /\ next <= left
    /\ left' = left - next
    /\ next' \in Delays \cup {NoEvent}
    /\ thread' = "event"
    /\ UNCHANGED <<usage, simVars, guiVars, m_converged, dbg, past>>

\* All events of the frame are done.
NoMoreEvents ==
    /\ thread = "loop"
    /\ next = NoEvent \/ next > left
    /\ thread' = "leave"
    /\ UNCHANGED <<usage, simVars, guiVars, next, left, m_converged, dbg, past>>

\* All events with this time stamp are done (they are one event here).
EventsDone ==
    /\ thread = "event"
    /\ thread' = "solve"
    /\ UNCHANGED <<usage, simVars, guiVars, next, left, m_converged, dbg, past>>

\* MUTANT of CheckState: the loop goes on without looking at m_state.
CheckStateNot ==
    /\ thread = "check"
    /\ thread' = "loop"
    /\ UNCHANGED <<usage, simVars, guiVars, next, left, m_converged, dbg, past>>

\* After each time step the thread looks whether it is still to run.
CheckState ==
    /\ thread = "check"
    /\ thread' = IF m_state < SIM_RUNNING THEN "leave" ELSE "loop"
    /\ UNCHANGED <<usage, simVars, guiVars, next, left, m_converged, dbg, past>>

\* How far an event is ahead of the clock, see MaxLate.
behind(distance) == IF distance < -MaxLate THEN -MaxLate ELSE distance

\* MUTANT of LeaveFrame: the clock goes to endRun whatever m_state is.
LeaveFrameAtEnd ==
    /\ thread = "leave"
    /\ thread' = "none"
    /\ left' = 0
    /\ next' = IF next # NoEvent THEN behind(next - left) ELSE next
    /\ UNCHANGED <<usage, simVars, guiVars, m_converged, dbg, past>>

\* MUTANT of LeaveFrame: an empty list is taken for an event.
LeaveFrameOfEmpty ==
    /\ thread = "leave"
    /\ thread' = "none"
    /\ left' = 0
    /\ next' = IF m_state > SIM_WAITING THEN behind(next - left) ELSE next
    /\ UNCHANGED <<usage, simVars, guiVars, m_converged, dbg, past>>

\* The end of runCircuit: m_circTime = endRun, unless m_state says otherwise.
LeaveFrame ==
    /\ thread = "leave"
    /\ thread' = "none"
    /\ left' = 0
    /\ next' = IF m_state > SIM_WAITING /\ next # NoEvent THEN behind(next - left) ELSE next
    /\ UNCHANGED <<usage, simVars, guiVars, m_converged, dbg, past>>

\* The debugged program comes to a breakpoint, or to the next line of a step:
\* lineReached, EditorWindow::pause.
Breakpoint ==
    /\ thread = "event"
    /\ dbg \in {"STEPING", "RUNNING"}
    /\ thread' = "pauseSim"
    /\ UNCHANGED <<usage, simVars, guiVars, next, left, m_converged, dbg, past>>

\* pauseSim on the circuit thread, in its two accesses to m_state.
PauseSimRead ==
    /\ thread = "pauseSim"
    /\ IF m_state <= SIM_PAUSED
         THEN thread' = "dbgPaused" /\ UNCHANGED m_oldState
         ELSE thread' = "pauseSimWrite" /\ m_oldState' = m_state
    /\ UNCHANGED <<usage, m_state, guiVars, next, left, m_converged, dbg, past>>

PauseSimWrite ==
    /\ thread = "pauseSimWrite"
    /\ m_state' = SIM_PAUSED
    /\ thread' = "dbgPaused"
    /\ UNCHANGED <<usage, m_oldState, guiVars, next, left, m_converged, dbg, past>>

\* MUTANT of DebuggerPaused: the debugger's own state is not set.
DebuggerNotPaused ==
    /\ thread = "dbgPaused"
    /\ thread' = "event"
    /\ UNCHANGED <<usage, simVars, guiVars, next, left, m_converged, dbg, past>>

\* The rest of EditorWindow::pause.
DebuggerPaused ==
    /\ thread = "dbgPaused"
    /\ dbg' = "PAUSED"
    /\ thread' = "event"
    /\ UNCHANGED <<usage, simVars, guiVars, next, left, m_converged, past>>

-----------------------------------------------------------------------------

User == PowerCirc \/ PauseCirc \/ Edit \/ GuardedEdit \/ DebugReset \/ DebugRun
        \/ DebugPause \/ DebugStop

GuiContinues == Started \/ Stopped \/ Edited \/ Waited \/ UpdateStep \/ TestDone

Thread == Solving \/ Solved \/ BeginFrame \/ NextEvent \/ NoMoreEvents \/ EventsDone
          \/ CheckState \/ LeaveFrame
          \/ Breakpoint \/ PauseSimRead \/ PauseSimWrite \/ DebuggerPaused

Next == User \/ Tick \/ GuiContinues \/ Thread

\* The operating system runs both threads; a started timer fires whenever the
\* GUI thread keeps coming back to its event loop.  The user owes nothing.
Spec == Init /\ [][Next]_vars /\ WF_vars(Thread) /\ WF_vars(GuiContinues) /\ SF_vars(Tick)

-----------------------------------------------------------------------------

\* The GUI thread has the circuit to itself while it initialises, updates or
\* clears it: the circuit thread has ended, whatever the user clicked on.
GuiExclusive == gui \in {"starting", "update"} => thread = "none"

\* A simulation that was switched off is over: m_state, the thread, the timer
\* and the events.  Not so in a debugger session: a breakpoint that is being
\* reached while stopSim waits makes m_state SIM_PAUSED again.
StopClean ==
    ("debug" \notin usage /\ gui = "idle" /\ icon = "Off" /\ ~pauseEnabled) =>
        m_state = SIM_STOPPED /\ thread = "none" /\ ~m_timerOn /\ next = NoEvent

\* The clock never overtakes an event, except where resumeSim let a frame that
\* was broken off believe it was done.
NothingOvertaken == ~late => next >= 0

\* Events are run on a solved circuit, with the same exception.
EventsOnSolved == (thread = "event" /\ ~late) => m_converged

\* A debugged simulation at rest can be continued: it is not left in
\* SIM_WAITING, in which the timer does nothing, and a paused one is continued
\* by the debugger's buttons: they are enabled, and resumeSim goes back to
\* SIM_RUNNING.  Not so if the pause button is pressed while a breakpoint is
\* being reached: pauseSim may then take timerEvent's SIM_WAITING for the state
\* to go back to.
DebuggerCanContinue ==
    (dbg # "STOPPED" /\ m_timerOn /\ gui = "idle" /\ thread = "none" /\ ~crossed) =>
        /\ m_state # SIM_WAITING
        /\ m_state = SIM_PAUSED => dbg = "PAUSED" /\ m_oldState = SIM_RUNNING

\* Nothing the circuit does keeps the GUI from coming back to its event loop.
GuiComesBack == gui # "idle" ~> gui = "idle"

\* A running simulation goes on: another frame is begun unless it is paused
\* or stopped; with the exception of DebuggerCanContinue.
FramesGoOn ==
    (m_timerOn /\ m_state >= SIM_WAITING /\ thread = "none" /\ ~crossed)
        ~> (thread # "none" \/ m_state <= SIM_PAUSED)

\* "All events for this Timer Tick are done" when the clock goes to endRun.
AllEventsDone == [][LeaveFrame /\ m_state > SIM_WAITING => next > left]_vars

============================================================================
