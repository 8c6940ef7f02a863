-------------------------- MODULE SimulatorProofs --------------------------
(***************************************************************************)
(* The GUI thread has the circuit to itself when it needs to, and leaves   *)
(* nothing behind when it switches it off: for any delays and any length   *)
(* of a frame, and for every session that does not have both the pause     *)
(* button and edits that resume whatever they find, or the pause button,   *)
(* a debugger and a test that switches off behind the debugger's back.     *)
(*                                                                         *)
(* The timer is the key: when it is off and nobody is stopping the         *)
(* simulation, there is no circuit thread; and while it is on, m_state and *)
(* the icon of the power button say that a simulation runs or is paused,   *)
(* so that no button starts another.                                       *)
(*                                                                         *)
(* A second part is about the clock, and needs no exception.               *)
(***************************************************************************)
EXTENDS Simulator, TLAPS

\* Pausing with the button and then editing makes the simulation run on behind
\* a button that shows Off, and the next click starts a second one.  So does
\* the next click after a breakpoint in a simulation that was switched on with
\* the power button while a debugger was left over from before a test.
Guarded == \A u \in Usages :
    ~({"pause", "edit"} \subseteq u) /\ ~({"pause", "debug", "test"} \subseteq u)

\* The types that matter here.
States ==
    /\ usage \in Usages
    /\ m_state \in simState_t /\ m_oldState \in simState_t /\ saved \in simState_t
    /\ gui \in {"idle", "editing", "waiting", "update", "starting",
               "stopping", "dbgStopping", "restarting"}
    /\ icon \in {"Off", "On", "Debug"}
    /\ m_timerOn \in BOOLEAN /\ pauseEnabled \in BOOLEAN

\* Without the timer there is no thread, but for one that is being stopped.
ThreadTimed == ~m_timerOn /\ gui \notin {"stopping", "dbgStopping", "restarting"} => thread = "none"

\* The timer is on while timerEvent runs, and off before startSim starts it.
TimerPlace ==
    /\ gui \in {"update", "waiting"} => m_timerOn
    /\ gui \in {"starting", "stopping", "dbgStopping", "restarting"} => ~m_timerOn

\* A simulation that has its timer is not stopped, and will not be by what
\* timerEvent or resumeSim write back.
TimerState ==
    /\ m_timerOn => m_state \notin {SIM_STOPPED, SIM_STARTING}
    /\ gui = "waiting" => saved \notin {SIM_STOPPED, SIM_STARTING}
    /\ m_oldState \in {SIM_STOPPED, SIM_WAITING, SIM_RUNNING}
    /\ m_state = SIM_PAUSED \/ thread = "pauseSimWrite" \/ (gui = "waiting" /\ saved = SIM_PAUSED)
         => m_oldState # SIM_STOPPED

\* The power button shows Off during a simulation only if the pause button
\* paused it.
IconOff ==
    /\ gui \in {"starting", "restarting"} => icon # "Off"
    /\ icon = "On" => pauseEnabled
    /\ icon = "Debug" => ~pauseEnabled
    /\ icon = "Off" /\ m_timerOn =>
          /\ pauseEnabled
          /\ "pause" \in usage
          /\ gui # "editing"
          /\ IF gui = "waiting" THEN saved = SIM_PAUSED ELSE m_state = SIM_PAUSED

\* Where there is a pause button, the debugger is active only in a simulation
\* that it started.
DebuggerPlace ==
    /\ dbg # "STOPPED" /\ "pause" \in usage =>
          \/ gui = "dbgStopping"
          \/ icon = "Debug" /\ (m_timerOn \/ gui \in {"restarting", "starting"})
    /\ thread \in {"pauseSim", "pauseSimWrite", "dbgPaused"} => dbg # "STOPPED"
    /\ "debug" \notin usage => dbg = "STOPPED" /\ icon # "Debug"

\* Without a debugger, what is stopped stays stopped.
StaysStopped ==
    "debug" \notin usage /\ ~m_timerOn =>
        /\ m_state = SIM_STOPPED \/ gui = "starting"
        /\ gui \in {"idle", "editing"} => next = NoEvent

IInv == States /\ GuiExclusive /\ ThreadTimed /\ TimerPlace /\ TimerState /\ IconOff
        /\ DebuggerPlace /\ StaysStopped

-----------------------------------------------------------------------------
\* In the proofs below a leaf names the action; the invariant, the constants
\* and the tuples of variables are expanded throughout.
USE DEF IInv, States, GuiExclusive, ThreadTimed, TimerPlace, TimerState, IconOff,
        DebuggerPlace, StaysStopped, Guarded,
        simState_t, SIM_STOPPED, SIM_STARTING, SIM_PAUSED, SIM_WAITING, SIM_RUNNING,
        vars, simVars, guiVars, threadVars, past

\* Nothing runs at first.
LEMMA InitIInv == Init => IInv
<1> SUFFICES ASSUME Init PROVE IInv
  OBVIOUS
<1>1. States
  BY DEF Init
<1>2. GuiExclusive /\ ThreadTimed /\ TimerPlace
  BY DEF Init
<1>3. TimerState /\ IconOff
  BY DEF Init
<1>4. DebuggerPlace /\ StaysStopped
  BY DEF Init
<1> QED
  BY <1>1, <1>2, <1>3, <1>4

\* Switching off: the simulation is being stopped, or there was none.
LEMMA PowerOff ==
    ASSUME NEW then, powerCircOff(then)
    PROVE  /\ icon' = "Off" /\ ~pauseEnabled' /\ next' = next
           /\ pauseEnabled' \in BOOLEAN
           /\ IF m_state >= SIM_STARTING
                THEN m_timerOn' = FALSE /\ m_state' = SIM_STOPPED /\ gui' = then
                ELSE m_timerOn' = m_timerOn /\ m_state' = m_state /\ gui' = gui
BY DEF powerCircOff, stopSim

\* What the user does preserves the invariant.
LEMMA UserIInv == ASSUME Guarded, IInv, User PROVE IInv'
<1>1. CASE PowerCirc
  <2>1. CASE m_state # SIM_PAUSED /\ icon = "Off"
    <3>1. States'
      BY <1>1, <2>1 DEF PowerCirc, powerCircOn
    <3>2. (GuiExclusive /\ ThreadTimed /\ TimerPlace)'
      BY <1>1, <2>1 DEF PowerCirc, powerCircOn
    <3>3. (TimerState /\ IconOff)'
      BY <1>1, <2>1 DEF PowerCirc, powerCircOn
    <3>4. (DebuggerPlace /\ StaysStopped)'
      BY <1>1, <2>1 DEF PowerCirc, powerCircOn
    <3> QED
      BY <3>1, <3>2, <3>3, <3>4
  <2>2. CASE ~(m_state # SIM_PAUSED /\ icon = "Off")
    <3> powerCircOff("stopping")
      BY <1>1, <2>2 DEF PowerCirc
    <3> /\ icon' = "Off" /\ ~pauseEnabled' /\ pauseEnabled' \in BOOLEAN
        /\ UNCHANGED <<usage, m_oldState, saved, thread, dbg, next>>
      BY <1>1, PowerOff DEF PowerCirc
    <3> gui = "idle" /\ ("pause" \in usage => dbg = "STOPPED")
      BY <1>1 DEF PowerCirc
    <3>1. CASE m_state >= SIM_STARTING
      <4> m_timerOn' = FALSE /\ m_state' = SIM_STOPPED /\ gui' = "stopping"
        BY <3>1, PowerOff
      <4>1. States' /\ (GuiExclusive /\ ThreadTimed /\ TimerPlace)'
        OBVIOUS
      <4>2. TimerState'
        OBVIOUS
      <4>3. IconOff'
        OBVIOUS
      <4>4. (DebuggerPlace /\ StaysStopped)'
        OBVIOUS
      <4> QED
        BY <4>1, <4>2, <4>3, <4>4
    <3>2. CASE ~(m_state >= SIM_STARTING)
      <4> UNCHANGED <<m_timerOn, m_state, gui>>
        BY <3>2, PowerOff
      <4> m_state = SIM_STOPPED /\ ~m_timerOn
        BY <3>2
      <4> QED
        OBVIOUS
    <3> QED
      BY <3>1, <3>2
  <2> QED
    BY <2>1, <2>2
<1>2. CASE PauseCirc
  <2>1. States'
    BY <1>2 DEF PauseCirc, pauseSim, resumeSim
  <2>2. (GuiExclusive /\ ThreadTimed /\ TimerPlace)'
    BY <1>2 DEF PauseCirc, pauseSim, resumeSim
  <2>3. (TimerState /\ IconOff)'
    BY <1>2 DEF PauseCirc, pauseSim, resumeSim
  <2>4. (DebuggerPlace /\ StaysStopped)'
    BY <1>2 DEF PauseCirc, pauseSim, resumeSim
  <2> QED
    BY <2>1, <2>2, <2>3, <2>4
<1>3. CASE Edit
  BY <1>3 DEF Edit, pauseSim
<1>4. CASE GuardedEdit
  BY <1>4 DEF GuardedEdit, pauseSim
<1>5. CASE DebugReset
  <2>1. (m_timerOn \in BOOLEAN)'
    BY <1>5 DEF DebugReset, stopSim
  <2>2. States'
    BY <1>5, <2>1 DEF DebugReset, stopSim
  <2>3. (GuiExclusive /\ ThreadTimed /\ TimerPlace)'
    BY <1>5 DEF DebugReset, stopSim
  <2>4. (TimerState /\ IconOff)'
    BY <1>5 DEF DebugReset, stopSim
  <2>5. (DebuggerPlace /\ StaysStopped)'
    BY <1>5 DEF DebugReset, stopSim
  <2> QED
    BY <2>1, <2>2, <2>3, <2>4, <2>5
<1>6. CASE DebugRun
  BY <1>6 DEF DebugRun, resumeSim
<1>7. CASE DebugPause
  BY <1>7 DEF DebugPause, pauseSim
<1>8. CASE DebugStop
  <2> /\ powerCircOff("dbgStopping") /\ gui = "idle" /\ "debug" \in usage
      /\ UNCHANGED <<usage, m_oldState, saved, thread>>
      /\ dbg' = IF m_state >= SIM_STARTING THEN dbg ELSE "STOPPED"
    BY <1>8 DEF DebugStop
  <2> icon' = "Off" /\ ~pauseEnabled' /\ pauseEnabled' \in BOOLEAN
    BY PowerOff
  <2>1. CASE m_state >= SIM_STARTING
    <3> m_timerOn' = FALSE /\ m_state' = SIM_STOPPED /\ gui' = "dbgStopping" /\ dbg' = dbg
      BY <2>1, PowerOff
    <3>1. States' /\ (GuiExclusive /\ ThreadTimed /\ TimerPlace)'
      OBVIOUS
    <3>2. (TimerState /\ IconOff)'
      OBVIOUS
    <3>3. (DebuggerPlace /\ StaysStopped)'
      OBVIOUS
    <3> QED
      BY <3>1, <3>2, <3>3
  <2>2. CASE ~(m_state >= SIM_STARTING)
    <3> UNCHANGED <<m_timerOn, m_state, gui>> /\ dbg' = "STOPPED"
      BY <2>2, PowerOff
    <3> m_state = SIM_STOPPED /\ ~m_timerOn /\ thread = "none"
      BY <2>2
    <3> QED
      OBVIOUS
  <2> QED
    BY <2>1, <2>2
<1> QED
  BY <1>1, <1>2, <1>3, <1>4, <1>5, <1>6, <1>7, <1>8 DEF User

\* So does the GUI thread on its own.
LEMMA GuiIInv == ASSUME Guarded, IInv, GuiContinues PROVE IInv'
<1>1. CASE Started
  <2>1. States'
    BY <1>1 DEF Started, timerEvent
  <2>2. (GuiExclusive /\ ThreadTimed /\ TimerPlace)'
    BY <1>1 DEF Started, timerEvent
  <2>3. (TimerState /\ IconOff)'
    BY <1>1 DEF Started, timerEvent
  <2>4. (DebuggerPlace /\ StaysStopped)'
    BY <1>1 DEF Started, timerEvent
  <2> QED
    BY <2>1, <2>2, <2>3, <2>4
<1>2. CASE Stopped
  BY <1>2 DEF Stopped
<1>3. CASE Edited
  BY <1>3 DEF Edited, resumeSim
<1>4. CASE Waited
  BY <1>4 DEF Waited
<1>5. CASE UpdateStep
  BY <1>5 DEF UpdateStep
<1>6. CASE TestDone
  <2> /\ powerCircOff("stopping") /\ gui = "update" /\ "test" \in usage
      /\ UNCHANGED <<usage, m_oldState, saved, thread, dbg>>
    BY <1>6 DEF TestDone
  <2> m_state >= SIM_STARTING
    OBVIOUS
  <2> /\ m_timerOn' = FALSE /\ m_state' = SIM_STOPPED /\ gui' = "stopping"
      /\ icon' = "Off" /\ ~pauseEnabled' /\ pauseEnabled' \in BOOLEAN
    BY PowerOff
  <2>1. States' /\ (GuiExclusive /\ ThreadTimed /\ TimerPlace)'
    OBVIOUS
  <2>2. (TimerState /\ IconOff)'
    OBVIOUS
  <2>3. (DebuggerPlace /\ StaysStopped)'
    OBVIOUS
  <2> QED
    BY <2>1, <2>2, <2>3
<1> QED
  BY <1>1, <1>2, <1>3, <1>4, <1>5, <1>6 DEF GuiContinues

\* And the timer.
LEMMA TickIInv == ASSUME IInv, Tick PROVE IInv'
BY DEF Tick, timerEvent

\* And the circuit thread.
LEMMA ThreadIInv == ASSUME Guarded, IInv, Thread PROVE IInv'
<1>1. CASE Solving
  BY <1>1 DEF Solving
<1>2. CASE Solved
  BY <1>2 DEF Solved
<1>3. CASE BeginFrame
  BY <1>3 DEF BeginFrame
<1>4. CASE NextEvent
  BY <1>4 DEF NextEvent
<1>5. CASE NoMoreEvents
  BY <1>5 DEF NoMoreEvents
<1>6. CASE EventsDone
  BY <1>6 DEF EventsDone
<1>7. CASE CheckState
  BY <1>7 DEF CheckState
<1>8. CASE LeaveFrame
  BY <1>8 DEF LeaveFrame
<1>9. CASE Breakpoint
  BY <1>9 DEF Breakpoint
<1>10. CASE PauseSimRead
  BY <1>10 DEF PauseSimRead
<1>11. CASE PauseSimWrite
  BY <1>11 DEF PauseSimWrite
<1>12. CASE DebuggerPaused
  BY <1>12 DEF DebuggerPaused
<1> QED
  BY <1>1, <1>2, <1>3, <1>4, <1>5, <1>6, <1>7, <1>8, <1>9, <1>10, <1>11, <1>12 DEF Thread

\* Every step preserves the invariant.
LEMMA NextIInv == ASSUME Guarded, IInv, [Next]_vars PROVE IInv'
<1>1. CASE User
  BY <1>1, UserIInv
<1>2. CASE Tick
  BY <1>2, TickIInv
<1>3. CASE GuiContinues
  BY <1>3, GuiIInv
<1>4. CASE Thread
  BY <1>4, ThreadIInv
<1>5. CASE UNCHANGED vars
  BY <1>5
<1> QED
  BY <1>1, <1>2, <1>3, <1>4, <1>5 DEF Next

\* A simulation that was switched off is over, by the invariant.
LEMMA IInvStopClean == IInv => StopClean
BY DEF StopClean

HIDE DEF IInv, States, GuiExclusive, ThreadTimed, TimerPlace, TimerState, IconOff,
         DebuggerPlace, StaysStopped, Guarded,
         simState_t, SIM_STOPPED, SIM_STARTING, SIM_PAUSED, SIM_WAITING, SIM_RUNNING,
         vars, simVars, guiVars, threadVars, past

\* The circuit thread has ended whenever the GUI thread is in startSim or in
\* updateStep, in any session without both the pause button and edits that
\* resume what they find, for any delays and frames.
THEOREM GuiAlone == ASSUME Guarded PROVE Spec => []GuiExclusive
<1>1. IInv /\ [Next]_vars => IInv'
  BY NextIInv
<1>2. IInv => GuiExclusive
  BY DEF IInv
<1> QED
  BY <1>1, <1>2, InitIInv, PTL DEF Spec

\* In these sessions switching off ends the simulation: once the power button
\* shows Off nothing is left of state, thread, timer and events.
THEOREM StopIsClean == ASSUME Guarded PROVE Spec => []StopClean
<1>1. IInv /\ [Next]_vars => IInv'
  BY NextIInv
<1> QED
  BY <1>1, InitIInv, IInvStopClean, PTL DEF Spec

-----------------------------------------------------------------------------
(***************************************************************************)
(* The clock, in every session: what lets it overtake an event, or run one *)
(* on a circuit that is not solved, is resumeSim alone, called for a frame *)
(* that was broken off and is still ending.  (Of a second frame beside the *)
(* first, in sessions that are not Guarded, the one thread of the model    *)
(* says nothing.)                                                          *)
(***************************************************************************)

\* All these are numbers.
Distances ==
    /\ next \in Int /\ left \in Int
    /\ m_state \in Int /\ m_oldState \in Int /\ saved \in Int

\* A thread that leaves its frame in a running simulation has done all events
\* of it, if it was not broken off and resumed.
LeavesDone ==
    thread = "leave" /\ m_state > SIM_WAITING /\ ~late => next = NoEvent \/ next > left

\* While the event loop runs, the last time step is solved; so it is when the
\* thread finds m_state running after it.
LoopSolved ==
    ~late =>
        /\ thread \in {"loop", "event", "pauseSim", "pauseSimWrite", "dbgPaused"} => m_converged
        /\ thread \in {"entered", "check"} /\ m_state >= SIM_RUNNING => m_converged

CInv == Distances /\ NothingOvertaken /\ LeavesDone /\ LoopSolved

\* The numbers among the constants.
LEMMA Numbers ==
    /\ Delays \subseteq Int /\ \A d \in Delays : d > 0
    /\ m_psPF \in Nat /\ MaxLate \in Nat
BY SimulatorAssumption

USE DEF CInv, Distances, NothingOvertaken, LeavesDone, LoopSolved, NoEvent,
        SIM_STOPPED, SIM_STARTING, SIM_PAUSED, SIM_WAITING, SIM_RUNNING,
        vars, simVars, guiVars, threadVars, past

\* At first there are no events, and no thread.
LEMMA InitCInv == Init => CInv
BY DEF Init

\* The user can only make a thread go on that is not done by resumeSim, and
\* that is late.
LEMMA UserCInv == ASSUME CInv, User PROVE CInv'
<1>1. CASE PowerCirc
  BY <1>1 DEF PowerCirc, powerCircOn, powerCircOff, stopSim
<1>2. CASE PauseCirc
  <2>1. CASE m_state > SIM_PAUSED
    BY <1>2, <2>1 DEF PauseCirc, pauseSim
  <2>2. CASE m_state = SIM_PAUSED
    <3>1. resumeSim /\ UNCHANGED <<saved, thread, next, left, m_converged>>
      BY <1>2, <2>2 DEF PauseCirc
    <3> QED
      BY <2>2, <3>1, ZenonT(30) DEF resumeSim
  <2> QED
    BY <1>2, <2>1, <2>2 DEF PauseCirc
<1>3. CASE Edit
  BY <1>3 DEF Edit, pauseSim
<1>4. CASE GuardedEdit
  BY <1>4 DEF GuardedEdit, pauseSim
<1>5. CASE DebugReset
  BY <1>5 DEF DebugReset, stopSim
<1>6. CASE DebugRun
  BY <1>6, ZenonT(30) DEF DebugRun, resumeSim
<1>7. CASE DebugPause
  BY <1>7 DEF DebugPause, pauseSim
<1>8. CASE DebugStop
  BY <1>8 DEF DebugStop, powerCircOff, stopSim
<1> QED
  BY <1>1, <1>2, <1>3, <1>4, <1>5, <1>6, <1>7, <1>8 DEF User

\* startSim and timerEvent write m_state only when the thread has ended, but
\* for SIM_WAITING.
LEMMA GuiCInv == ASSUME CInv, GuiContinues \/ Tick PROVE CInv'
<1>1. CASE Started
  BY <1>1, Numbers DEF Started, timerEvent
<1>2. CASE Stopped
  BY <1>2 DEF Stopped
<1>3. CASE Edited
  BY <1>3, ZenonT(30) DEF Edited, resumeSim
<1>4. CASE Waited
  BY <1>4 DEF Waited
<1>5. CASE UpdateStep
  BY <1>5 DEF UpdateStep
<1>6. CASE TestDone
  BY <1>6 DEF TestDone, powerCircOff, stopSim
<1>7. CASE Tick
  BY <1>7 DEF Tick, timerEvent
<1> QED
  BY <1>1, <1>2, <1>3, <1>4, <1>5, <1>6, <1>7 DEF GuiContinues

\* The circuit thread runs only what is due, on a solved circuit.
LEMMA ThreadCInv == ASSUME CInv, Thread PROVE CInv'
<1>1. CASE Solving
  BY <1>1 DEF Solving
<1>2. CASE Solved
  BY <1>2 DEF Solved
<1>3. CASE BeginFrame
  BY <1>3, Numbers DEF BeginFrame
<1>4. CASE NextEvent
  BY <1>4, Numbers DEF NextEvent
<1>5. CASE NoMoreEvents
  BY <1>5 DEF NoMoreEvents
<1>6. CASE EventsDone
  BY <1>6 DEF EventsDone
<1>7. CASE CheckState
  BY <1>7 DEF CheckState
<1>8. CASE LeaveFrame
  BY <1>8, Numbers DEF LeaveFrame, behind
<1>9. CASE Breakpoint
  BY <1>9 DEF Breakpoint
<1>10. CASE PauseSimRead
  BY <1>10 DEF PauseSimRead
<1>11. CASE PauseSimWrite
  BY <1>11 DEF PauseSimWrite
<1>12. CASE DebuggerPaused
  BY <1>12 DEF DebuggerPaused
<1> QED
  BY <1>1, <1>2, <1>3, <1>4, <1>5, <1>6, <1>7, <1>8, <1>9, <1>10, <1>11, <1>12 DEF Thread

\* Every step preserves it.
LEMMA NextCInv == ASSUME CInv, [Next]_vars PROVE CInv'
<1>1. CASE User
  BY <1>1, UserCInv
<1>2. CASE GuiContinues \/ Tick
  BY <1>2, GuiCInv
<1>3. CASE Thread
  BY <1>3, ThreadCInv
<1>4. CASE UNCHANGED vars
  BY <1>4
<1> QED
  BY <1>1, <1>2, <1>3, <1>4 DEF Next

HIDE DEF CInv, Distances, NothingOvertaken, LeavesDone, LoopSolved, NoEvent,
         SIM_STOPPED, SIM_STARTING, SIM_PAUSED, SIM_WAITING, SIM_RUNNING,
         vars, simVars, guiVars, threadVars, past

\* In every session, runCircuit never moves the clock past an event before
\* resumeSim is called for a frame that is still ending.
THEOREM ClockWaits == Spec => []NothingOvertaken
<1>1. CInv /\ [Next]_vars => CInv'
  BY NextCInv
<1>2. CInv => NothingOvertaken
  BY DEF CInv
<1> QED
  BY <1>1, <1>2, InitCInv, PTL DEF Spec

\* With the same exception, no event is run on a circuit that is not solved.
THEOREM SolvedFirst == Spec => []EventsOnSolved
<1>1. CInv /\ [Next]_vars => CInv'
  BY NextCInv
<1>2. CInv => EventsOnSolved
  BY DEF CInv, LoopSolved, EventsOnSolved
<1> QED
  BY <1>1, <1>2, InitCInv, PTL DEF Spec

-----------------------------------------------------------------------------
(***************************************************************************)
(* Types.  An event is at most MaxLate behind the clock when a frame       *)
(* begins, and ahead of it from then on: so the rest of a frame never      *)
(* exceeds the frame by more than MaxLate.                                 *)
(***************************************************************************)

Fields ==
    /\ usage \in Usages
    /\ m_state \in simState_t /\ m_oldState \in simState_t /\ saved \in simState_t

Places ==
    /\ gui \in {"idle", "editing", "waiting", "update", "starting",
               "stopping", "dbgStopping", "restarting"}
    /\ thread \in {"none", "enter", "entered", "loop", "event", "solve", "check", "leave",
                   "pauseSim", "pauseSimWrite", "dbgPaused"}
    /\ icon \in {"Off", "On", "Debug"}
    /\ dbg \in {"STOPPED", "PAUSED", "STEPING", "RUNNING"}

Switches ==
    /\ m_timerOn \in BOOLEAN /\ m_converged \in BOOLEAN
    /\ pauseEnabled \in BOOLEAN /\ late \in BOOLEAN /\ crossed \in BOOLEAN

Clock ==
    /\ next # NoEvent => \E d \in Delays : next \in -MaxLate .. d
    /\ left \in 0 .. m_psPF + MaxLate
    /\ next < 0 => left <= m_psPF

TInv == Fields /\ Places /\ Switches /\ Clock

USE DEF TInv, Fields, Places, Switches, Clock, NoEvent, simState_t,
        SIM_STOPPED, SIM_STARTING, SIM_PAUSED, SIM_WAITING, SIM_RUNNING,
        vars, simVars, guiVars, threadVars, past

\* The initial state is well-typed.
LEMMA InitTInv == Init => TInv
<1> SUFFICES ASSUME Init PROVE TInv
  OBVIOUS
<1>1. Fields /\ Places
  BY DEF Init
<1>2. Switches
  BY Zenon DEF Init
<1>3. Clock
  BY Numbers DEF Init
<1> QED
  BY <1>1, <1>2, <1>3

\* What the user does keeps the types.
LEMMA UserTInv == ASSUME TInv, User PROVE TInv'
<1>1. Fields'
  BY DEF PowerCirc, powerCircOn, powerCircOff, stopSim, PauseCirc, pauseSim,
         resumeSim, Edit, GuardedEdit, DebugReset, DebugRun, DebugPause,
         DebugStop, User
<1>2. Places'
  BY DEF PowerCirc, powerCircOn, powerCircOff, stopSim, PauseCirc, pauseSim,
         resumeSim, Edit, GuardedEdit, DebugReset, DebugRun, DebugPause,
         DebugStop, User
<1>3. Switches'
  <2>1. CASE PowerCirc
    BY <2>1, ZenonT(30) DEF PowerCirc, powerCircOn, powerCircOff, stopSim
  <2>2. CASE PauseCirc
    BY <2>2 DEF PauseCirc, pauseSim, resumeSim
  <2>3. CASE Edit \/ GuardedEdit
    BY <2>3 DEF Edit, GuardedEdit, pauseSim
  <2>4. CASE DebugReset
    BY <2>4, ZenonT(30) DEF DebugReset, stopSim
  <2>5. CASE DebugRun
    BY <2>5 DEF DebugRun, resumeSim
  <2>6. CASE DebugPause
    BY <2>6 DEF DebugPause, pauseSim
  <2>7. CASE DebugStop
    BY <2>7 DEF DebugStop, powerCircOff, stopSim
  <2> QED
    BY <2>1, <2>2, <2>3, <2>4, <2>5, <2>6, <2>7 DEF User
<1>4. Clock'
  BY Numbers DEF PowerCirc, powerCircOn, powerCircOff, stopSim, PauseCirc,
         pauseSim, resumeSim, Edit, GuardedEdit, DebugReset, DebugRun, DebugPause,
         DebugStop, User
<1> QED
  BY <1>1, <1>2, <1>3, <1>4

\* So does the timer.
LEMMA TickTInv == ASSUME TInv, Tick PROVE TInv'
<1>1. Fields'
  BY DEF Tick, timerEvent
<1>2. Places'
  BY DEF Tick, timerEvent
<1>3. Switches'
  BY ZenonT(30) DEF Tick, timerEvent
<1>4. Clock'
  BY Numbers DEF Tick, timerEvent
<1> QED
  BY <1>1, <1>2, <1>3, <1>4

\* And the GUI thread.
LEMMA GuiTInv == ASSUME TInv, GuiContinues PROVE TInv'
<1>1. Fields'
  BY DEF Started, timerEvent, Stopped, Edited, resumeSim, Waited, UpdateStep,
         TestDone, powerCircOff, stopSim, GuiContinues
<1>2. Places'
  BY DEF Started, timerEvent, Stopped, Edited, resumeSim, Waited, UpdateStep,
         TestDone, powerCircOff, stopSim, GuiContinues
<1>3. Switches'
  <2>1. CASE Started
    BY <2>1 DEF Started, timerEvent
  <2>2. CASE Stopped
    BY <2>2 DEF Stopped
  <2>3. CASE Edited
    BY <2>3 DEF Edited, resumeSim
  <2>4. CASE Waited
    BY <2>4 DEF Waited
  <2>5. CASE UpdateStep
    BY <2>5 DEF UpdateStep
  <2>6. CASE TestDone
    BY <2>6 DEF TestDone, powerCircOff, stopSim
  <2> QED
    BY <2>1, <2>2, <2>3, <2>4, <2>5, <2>6 DEF GuiContinues
<1>4. Clock'
  <2>1. CASE Started
    BY <2>1, Numbers DEF Started, timerEvent
  <2>2. CASE Stopped
    BY <2>2, Numbers DEF Stopped
  <2>3. CASE ~(Started \/ Stopped)
    <3> UNCHANGED <<next, left>>
      BY <2>3 DEF Started, timerEvent, Stopped, Edited, resumeSim, Waited,
             UpdateStep, TestDone, powerCircOff, stopSim, GuiContinues
    <3> QED
      OBVIOUS
  <2> QED
    BY <2>1, <2>2, <2>3
<1> QED
  BY <1>1, <1>2, <1>3, <1>4

\* And the circuit thread.
LEMMA ThreadTInv == ASSUME TInv, Thread PROVE TInv'
<1>1. Fields'
  BY DEF Solving, Solved, BeginFrame, NextEvent, NoMoreEvents, EventsDone,
         CheckState, LeaveFrame, behind, Breakpoint, PauseSimRead, PauseSimWrite,
         DebuggerPaused, Thread
<1>2. Places'
  BY DEF Solving, Solved, BeginFrame, NextEvent, NoMoreEvents, EventsDone,
         CheckState, LeaveFrame, behind, Breakpoint, PauseSimRead, PauseSimWrite,
         DebuggerPaused, Thread
<1>3. Switches'
  <2>1. CASE Solving
    BY <2>1 DEF Solving
  <2>2. CASE Solved
    BY <2>2 DEF Solved
  <2>3. CASE BeginFrame
    BY <2>3 DEF BeginFrame
  <2>4. CASE NextEvent
    BY <2>4 DEF NextEvent
  <2>5. CASE NoMoreEvents
    BY <2>5 DEF NoMoreEvents
  <2>6. CASE EventsDone
    BY <2>6 DEF EventsDone
  <2>7. CASE CheckState
    BY <2>7 DEF CheckState
  <2>8. CASE LeaveFrame
    BY <2>8 DEF LeaveFrame, behind
  <2>9. CASE Breakpoint
    BY <2>9 DEF Breakpoint
  <2>10. CASE PauseSimRead
    BY <2>10 DEF PauseSimRead
  <2>11. CASE PauseSimWrite
    BY <2>11 DEF PauseSimWrite
  <2>12. CASE DebuggerPaused
    BY <2>12 DEF DebuggerPaused
  <2> QED
    BY <2>1, <2>2, <2>3, <2>4, <2>5, <2>6, <2>7, <2>8, <2>9, <2>10, <2>11, <2>12 DEF Thread
<1>4. Clock'
  <2>1. CASE BeginFrame
    BY <2>1, Numbers DEF BeginFrame
  <2>2. CASE NextEvent
    BY <2>2, Numbers DEF NextEvent
  <2>3. CASE LeaveFrame
    BY <2>3, Numbers DEF LeaveFrame, behind
  <2>4. CASE ~(BeginFrame \/ NextEvent \/ LeaveFrame)
    <3> UNCHANGED <<next, left>>
      BY <2>4 DEF Solving, Solved, BeginFrame, NextEvent, NoMoreEvents,
             EventsDone, CheckState, LeaveFrame, behind, Breakpoint, PauseSimRead,
             PauseSimWrite, DebuggerPaused, Thread
    <3> QED
      OBVIOUS
  <2> QED
    BY <2>1, <2>2, <2>3, <2>4
<1> QED
  BY <1>1, <1>2, <1>3, <1>4

\* Every step keeps the types.
LEMMA NextTInv == ASSUME TInv, [Next]_vars PROVE TInv'
<1>1. CASE UNCHANGED vars
  BY <1>1
<1> QED
  BY <1>1, UserTInv, TickTInv, GuiTInv, ThreadTInv DEF Next

\* TInv has the types of all variables.
LEMMA TInvTypeOK == TInv => TypeOK
BY DEF TypeOK

HIDE DEF TInv, Fields, Places, Switches, Clock, NoEvent, simState_t,
         SIM_STOPPED, SIM_STARTING, SIM_PAUSED, SIM_WAITING, SIM_RUNNING,
         vars, simVars, guiVars, threadVars, past

\* For any delays and frames every reachable state is well-typed; in
\* particular no event is ever further ahead than an element asked for, and no
\* frame is longer than m_psPF by more than an event was late.
THEOREM TypeCorrect == Spec => []TypeOK
<1>1. TInv /\ [Next]_vars => TInv'
  BY NextTInv
<1> QED
  BY <1>1, InitTInv, TInvTypeOK, PTL DEF Spec

-----------------------------------------------------------------------------
(***************************************************************************)
(* The debugger.  A program that the debugger lets run is paused only      *)
(* while the circuit thread is about to tell the debugger so, or while an  *)
(* edit of a property lasts, which ends with resumeSim.  And pauseSim      *)
(* never finds SIM_WAITING in a simulation that is to stay paused: it      *)
(* would have to be called by the thread for a breakpoint when the user    *)
(* has paused the simulation already.                                      *)
(***************************************************************************)

Active == dbg \in {"STEPING", "RUNNING"}

\* As what timerEvent is going to write back, too.
PausedAndActive ==
    Active /\ (m_state = SIM_PAUSED \/ (gui = "waiting" /\ saved = SIM_PAUSED)) =>
        thread = "dbgPaused" \/ gui = "editing"

\* A program that is being started waits for the user of the debugger.
StartsPaused == gui \in {"starting", "restarting"} /\ icon = "Debug" => ~Active

\* A breakpoint is reached only by a program that was let run.
ReachedActive == m_timerOn /\ ~crossed /\ thread = "pauseSim" => Active

\* SIM_WAITING is there only while timerEvent waits, and resumeSim does not go
\* back to it; nor to what the thread read while timerEvent did not wait.
NotLeftWaiting ==
    m_timerOn /\ ~crossed =>
        /\ m_state = SIM_WAITING => gui = "waiting"
        /\ gui = "waiting" => saved # SIM_WAITING /\ (saved = SIM_PAUSED => m_oldState = SIM_RUNNING)
        /\ gui # "waiting" /\ (m_state = SIM_PAUSED \/ thread = "pauseSimWrite") =>
              m_oldState = SIM_RUNNING

DInv == PausedAndActive /\ StartsPaused /\ ReachedActive /\ NotLeftWaiting

USE DEF DInv, Active, PausedAndActive, StartsPaused, ReachedActive, NotLeftWaiting,
        IInv, States, TimerState, TimerPlace, GuiExclusive, ThreadTimed,
        IconOff, DebuggerPlace, Guarded, simState_t,
        SIM_STOPPED, SIM_STARTING, SIM_PAUSED, SIM_WAITING, SIM_RUNNING,
        vars, simVars, guiVars, threadVars, past

\* Nothing is debugged at first.
LEMMA InitDInv == Init => DInv
BY DEF Init

\* The user pauses a program under the debugger only with the debugger's own
\* button: the pause button of the simulator is disabled.
LEMMA UserDInv == ASSUME Guarded, IInv, DInv, User PROVE DInv'
<1>1. CASE PowerCirc
  BY <1>1 DEF PowerCirc, powerCircOn, powerCircOff, stopSim
<1>2. CASE PauseCirc
  BY <1>2 DEF PauseCirc, pauseSim, resumeSim
<1>3. CASE Edit
  BY <1>3 DEF Edit, pauseSim
<1>4. CASE GuardedEdit
  BY <1>4 DEF GuardedEdit, pauseSim
<1>5. CASE DebugReset
  BY <1>5 DEF DebugReset, stopSim
<1>6. CASE DebugRun
  BY <1>6 DEF DebugRun, resumeSim
<1>7. CASE DebugPause
  BY <1>7 DEF DebugPause, pauseSim
<1>8. CASE DebugStop
  <2>1. /\ powerCircOff("dbgStopping") /\ gui = "idle"
        /\ UNCHANGED <<saved, m_oldState, thread, past>>
        /\ dbg' = dbg \/ dbg' = "STOPPED"
    BY <1>8 DEF DebugStop
  <2>2. CASE m_state >= SIM_STARTING
    <3>1. m_state' = SIM_STOPPED /\ gui' = "dbgStopping" /\ ~m_timerOn'
      BY <2>1, <2>2, PowerOff
    <3> QED
      BY <2>1, <3>1
  <2>3. CASE ~(m_state >= SIM_STARTING)
    <3>1. m_state' = m_state /\ gui' = gui /\ m_timerOn' = m_timerOn
      BY <2>1, <2>3, PowerOff
    <3>2. ~m_timerOn
      BY <2>3
    <3> QED
      BY <2>1, <3>1, <3>2
  <2> QED
    BY <2>2, <2>3
<1> QED
  BY <1>1, <1>2, <1>3, <1>4, <1>5, <1>6, <1>7, <1>8 DEF User

\* timerEvent writes back what it found; an edit ends in a state that runs.
LEMMA GuiDInv == ASSUME IInv, DInv, GuiContinues \/ Tick PROVE DInv'
<1>1. CASE Started
  BY <1>1 DEF Started, timerEvent
<1>2. CASE Stopped
  BY <1>2 DEF Stopped
<1>3. CASE Edited
  BY <1>3 DEF Edited, resumeSim
<1>4. CASE Waited
  BY <1>4 DEF Waited
<1>5. CASE UpdateStep
  BY <1>5 DEF UpdateStep
<1>6. CASE TestDone
  <2>1. powerCircOff("stopping") /\ gui = "update" /\ UNCHANGED <<thread, dbg, past>>
    BY <1>6 DEF TestDone
  <2>2. m_state >= SIM_STARTING
    BY <2>1
  <2>3. m_state' = SIM_STOPPED /\ gui' = "stopping" /\ ~m_timerOn'
    BY <2>1, <2>2, PowerOff
  <2> QED
    BY <2>1, <2>3
<1>7. CASE Tick
  BY <1>7 DEF Tick, timerEvent
<1> QED
  BY <1>1, <1>2, <1>3, <1>4, <1>5, <1>6, <1>7 DEF GuiContinues

\* The circuit thread pauses the simulation on its way to telling the debugger.
LEMMA ThreadDInv == ASSUME IInv, DInv, Thread PROVE DInv'
<1>1. CASE Solving
  BY <1>1 DEF Solving
<1>2. CASE Solved
  BY <1>2 DEF Solved
<1>3. CASE BeginFrame
  BY <1>3 DEF BeginFrame
<1>4. CASE NextEvent
  BY <1>4 DEF NextEvent
<1>5. CASE NoMoreEvents
  BY <1>5 DEF NoMoreEvents
<1>6. CASE EventsDone
  BY <1>6 DEF EventsDone
<1>7. CASE CheckState
  BY <1>7 DEF CheckState
<1>8. CASE LeaveFrame
  BY <1>8 DEF LeaveFrame
<1>9. CASE Breakpoint
  BY <1>9 DEF Breakpoint
<1>10. CASE PauseSimRead
  BY <1>10 DEF PauseSimRead
<1>11. CASE PauseSimWrite
  BY <1>11 DEF PauseSimWrite
<1>12. CASE DebuggerPaused
  BY <1>12 DEF DebuggerPaused
<1> QED
  BY <1>1, <1>2, <1>3, <1>4, <1>5, <1>6, <1>7, <1>8, <1>9, <1>10, <1>11, <1>12 DEF Thread

\* Every step preserves it.
LEMMA NextDInv == ASSUME Guarded, IInv, DInv, [Next]_vars PROVE DInv'
<1>1. CASE UNCHANGED vars
  BY <1>1
<1> QED
  BY <1>1, UserDInv, GuiDInv, ThreadDInv DEF Next

\* What the invariant says of a GUI thread that is back in its event loop.
LEMMA DInvContinues == TInv /\ DInv => DebuggerCanContinue
BY DEF DebuggerCanContinue, TInv, Places

HIDE DEF DInv, Active, PausedAndActive, StartsPaused, ReachedActive, NotLeftWaiting,
         IInv, States, TimerState, TimerPlace, GuiExclusive, ThreadTimed,
         IconOff, DebuggerPlace, Guarded, simState_t,
         SIM_STOPPED, SIM_STARTING, SIM_PAUSED, SIM_WAITING, SIM_RUNNING,
         vars, simVars, guiVars, threadVars, past

\* However breakpoints, the debugger's buttons, tests and edits fall between the
\* frames and the ticks: until the pause button is pressed while a breakpoint is
\* being reached, a debugged simulation is never left in SIM_WAITING, and
\* whenever it is paused the debugger's buttons are enabled and make it run.
THEOREM DebuggerContinues == ASSUME Guarded PROVE Spec => []DebuggerCanContinue
<1>1. IInv /\ DInv /\ TInv /\ [Next]_vars => IInv' /\ DInv' /\ TInv'
  BY NextIInv, NextDInv, NextTInv
<1> QED
  BY <1>1, InitIInv, InitDInv, InitTInv, DInvContinues, PTL DEF Spec

=============================================================================
