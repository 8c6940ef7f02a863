----------------------------- MODULE EventList -----------------------------
(***************************************************************************)
(* The simulator's list of pending events (simulator.cpp: addEventAt,      *)
(* cancelEvents, the event loop of runCircuit, startSim, stopSim;          *)
(* e-element.cpp: pauseEvents, resumeEvents).                              *)
(*                                                                         *)
(* The list is threaded through the elements: m_firstEvent is the element  *)
(* of the next event, nextEvent links an element to the one after it and   *)
(* eventTime, 0 for an element without an event, is the time it is due.    *)
(* Elements add and cancel events from their callbacks, at any time and    *)
(* for any element; this module lets them, one call at a time.  That the   *)
(* calls do come one at a time is the business of Simulator.tla.  An event *)
(* before the clock, which a compare unit of McuTimer.tla asks for, is not *)
(* among them.                                                             *)
(*                                                                         *)
(* A frame that is broken off leaves the clock where it is, unless         *)
(* resumeSim comes between the look at m_state that broke it off and the   *)
(* one that ends it (Simulator.tla says when that happens): then the clock *)
(* goes to the end of the frame, past the events that were left.           *)
(*                                                                         *)
(* EventQueue.tla is what the list promises; Implements, below, is that    *)
(* it keeps the promise.                                                   *)
(***************************************************************************)
EXTENDS Integers, Sequences, FiniteSets

CONSTANTS
    Elements,   \* the circuit's elements
    null,       \* nullptr
    Sleepers,   \* those of them that are peripherals of a microcontroller that sleeps
    m_psPF,     \* simulated time per frame, in ps
    Delays,     \* how far ahead an element asks for an event
    MaxTime     \* BOUND: the simulation is followed up to this time

ASSUME ListAssumption ==
    /\ null \notin Elements
    /\ IsFiniteSet(Elements)
    /\ Sleepers \subseteq Elements
    /\ m_psPF \in Nat \ {0}
    /\ Delays \subseteq Nat
    /\ MaxTime \in Nat \ {0}

VARIABLES
    pc,             \* where the simulator is, see Phases
    todo,           \* elements startSim has not initialised yet
    m_circTime,     \* the clock
    endRun,         \* the time at which the frame ends, 0 between two frames
    m_firstEvent,
    nextEvent,
    eventTime,
    m_pendingTime,  \* what was left of an event when pauseEvents took it out
    resumed,        \* m_state is above SIM_WAITING again when the broken frame ends
    overtaken       \* HISTORY: the elements whose event the clock has gone past

list == <<m_firstEvent, nextEvent, eventTime>>
aux == <<resumed, overtaken>>
vars == <<pc, todo, m_circTime, endRun, m_firstEvent, nextEvent, eventTime, m_pendingTime, aux>>

(***************************************************************************)
(* "off"    stopped                 "loop"   a frame, nothing run yet      *)
(* "init"   startSim, initialize()  "event"  in runEvent()                 *)
(* "stamp"  startSim, stamp()       "solve"  in solveCircuit               *)
(* "idle"   between two frames      "broken" between the break and the end *)
(* "stop"   stopSim, initialize()            of runCircuit                 *)
(***************************************************************************)
Phases == {"off", "init", "stamp", "idle", "loop", "solve", "event", "broken", "stop"}

\* Where m_state lets addEventAt through and callbacks or the GUI may call it.
Calling == {"stamp", "idle", "solve", "event"}

TypeOK ==
    /\ pc \in Phases
    /\ todo \subseteq Elements
    /\ m_circTime \in 1 .. MaxTime
    /\ endRun \in 0 .. MaxTime
    /\ m_firstEvent \in Elements \cup {null}
    /\ nextEvent \in [Elements -> Elements \cup {null}]
    /\ eventTime \in [Elements -> 0 .. MaxTime]
    /\ m_pendingTime \in [Sleepers -> -MaxTime .. MaxTime]
    /\ resumed \in BOOLEAN
    /\ overtaken \subseteq Elements

Init ==
    /\ pc = "off"
    /\ todo = {}
    /\ m_circTime = 1
    /\ endRun = 0
    /\ m_firstEvent = null
    /\ nextEvent = [e \in Elements |-> null]
    /\ eventTime = [e \in Elements |-> 0]
    /\ m_pendingTime = [e \in Sleepers |-> 0]
    /\ resumed = FALSE
    /\ overtaken = {}

-----------------------------------------------------------------------------

\* The pointer a walk of the list holds after n steps.
reached[n \in 0 .. Cardinality(Elements)] ==
    IF n = 0 THEN m_firstEvent
    ELSE IF reached[n - 1] = null THEN null ELSE nextEvent[reached[n - 1]]

Linked == {reached[n] : n \in DOMAIN reached} \ {null}

\* MUTANT of insert: behind the events of the same time.
insertBehindEqual(times, t, el) ==
    LET passed == Cardinality({e \in Linked : times[e] <= t})
        last   == IF passed = 0 THEN null ELSE reached[passed - 1]
    IN  /\ eventTime' = [times EXCEPT ![el] = t]
        /\ m_firstEvent' = IF last = null THEN el ELSE m_firstEvent
        /\ nextEvent' = [e \in Elements |-> IF e = el THEN reached[passed]
                                            ELSE IF e = last THEN el
                                            ELSE nextEvent[e]]

(***************************************************************************)
(* addEventAt: walk past everything due before t and link el in there.     *)
(* times is eventTime as the caller leaves it.                             *)
(***************************************************************************)
insert(times, t, el) ==
    LET passed == Cardinality({e \in Linked : times[e] < t})
        last   == IF passed = 0 THEN null ELSE reached[passed - 1]
    IN  /\ eventTime' = [times EXCEPT ![el] = t]
        /\ m_firstEvent' = IF last = null THEN el ELSE m_firstEvent
        /\ nextEvent' = [e \in Elements |-> IF e = el THEN reached[passed]
                                            ELSE IF e = last THEN el
                                            ELSE nextEvent[e]]

\* MUTANT of addEventAt: an element with an event is linked in again.
addEventAgain(t, el) == insert(eventTime, t, el)

\* An element that already has an event keeps it.
addEventAt(t, el) == eventTime[el] = 0 /\ insert(eventTime, t, el)

(***************************************************************************)
(* cancelEvents: unlink el wherever the walk meets it.                     *)
(***************************************************************************)
cancelEvents(el) ==
    /\ eventTime[el] # 0
    /\ eventTime' = [eventTime EXCEPT ![el] = 0]
    /\ IF el \notin Linked
         THEN UNCHANGED <<m_firstEvent, nextEvent>>
         ELSE IF m_firstEvent = el
         THEN /\ m_firstEvent' = nextEvent[el]
              /\ nextEvent' = [nextEvent EXCEPT ![el] = null]
         ELSE /\ m_firstEvent' = m_firstEvent
              /\ nextEvent' = [e \in Elements |->
                                 IF e = el THEN null
                                 ELSE IF e \in Linked /\ nextEvent[e] = el
                                        THEN nextEvent[el] ELSE nextEvent[e]]

\* Elements whose event was overtaken and then put off by pauseEvents.
putOff == {e \in Sleepers : m_pendingTime[e] < 0}

\* The event at the head is taken out and its element's callback starts.
popEvent ==
    /\ m_firstEvent' = nextEvent[m_firstEvent]
    /\ nextEvent' = [nextEvent EXCEPT ![m_firstEvent] = null]
    /\ eventTime' = [eventTime EXCEPT ![m_firstEvent] = 0]
    /\ overtaken' = (overtaken \ {m_firstEvent}) \cup putOff
    /\ pc' = "event"

-----------------------------------------------------------------------------

\* startSim: resetSim empties the list by its head only; the elements' own
\* fields are still those of the last simulation.
StartSim ==
    /\ pc = "off"
    /\ pc' = "init"
    /\ todo' = Elements
    /\ m_circTime' = 1
    /\ m_firstEvent' = null
    /\ overtaken' = putOff
    /\ UNCHANGED <<endRun, nextEvent, eventTime, m_pendingTime, resumed>>

\* startSim: eventTime = 0, then initialize(), which may ask for the
\* element's own first event.
InitElement(el) ==
    /\ pc = "init"
    /\ el \in todo
    /\ todo' = todo \ {el}
    /\ LET fresh == [eventTime EXCEPT ![el] = 0]
       IN  \/ eventTime' = fresh /\ UNCHANGED <<m_firstEvent, nextEvent>>
           \/ \E d \in Delays :
                /\ m_circTime + d <= MaxTime
                /\ insert(fresh, m_circTime + d, el)
    /\ UNCHANGED <<pc, m_circTime, endRun, m_pendingTime, aux>>

\* startSim: every element is initialised, the elements are stamped.
Initialised ==
    /\ pc = "init"
    /\ todo = {}
    /\ pc' = "stamp"
    /\ UNCHANGED <<todo, m_circTime, endRun, list, m_pendingTime, aux>>

Stamped ==
    /\ pc = "stamp"
    /\ pc' = "idle"
    /\ UNCHANGED <<todo, m_circTime, endRun, list, m_pendingTime, aux>>

\* A callback, or the GUI between two frames, asks for an event.
AddEvent(el, d) ==
    /\ pc \in Calling
    /\ m_circTime + d <= MaxTime
    /\ addEventAt(m_circTime + d, el)
    /\ UNCHANGED <<pc, todo, m_circTime, endRun, m_pendingTime, aux>>

\* cancelEvents is not refused in a stopped simulation: initialize() calls it
\* from stopSim, the destructor of an element at any time.
CancelEvents(el) ==
    /\ pc \in Calling \cup {"stop", "off"}
    /\ cancelEvents(el)
    /\ UNCHANGED <<pc, todo, m_circTime, endRun, m_pendingTime, aux>>

\* The peripheral of a sleeping microcontroller keeps what is left of its event.
\* Less than nothing is left of one that was overtaken: the difference is
\* unsigned, and wraps once more when the time is added again.
PauseEvents(el) ==
    /\ pc \in Calling
    /\ IF eventTime[el] # 0
         THEN /\ m_pendingTime' = [m_pendingTime EXCEPT ![el] = eventTime[el] - m_circTime]
              /\ cancelEvents(el)
         ELSE /\ m_pendingTime' = [m_pendingTime EXCEPT ![el] = 0]
              /\ UNCHANGED list
    /\ UNCHANGED <<pc, todo, m_circTime, endRun, aux>>

ResumeEvents(el) ==
    /\ pc \in Calling
    /\ m_pendingTime[el] # 0
    /\ m_circTime + m_pendingTime[el] \in 1 .. MaxTime
    /\ m_pendingTime' = [m_pendingTime EXCEPT ![el] = 0]
    /\ IF eventTime[el] = 0
         THEN addEventAt(m_circTime + m_pendingTime[el], el)
         ELSE UNCHANGED list
    /\ UNCHANGED <<pc, todo, m_circTime, endRun, aux>>

-----------------------------------------------------------------------------

\* runCircuit begins a frame: endRun is taken after the first solveCircuit,
\* whose callbacks the "idle" phase stands for too.
RunCircuit ==
    /\ pc = "idle"
    /\ m_circTime + m_psPF <= MaxTime
    /\ endRun' = m_circTime + m_psPF
    /\ pc' = "loop"
    /\ UNCHANGED <<todo, m_circTime, list, m_pendingTime, aux>>

\* MUTANT of NextTimeStep: the clock is set after the event has been freed.
NextTimeStepFreed ==
    /\ pc \in {"loop", "solve"}
    /\ m_firstEvent # null
    /\ eventTime[m_firstEvent] <= endRun
    /\ popEvent
    /\ m_circTime' = eventTime'[m_firstEvent]
    /\ UNCHANGED <<todo, endRun, m_pendingTime, resumed>>

\* The outer loop: the clock jumps to the first event of the frame, back to it
\* if it was overtaken.
NextTimeStep ==
    /\ pc \in {"loop", "solve"}
    /\ m_firstEvent # null
    /\ eventTime[m_firstEvent] <= endRun
    /\ m_circTime' = eventTime[m_firstEvent]
    /\ popEvent
    /\ UNCHANGED <<todo, endRun, m_pendingTime, resumed>>

\* The inner loop: another event with the same time stamp.
SameTimeStep ==
    /\ pc = "event"
    /\ m_firstEvent # null
    /\ eventTime[m_firstEvent] = m_circTime
    /\ popEvent
    /\ UNCHANGED <<todo, m_circTime, endRun, m_pendingTime, resumed>>

\* No more events with this time stamp: solveCircuit, and its callbacks.
Solve ==
    /\ pc = "event"
    /\ m_firstEvent # null => eventTime[m_firstEvent] # m_circTime
    /\ pc' = "solve"
    /\ UNCHANGED <<todo, m_circTime, endRun, list, m_pendingTime, aux>>

\* Nothing more is due in the frame: the clock goes to its end, unless m_state
\* is no longer above SIM_WAITING by then.
EndFrame ==
    /\ pc \in {"loop", "solve"}
    /\ m_firstEvent # null => eventTime[m_firstEvent] > endRun
    /\ m_circTime' \in {m_circTime, endRun}
    /\ pc' = "idle"
    /\ endRun' = 0
    /\ UNCHANGED <<todo, list, m_pendingTime, aux>>

\* The GUI paused, stopped or waits for the thread: m_state < SIM_RUNNING after
\* a time step, whatever else is due in the frame.
BreakFrame ==
    /\ pc = "solve"
    /\ pc' = "broken"
    /\ UNCHANGED <<todo, m_circTime, endRun, list, m_pendingTime, aux>>

\* The GUI resumes before the thread has looked at m_state again.
ResumeSim ==
    /\ pc = "broken"
    /\ resumed' = TRUE
    /\ UNCHANGED <<pc, todo, m_circTime, endRun, list, m_pendingTime, overtaken>>

\* The end of runCircuit: m_circTime = endRun if m_state is above SIM_WAITING,
\* else the clock stays.
LeaveFrame ==
    /\ pc = "broken"
    /\ pc' = "idle"
    /\ endRun' = 0
    /\ resumed' = FALSE
    /\ IF resumed
         THEN /\ m_circTime' = endRun
              /\ overtaken' = overtaken \cup
                    {e \in Elements : eventTime[e] # 0 /\ eventTime[e] < endRun}
         ELSE UNCHANGED <<m_circTime, overtaken>>
    /\ UNCHANGED <<todo, list, m_pendingTime>>

\* stopSim: the thread is gone and m_state is SIM_STOPPED, the elements are
\* initialised again; none of them can add an event.
StopSim ==
    /\ pc = "idle"
    /\ pc' = "stop"
    /\ UNCHANGED <<todo, m_circTime, endRun, list, m_pendingTime, aux>>

\* MUTANT of Stopped: the list is not cleared.
StoppedUncleared ==
    /\ pc = "stop"
    /\ pc' = "off"
    /\ UNCHANGED <<todo, m_circTime, endRun, list, m_pendingTime, aux>>

\* stopSim: clearEventList.
Stopped ==
    /\ pc = "stop"
    /\ pc' = "off"
    /\ m_firstEvent' = null
    /\ UNCHANGED <<todo, m_circTime, endRun, nextEvent, eventTime, m_pendingTime, aux>>

Next ==
    \/ StartSim \/ Initialised \/ Stamped
    \/ \E el \in Elements :
          \/ InitElement(el)
          \/ \E d \in Delays : AddEvent(el, d)
          \/ CancelEvents(el)
    \/ \E el \in Sleepers : PauseEvents(el) \/ ResumeEvents(el)
    \/ RunCircuit \/ NextTimeStep \/ SameTimeStep \/ Solve \/ EndFrame
    \/ BreakFrame \/ ResumeSim \/ LeaveFrame
    \/ StopSim \/ Stopped

Spec == Init /\ [][Next]_vars

-----------------------------------------------------------------------------

\* Left over from the last simulation: startSim has yet to reset it.
Stale(e) == pc = "off" \/ e \in todo

\* A walk from m_firstEvent comes to an end, and the elements it does not
\* meet have no event and no link of their own, except leftovers of the last
\* simulation: no order of addEventAt, cancelEvents, pauseEvents, initialize()
\* and deliveries loses an event, leaves one behind or ties the list in a loop;
\* and when a simulation is over, or its elements are being initialized, nothing
\* of an earlier one is in the list.
ListIntact ==
    /\ reached[Cardinality(Elements)] = null
    /\ \A e \in Elements : ~Stale(e) => (e \in Linked <=> eventTime[e] # 0)
    /\ pc \in {"off", "init"} => \A e \in Linked : ~Stale(e)

\* The list implements EventQueue: its elements from head to tail are the
\* queue, and the leftovers of the last simulation count for nothing.
events ==
    LET length == CHOOSE n \in DOMAIN reached :
                     /\ reached[n] = null
                     /\ \A k \in DOMAIN reached : k < n => reached[k] # null
    IN  [i \in 1 .. length |-> reached[i - 1]]

Queue == INSTANCE EventQueue
    WITH Time  <- 1 .. MaxTime,
         queue <- events,
         due   <- [e \in Elements |-> IF Stale(e) THEN 0 ELSE eventTime[e]],
         now   <- m_circTime

Implements == Queue!Spec

============================================================================
