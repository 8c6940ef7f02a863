---------------------------- MODULE EventQueue ----------------------------
(***************************************************************************)
(* What the simulator's event list promises to the elements that use it    *)
(* (simulator.cpp: addEventAt, cancelEvents, the event loop of runCircuit).*)
(*                                                                         *)
(* An element has at most one event, due at an absolute time.  Events are  *)
(* delivered in the order of their times; of two events with one time, the *)
(* one scheduled later is delivered first.  The clock only moves to the    *)
(* time of the event being delivered, or over a stretch of time in which   *)
(* nothing is due - with one exception: when the simulation is resumed     *)
(* while a frame is being broken off, the clock overtakes what was left of *)
(* that frame.  The elements overtaken are named, and the promises are     *)
(* made to all others.  EventList.tla is the linked list that implements   *)
(* this.                                                                   *)
(***************************************************************************)
EXTENDS Naturals, Sequences

CONSTANTS
    Elements,   \* the circuit's elements (eElement)
    Time        \* simulation times, in ps

\* The clock starts at 1 (resetSim) and never comes back to 0: eventTime = 0 is
\* how an element without an event is told from one that has an event.
ASSUME TimeAssumption == Time \subseteq Nat \ {0} /\ 1 \in Time

VARIABLES
    queue,      \* the elements with an event, in the order of delivery
    due,        \* the time of each element's event, 0 if it has none
    now,        \* m_circTime
    resumed,    \* resumeSim was called while a frame was being broken off
    overtaken   \* HISTORY: the elements whose event the clock has overtaken

vars == <<queue, due, now, resumed, overtaken>>

TypeOK ==
    /\ queue \in Seq(Elements)
    /\ due \in [Elements -> Time \cup {0}]
    /\ now \in Time
    /\ resumed \in BOOLEAN
    /\ overtaken \subseteq Elements

Init ==
    /\ queue = <<>>
    /\ due = [e \in Elements |-> 0]
    /\ now = 1
    /\ resumed = FALSE
    /\ overtaken = {}

-----------------------------------------------------------------------------

\* s with e put in at position k.
Inserted(s, k, e) ==
    [i \in 1 .. Len(s) + 1 |->
        IF i < k THEN s[i] ELSE IF i = k THEN e ELSE s[i - 1]]

\* s without what is at position k.
Deleted(s, k) ==
    [i \in 1 .. Len(s) - 1 |-> IF i < k THEN s[i] ELSE s[i + 1]]

\* MUTANT of Schedule: wherever the walk happens to stop.
ScheduleAnywhere(e, t) ==
    /\ due[e] = 0
    /\ t >= now \/ e \in overtaken
    /\ \E k \in 1 .. Len(queue) + 1 : queue' = Inserted(queue, k, e)
    /\ due' = [due EXCEPT ![e] = t]
    /\ UNCHANGED <<now, resumed, overtaken>>

\* Before everything that is due at t or later, after everything due earlier.
\* An event that was overtaken may be put off and come back, still in the past.
Schedule(e, t) ==
    /\ due[e] = 0
    /\ t >= now \/ e \in overtaken
    /\ \E k \in 1 .. Len(queue) + 1 :
          /\ \A i \in 1 .. k - 1 : due[queue[i]] < t
          /\ \A i \in k .. Len(queue) : t <= due[queue[i]]
          /\ queue' = Inserted(queue, k, e)
    /\ due' = [due EXCEPT ![e] = t]
    /\ UNCHANGED <<now, resumed, overtaken>>

\* MUTANT of Cancel: eventTime is not set to 0.
CancelKeepingTime(e) ==
    /\ \E k \in 1 .. Len(queue) : queue[k] = e /\ queue' = Deleted(queue, k)
    /\ UNCHANGED <<due, now, resumed, overtaken>>

\* An event that is cancelled is never delivered.
Cancel(e) ==
    /\ \E k \in 1 .. Len(queue) :
          /\ queue[k] = e
          /\ queue' = Deleted(queue, k)
    /\ due' = [due EXCEPT ![e] = 0]
    /\ UNCHANGED <<now, resumed, overtaken>>

\* The first event is delivered, at its own time; if it was overtaken, the clock
\* goes back to it.
Deliver ==
    /\ queue # <<>>
    /\ now' = due[queue[1]]
    /\ due' = [due EXCEPT ![queue[1]] = 0]
    /\ queue' = Deleted(queue, 1)
    /\ overtaken' \in {overtaken, overtaken \ {queue[1]}}
    /\ UNCHANGED resumed

\* MUTANT of PassTime: the clock goes to the end of the frame regardless.
PassTimeRegardless(t) ==
    /\ t >= now
    /\ now' = t
    /\ UNCHANGED <<queue, due, resumed, overtaken>>

\* Time passes over a stretch in which nothing is due.
PassTime(t) ==
    /\ t >= now
    /\ \A i \in 1 .. Len(queue) : t < due[queue[i]]
    /\ now' = t
    /\ UNCHANGED <<queue, due, resumed, overtaken>>

\* A handler that had paused the simulation resumes it too early ...
Resume == resumed' = TRUE /\ UNCHANGED <<queue, due, now, overtaken>>

\* ... and once, the clock goes on over events that are due.
Overtake(t) ==
    /\ resumed
    /\ t >= now
    /\ now' = t
    /\ overtaken' = overtaken \cup {e \in Elements : due[e] # 0 /\ due[e] < t}
    /\ resumed' = FALSE
    /\ UNCHANGED <<queue, due>>

\* MUTANT of Discard: the clock starts at 0.
DiscardToZero ==
    /\ queue' = <<>>
    /\ due' = [e \in Elements |-> 0]
    /\ now' \in {0, now}
    /\ overtaken' \in SUBSET overtaken
    /\ UNCHANGED resumed

\* The simulation stops or starts: no event survives.
Discard ==
    /\ queue' = <<>>
    /\ due' = [e \in Elements |-> 0]
    /\ now' \in {1, now}
    /\ overtaken' \in SUBSET overtaken
    /\ UNCHANGED resumed

Next ==
    \/ \E e \in Elements, t \in Time : Schedule(e, t)
    \/ \E e \in Elements : Cancel(e)
    \/ Deliver
    \/ \E t \in Time : PassTime(t) \/ Overtake(t)
    \/ Resume
    \/ Discard

Spec == Init /\ [][Next]_vars

-----------------------------------------------------------------------------

\* The elements in the queue are those that have an event ...
QueuedIffDue ==
    \A e \in Elements : due[e] # 0 <=> \E i \in 1 .. Len(queue) : queue[i] = e

\* ... and none is in it twice.
Distinct ==
    \A i, j \in 1 .. Len(queue) : queue[i] = queue[j] => i = j

\* The queue is in the order of delivery ...
Sorted ==
    \A i, j \in 1 .. Len(queue) : i < j => due[queue[i]] <= due[queue[j]]

\* ... and all of it is due now or in the future, but for what was overtaken.
NothingLate ==
    \A i \in 1 .. Len(queue) : queue[i] \in overtaken \/ now <= due[queue[i]]

\* Every event that was scheduled and neither cancelled nor delivered is in the
\* queue once, and nothing else is: no event is lost, none is left behind.
ExactlyOnce == QueuedIffDue /\ Distinct

\* No event waits behind a later one, and none is late that was not overtaken:
\* the event loop takes the clock from the first event without comparing it
\* with anything.
InOrderOfTime == Sorted /\ NothingLate

\* The clock never runs backwards, except that a new simulation starts it at 1
\* and that it goes back to an event it has overtaken.
ClockForward ==
    [][now' >= now \/ (queue' = <<>> /\ now' = 1)
                   \/ (queue # <<>> /\ queue[1] \in overtaken)]_vars

===========================================================================
