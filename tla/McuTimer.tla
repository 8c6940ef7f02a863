------------------------------ MODULE McuTimer ------------------------------
(***************************************************************************)
(* A timer of a microcontroller (mcutimer.cpp) with one output compare     *)
(* unit (mcuocunit.cpp), as the firmware and the event list drive them.    *)
(*                                                                         *)
(* The timer does not count.  It adds an event for the time of its next    *)
(* overflow, and its unit one for the next compare match; the count is     *)
(* worked out from the time that is left when somebody asks for it, and    *)
(* whatever changes the timer schedules anew from that count.  With an     *)
(* external clock it counts the edges of a pin instead.                    *)
(*                                                                         *)
(* Time is in steps of an instruction; a tick of the timer is one or       *)
(* Prescale of them.  Of the modes there are the one that counts up to a   *)
(* top and starts again, and the one that counts up and down, m_bidirec.   *)
(* Firmware is not in the repository: it does what its habits allow.       *)
(***************************************************************************)
EXTENDS Integers

CONSTANTS
    Prescale,
    MaxCount,       \* m_maxCount: 0xFF or 0xFFFF in the code
    NoEvent,
    MaxTime,        \* bound on the time
    MaxSlips,       \* bound on the calls that schedule anew in a period
    Firmwares       \* sets of Habits

(***************************************************************************)
(* "prescaled"  a tick is Prescale instructions                            *)
(* "compare"    the timer has the unit, and its register is written        *)
(* "write"      the counter and, counting up, the top are written          *)
(* "stop"       the timer is stopped, with its internal clock, and started *)
(* "sleep"      the core sleeps, for a while, and the timer with it (PIC)  *)
(* "nap"        the core may also be woken at once                         *)
(* "hasty"      the instruction the core is woken by is about the timer    *)
(* "idle"       the core sleeps and the timer does not (AVR)               *)
(* "external"   the external clock is selected                             *)
(* "halted"     also of a timer that is stopped, or is stopped with it     *)
(* "internal"   the internal clock is selected again                       *)
(***************************************************************************)
Habits == {"prescaled", "compare", "write", "stop", "sleep", "nap", "hasty", "idle", "external",
           "halted", "internal"}

ASSUME McuTimerAssumption ==
    /\ {Prescale, MaxCount, MaxSlips} \subseteq Nat \ {0}
    /\ MaxTime \in Nat
    /\ NoEvent \notin Int
    /\ Firmwares \subseteq SUBSET Habits

VARIABLES
    firmware,
    now,            \* Simulator's m_circTime
    m_running, m_sleeping, m_extClock,
    m_bidirec, m_reverse,
    m_countVal, m_ovfMatch, m_ovfTime, m_timeOffset, m_circTime,
    event,          \* the time of the timer's event, or NoEvent
    m_comMatch, m_extMatch,
    ocEvent,        \* the time of the unit's event, or NoEvent
    asleep,         \* since when the core sleeps, or NoEvent
    woken,          \* the core runs, and its modules have not been woken yet
    access,         \* when the firmware last did something, or NoEvent
    \* history
    left,           \* running time to the overflow, had nothing intervened
    slips,          \* calls that scheduled anew since the count was set
    expected        \* the unit is still to match in this period

mode == <<m_running, m_sleeping, m_extClock, m_bidirec, m_reverse, asleep, woken>>
counter == <<m_countVal, m_timeOffset, m_circTime>>
events == <<m_ovfTime, event, ocEvent, m_extMatch>>
history == <<left, slips, expected>>
vars == <<firmware, now, access, mode, counter, events, m_ovfMatch, m_comMatch, history>>

Times == 0 .. MaxTime + 2 * (MaxCount + 1) * Prescale

TypeOK ==
    /\ firmware \in Firmwares
    /\ now \in 0 .. MaxTime
    /\ {m_running, m_sleeping, m_extClock, m_bidirec, m_reverse, woken, expected} \subseteq BOOLEAN
    /\ m_countVal \in 0 .. MaxCount + 1
    /\ m_ovfMatch \in 0 .. MaxCount
    /\ m_ovfTime \in Times
    /\ m_timeOffset \in 0 .. Prescale - 1
    /\ m_circTime \in 0 .. MaxTime
    /\ event \in Times \cup {NoEvent}
    /\ m_comMatch \in 0 .. MaxCount
    /\ m_extMatch \in -1 .. MaxCount
    /\ ocEvent \in Int \cup {NoEvent}
    /\ asleep \in 0 .. MaxTime \cup {NoEvent}
    /\ access \in 0 .. MaxTime \cup {NoEvent}
    /\ left \in Int
    /\ slips \in 0 .. MaxSlips

HasUnit == "compare" \in firmware

m_psPerTick == IF "prescaled" \in firmware THEN Prescale ELSE 1

\* Ticks from the count's start to the overflow.
m_ovfPeriod(top) == IF m_bidirec THEN top ELSE top + 1

\* The timer is being started: the first of its events is about to be scheduled.
Init ==
    /\ firmware \in Firmwares
    /\ now = 0
    /\ m_running = FALSE /\ m_sleeping = FALSE /\ m_extClock = FALSE
    /\ m_bidirec \in BOOLEAN
    /\ m_reverse = FALSE
    /\ m_countVal = 0
    /\ m_ovfMatch = MaxCount
    /\ m_ovfTime = 0 /\ m_timeOffset = 0 /\ m_circTime = 0
    /\ event = NoEvent
    /\ m_comMatch \in IF HasUnit THEN 0 .. MaxCount ELSE {0}
    /\ m_extMatch = 0
    /\ ocEvent = NoEvent
    /\ asleep = NoEvent
    /\ woken = FALSE
    /\ access = NoEvent
    /\ left = m_ovfPeriod(MaxCount) * m_psPerTick
    /\ slips = 0
    /\ expected = HasUnit

-----------------------------------------------------------------------------

\* MUTANT of countedOk: the count is taken for certain.
countedAlways(cycles2ovf) == TRUE

\* Only a count that has begun can be told from the time that is left.  A time that
\* has passed is a very long one, unsigned.
countedOk(cycles2ovf) == 0 <= cycles2ovf /\ m_ovfMatch > cycles2ovf

\* calcCounter, by updtCount: the count from the time that is left, and how much
\* of the tick is left.
updtCount ==
    LET time2ovf == m_ovfTime - now
        cycles2ovf == time2ovf \div m_psPerTick
        part == time2ovf % m_psPerTick
    IN  IF ~m_running \/ m_extClock \/ m_circTime = now
          THEN UNCHANGED counter
          ELSE /\ m_circTime' = now
               /\ IF countedOk(cycles2ovf)
                    THEN /\ m_timeOffset' = part
                         /\ m_countVal' = m_ovfMatch - cycles2ovf - (IF part # 0 THEN 1 ELSE 0)
                    ELSE UNCHANGED <<m_timeOffset, m_countVal>>

\* MUTANT of timeTo: whole ticks.
timeToWhole(count) == (count - m_countVal') * m_psPerTick

\* The time until the counter reaches a count.
timeTo(count) ==
    (count - m_countVal') * m_psPerTick
        - (IF m_timeOffset' # 0 THEN m_psPerTick - m_timeOffset' ELSE 0)

\* The count at which the unit matches; -1 is none.
match(top, reverse, com) ==
    IF ~reverse THEN com ELSE IF com > top THEN -1 ELSE top - com

\* MUTANT of stillAhead: not the count of this moment.
later(m) == m <= m_ovfMatch' /\ m > m_countVal'

\* "be sure next comp match is still ahead"
stillAhead(m) == m <= m_ovfMatch' /\ m >= m_countVal'

\* McuOcUnit::sheduleEvents.
ocSheduleEvents ==
    LET m == match(m_ovfMatch', m_reverse', m_comMatch')
    IN  /\ ocEvent' = IF HasUnit /\ ~m_extClock' /\ stillAhead(m) THEN now + timeTo(m) ELSE NoEvent
        /\ m_extMatch' = IF m_extClock' THEN m ELSE m_extMatch

\* sheduleEvents, with the timer's event as it is.  It is left alone when the
\* overflow is still to come at the same time.  "OVF before counter: next OVF missed".
sheduleEvents(e) ==
    IF ~m_running'
      THEN event' = e /\ UNCHANGED <<m_ovfTime, ocEvent, m_extMatch>>
      ELSE /\ ocSheduleEvents
           /\ IF m_extClock'
                THEN event' = NoEvent /\ UNCHANGED m_ovfTime
                ELSE /\ m_ovfTime' = now + timeTo(m_ovfPeriod(m_ovfMatch')
                                                 + IF m_countVal' > m_ovfMatch' THEN MaxCount ELSE 0)
                     /\ event' = IF m_ovfTime' # m_ovfTime THEN m_ovfTime' ELSE e

\* History: a period begins with a count.
Begin(count, top) ==
    /\ left' = (m_ovfPeriod(top) - count) * m_psPerTick
    /\ slips' = 0
    /\ expected' = LET m == match(top, m_reverse', m_comMatch')
                   IN  HasUnit /\ m <= top /\ m >= count /\ (m_extClock => m > count)

\* History: the timer has been scheduled anew.
Slip == slips < MaxSlips /\ slips' = slips + 1

\* runEvent of the timer, by the event list or by clockStep.
overflow ==
    IF ~m_running
      THEN UNCHANGED <<m_countVal, m_timeOffset, m_reverse, m_ovfTime, ocEvent, m_extMatch, history>>
           /\ event' = NoEvent
      ELSE /\ m_countVal' = 0
           /\ m_timeOffset' = 0
           /\ m_reverse' = (m_bidirec /\ ~m_reverse)
           /\ sheduleEvents(NoEvent)
           /\ Begin(0, m_ovfMatch)

-----------------------------------------------------------------------------
\* The event list.  Of two events of one time it runs the unit's first, which is
\* always the one that was added later.

Overflow ==
    /\ ~woken
    /\ event = now
    /\ ocEvent # now
    /\ UNCHANGED <<firmware, now, access, m_running, m_sleeping, m_extClock, m_bidirec, asleep, woken,
                   m_circTime, m_ovfMatch, m_comMatch>>
    /\ overflow

\* McuOcUnit::runEvent: a compare match.
Match ==
    /\ ~woken
    /\ ocEvent = now
    /\ ocEvent' = NoEvent
    /\ expected' = FALSE
    /\ UNCHANGED <<firmware, now, access, mode, counter, m_ovfTime, event, m_extMatch, m_ovfMatch,
                   m_comMatch, left, slips>>

Advance ==
    /\ ~woken
    /\ now < MaxTime
    /\ now \notin {event, ocEvent}
    /\ now' = now + 1
    /\ left' = IF m_running /\ ~m_sleeping /\ ~m_extClock THEN left - 1 ELSE left
    /\ UNCHANGED <<firmware, access, mode, counter, events, m_ovfMatch, m_comMatch, slips, expected>>

-----------------------------------------------------------------------------
\* The firmware.

\* An instruction does one thing, and takes time.  One is run before the modules are
\* woken, in the middle of eMcu::sleep.
Instruction ==
    /\ asleep = NoEvent
    /\ woken => "hasty" \in firmware
    /\ access # now
    /\ access' = now

Runs(habit) == habit \in firmware /\ Instruction

\* enable: the count is kept where it is, or goes on from there.
Stop ==
    /\ Runs("stop")
    /\ m_running
    /\ ~m_extClock \/ "halted" \in firmware
    /\ m_running' = FALSE
    /\ updtCount
    /\ UNCHANGED <<firmware, now, m_sleeping, m_extClock, m_bidirec, m_reverse, asleep, woken, events,
                   m_ovfMatch, m_comMatch, history>>

Start ==
    /\ Instruction
    /\ ~m_running
    /\ m_running' = TRUE
    /\ UNCHANGED <<m_sleeping, m_extClock, m_bidirec, m_reverse, asleep, woken, counter, m_ovfMatch,
                   m_comMatch>>
    /\ sheduleEvents(event)
    /\ Slip
    /\ UNCHANGED <<firmware, now, left, expected>>

\* The count is read.
Read ==
    /\ Instruction
    /\ updtCount
    /\ UNCHANGED <<firmware, now, mode, events, m_ovfMatch, m_comMatch, history>>

\* countWriteL, with a count before the overflow, and not counting down.
WriteCount(v) ==
    /\ Runs("write")
    /\ ~m_reverse
    /\ v < m_ovfPeriod(m_ovfMatch)
    /\ IF m_running /\ ~m_extClock /\ m_circTime # now
         THEN /\ m_circTime' = now
              /\ LET time2ovf == m_ovfTime - now
                 IN  m_timeOffset' = IF countedOk(time2ovf \div m_psPerTick)
                                       THEN time2ovf % m_psPerTick
                                       ELSE m_timeOffset
         ELSE UNCHANGED <<m_circTime, m_timeOffset>>
    /\ m_countVal' = v
    /\ UNCHANGED <<mode, m_ovfMatch, m_comMatch>>
    /\ sheduleEvents(event)
    /\ Begin(v, m_ovfMatch)
    /\ UNCHANGED <<firmware, now>>

\* topReg0Changed, counting up, with a top that has not been passed.  Its ocrWriteL
\* is that of the unit A, whose register this is and which matches at the top; the
\* unit here is another one.
WriteTop(top) ==
    /\ Runs("write")
    /\ ~m_bidirec
    /\ updtCount
    /\ top # m_ovfMatch
    /\ top >= m_countVal'
    /\ top * m_psPerTick >= m_ovfPeriod(m_ovfMatch) * m_psPerTick - left
    /\ m_ovfMatch' = top
    /\ UNCHANGED <<mode, m_comMatch>>
    /\ sheduleEvents(event)
    /\ Slip
    /\ left' = left + (top - m_ovfMatch) * m_psPerTick
    /\ expected' = (expected /\ m_comMatch <= top)
    /\ UNCHANGED <<firmware, now>>

\* ocrWriteL: the unit is scheduled anew, the timer is not.
WriteCompare(v) ==
    /\ Runs("compare")
    /\ m_comMatch' = v
    /\ updtCount
    /\ UNCHANGED <<mode, m_ovfMatch>>
    /\ IF m_running THEN ocSheduleEvents ELSE UNCHANGED <<ocEvent, m_extMatch>>
    /\ expected' = LET m == match(m_ovfMatch, m_reverse, v)
                       elapsed == m_ovfPeriod(m_ovfMatch) * m_psPerTick - left
                   IN  m <= m_ovfMatch /\ m * m_psPerTick >= elapsed
                         /\ (m_extClock => m > m_countVal)
    /\ UNCHANGED <<firmware, now, m_ovfTime, event, left, slips>>

\* sleep: the core stops, and the timer with it; the unit's event stays.  A timer
\* that does not sleep takes the branch of waking up.
Sleep ==
    /\ Instruction
    /\ firmware \cap {"sleep", "idle"} # {}
    /\ asleep' = now
    /\ m_sleeping' = ("sleep" \in firmware)
    /\ UNCHANGED <<m_running, m_extClock, m_bidirec, m_reverse, woken, m_ovfMatch, m_comMatch>>
    /\ IF m_extClock
         THEN UNCHANGED <<counter, events, slips>>
         ELSE IF m_sleeping'
           THEN /\ event' = NoEvent
                /\ updtCount
                /\ UNCHANGED <<m_ovfTime, ocEvent, m_extMatch, slips>>
           ELSE UNCHANGED counter /\ sheduleEvents(event) /\ Slip
    /\ UNCHANGED <<firmware, now, left, expected>>

\* Something wakes the core, which runs an instruction at once.
Wake ==
    /\ asleep # NoEvent
    /\ asleep < now \/ "nap" \in firmware
    /\ asleep' = NoEvent
    /\ woken' = TRUE
    /\ UNCHANGED <<firmware, now, access, m_running, m_sleeping, m_extClock, m_bidirec, m_reverse, counter,
                   events, m_ovfMatch, m_comMatch, history>>

\* Then the timer is woken.
Rouse ==
    /\ woken
    /\ woken' = FALSE
    /\ m_sleeping' = FALSE
    /\ UNCHANGED <<access, m_running, m_extClock, m_bidirec, m_reverse, asleep, counter, m_ovfMatch,
                   m_comMatch>>
    /\ IF m_extClock THEN UNCHANGED <<events, slips>> ELSE sheduleEvents(event) /\ Slip
    /\ UNCHANGED <<firmware, now, left, expected>>

\* enableExtClock.  A match of this very moment may be lost.
EnableExtClock(en) ==
    /\ Runs(IF en THEN "external" ELSE "internal")
    /\ m_extClock # en
    /\ m_running \/ "halted" \in firmware
    /\ updtCount
    /\ m_extClock' = en
    /\ UNCHANGED <<m_running, m_sleeping, m_bidirec, m_reverse, asleep, woken, m_ovfMatch, m_comMatch>>
    /\ sheduleEvents(event)
    /\ Slip
    /\ expected' = (expected /\ match(m_ovfMatch, m_reverse, m_comMatch) > m_countVal')
    /\ UNCHANGED <<firmware, now, left>>

\* clockStep: an edge of the clock pin.  It does not look whether the timer runs; one
\* that does not counts on, to the bound.
ClockStep ==
    /\ m_extClock
    /\ ~m_sleeping /\ ~woken
    /\ m_countVal <= MaxCount
    /\ UNCHANGED <<access, m_running, m_sleeping, m_extClock, m_bidirec, asleep, woken, m_circTime,
                   m_ovfMatch, m_comMatch>>
    /\ IF m_countVal = m_ovfMatch /\ m_running
         THEN overflow
         ELSE /\ m_countVal' = m_countVal + 1
              /\ left' = IF m_running THEN left - m_psPerTick ELSE left
              /\ expected' = (expected /\ m_countVal' # m_extMatch)
              /\ UNCHANGED <<m_reverse, m_timeOffset, events, slips>>
    /\ UNCHANGED <<firmware, now>>

-----------------------------------------------------------------------------

Next ==
    \/ Overflow \/ Match \/ Advance
    \/ Stop \/ Start \/ Read \/ Sleep \/ Wake \/ Rouse \/ ClockStep
    \/ \E v \in 0 .. MaxCount : WriteCount(v) \/ WriteTop(v) \/ WriteCompare(v)
    \/ \E en \in BOOLEAN : EnableExtClock(en)

Spec == Init /\ [][Next]_vars

-----------------------------------------------------------------------------

\* A timer that runs overflows: its event is in the list, for the time at which
\* the overflow is due had nothing intervened.  It may be early by the part of a
\* tick that a write of the counter does not clear, and late by one tick for
\* each call that scheduled anew: the count they start from is one behind, but
\* where the timer counts up and down.  The same holds for the edges that are
\* still to come; counting up and down, an external clock needs one more of them.
\* None of this holds for a timer that the instruction used by which the core woke,
\* or one that is stopped when its external clock is selected.
OnTime ==
    LET early == m_psPerTick - 1
        late == (slips + IF m_extClock /\ m_bidirec THEN 1 ELSE 0) * m_psPerTick
        due == IF m_extClock THEN (m_ovfMatch + 1 - m_countVal) * m_psPerTick ELSE event - now
    IN  m_running /\ ~m_sleeping =>
          /\ ~m_extClock => event = m_ovfTime
          /\ due \in left - early .. left + late

\* The compare unit misses no match that was ahead when the period began, or
\* when its register was written, whatever is scheduled anew in between.
NoMatchMissed ==
    [][m_running /\ (Overflow \/ (ClockStep /\ m_countVal = m_ovfMatch)) => ~expected]_vars

\* What the unit has been scheduled for is still to come (mcuocunit.cpp: "be sure
\* next comp match is still ahead").
MatchAhead == ocEvent # NoEvent => ocEvent >= now

=============================================================================
