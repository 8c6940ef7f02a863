--------------------------- MODULE McuInterrupts ---------------------------
(***************************************************************************)
(* The interrupt controller of the simulated microcontrollers              *)
(* (mcuinterrupts.cpp: Interrupt and Interrupts).                          *)
(*                                                                         *)
(* Peripherals raise interrupts; firmware enables them, clears their flags *)
(* and returns from them.  Interrupts that are raised and enabled wait in  *)
(* the list m_pending, by priority; m_active is the one whose routine      *)
(* runs, m_running the list of those it interrupted.  Both lists are       *)
(* threaded through the one field m_nextInt.                               *)
(*                                                                         *)
(* Everything here happens on the circuit thread, between two instructions *)
(* of the firmware or inside one.  A core that executed SLEEP runs no      *)
(* instruction until an interrupt or the watchdog wakes it (eMcu::sleep).  *)
(* What firmware does is a parameter: the habits below are those on which  *)
(* the properties turn.                                                    *)
(***************************************************************************)
EXTENDS Naturals, Sequences, FiniteSets

CONSTANTS
    Ints,           \* the interrupts
    null,           \* nullptr
    Priorities,
    Modes,          \* the sleep modes, numbered as the hardware does
    Masks,          \* what m_wakeup may be: the bits that are set
    Firmwares       \* sets of Habits

(***************************************************************************)
(* "nest"     enables interrupts inside an interrupt routine               *)
(* "touch"    clears the flag, or toggles the enable bit, of an interrupt  *)
(*            whose routine has not returned                               *)
(* "level"    has an interrupt that follows the level of a pin: because it *)
(*            is configured so, or not at all, as pins start with pinLow    *)
(* "leave"    returns from a routine without clearing a flag that the      *)
(*            hardware does not clear                                      *)
(* "reprioritise"  writes priority bits (the 8051's IP register)           *)
(* "sleep"  executes SLEEP, with interrupts enabled and in no routine      *)
(***************************************************************************)
Habits == {"nest", "touch", "level", "leave", "reprioritise", "sleep"}

ASSUME InterruptsAssumption ==
    /\ null \notin Ints
    /\ IsFiniteSet(Ints)
    /\ Priorities \subseteq Nat
    /\ Modes \subseteq 0 .. 3
    /\ Masks \subseteq SUBSET (0 .. 7)
    /\ Firmwares \subseteq SUBSET Habits

VARIABLES
    firmware,       \* the habits of this program
    m_raised,
    m_enabled,      \* the interrupts that are enabled
    m_continuous,   \* those that follow a level
    m_autoClear,    \* those whose flag is cleared on return
    m_priority,
    m_nextInt,
    m_pending, m_running, m_active,
    m_global,       \* Interrupts::m_enabled, the global enable flag
    m_wakeup,
    m_sleepMode,    \* of the sleep module, as this program sets it
    m_state         \* of the core: it sleeps or it runs

flags == <<m_raised, m_enabled>>
sleep == <<m_wakeup, m_sleepMode, m_state>>
setup == <<firmware, m_continuous, m_autoClear, m_priority>>
service == <<m_running, m_active, m_global>>
vars == <<setup, flags, m_nextInt, m_pending, service, sleep>>

TypeOK ==
    /\ firmware \in Firmwares
    /\ m_raised \subseteq Ints
    /\ m_enabled \subseteq Ints
    /\ m_continuous \subseteq Ints
    /\ m_autoClear \subseteq Ints
    /\ m_priority \in [Ints -> Priorities]
    /\ m_nextInt \in [Ints -> Ints \cup {null}]
    /\ {m_pending, m_running, m_active} \subseteq Ints \cup {null}
    /\ m_global \in BOOLEAN
    /\ m_wakeup \in [Ints -> Masks \cup {{}}]
    /\ m_sleepMode \in Modes
    /\ m_state \in {"running", "sleeping"}

\* Hardware clears the flags on return (AVR), or none of them (PIC): then the
\* program has to, in the routine.  Without a global enable flag interrupts are
\* enabled from the start.
Init ==
    /\ firmware \in Firmwares
    /\ m_raised = {}
    /\ m_enabled = {}
    /\ m_continuous = {}
    /\ m_autoClear \in {{}, Ints}
    /\ m_autoClear = {} => "touch" \in firmware
    /\ m_priority \in [Ints -> Priorities]
    /\ m_nextInt = [i \in Ints |-> null]
    /\ m_pending = null
    /\ m_running = null
    /\ m_active = null
    /\ m_global \in BOOLEAN
    /\ m_wakeup \in IF "sleep" \in firmware THEN [Ints -> Masks] ELSE {[i \in Ints |-> {}]}
    /\ m_sleepMode \in Modes
    /\ "sleep" \notin firmware => \A mode \in Modes : m_sleepMode <= mode
    /\ m_state = "running"

-----------------------------------------------------------------------------

\* The pointer a walk from first holds after n steps.
walk(first) ==
    LET at[n \in 0 .. Cardinality(Ints)] ==
          IF n = 0 THEN first
          ELSE IF at[n - 1] = null THEN null ELSE m_nextInt[at[n - 1]]
    IN  at

Members(first) == {walk(first)[n] : n \in 0 .. Cardinality(Ints)} \ {null}

\* Interrupts whose routine has started and not returned.
InService == Members(m_running) \cup ({m_active} \ {null})

\* MUTANT of addToPending: in front of everything.
addToFront(i) ==
    IF i \in Members(m_pending)
      THEN UNCHANGED <<m_pending, m_nextInt>>
      ELSE m_pending' = i /\ m_nextInt' = [m_nextInt EXCEPT ![i] = m_pending]

\* addToPending: behind everything of its priority or a higher one.  The
\* interrupt that is met on the way is in the list already.
addToPending(i) ==
    LET at   == walk(m_pending)
        ahead(n) == at[n] # null /\ m_priority[i] <= m_priority[at[n]]
        stop == CHOOSE n \in DOMAIN at :
                  ~ahead(n) /\ \A k \in DOMAIN at : k < n => ahead(k)
    IN  IF \E n \in DOMAIN at : n < stop /\ at[n] = i
          THEN UNCHANGED <<m_pending, m_nextInt>>
          ELSE /\ m_pending' = IF stop = 0 THEN i ELSE m_pending
               /\ m_nextInt' = [j \in Ints |-> IF j = i THEN at[stop]
                                               ELSE IF stop > 0 /\ j = at[stop - 1] THEN i
                                               ELSE m_nextInt[j]]

\* remFromPending: the first interrupt that links to i is linked past it.
remFromPending(i) ==
    /\ m_pending' = IF m_pending = i THEN m_nextInt[i] ELSE m_pending
    /\ m_nextInt' = IF i \in Members(m_pending) /\ m_pending # i
                      THEN [j \in Ints |-> IF j \in Members(m_pending) /\ m_nextInt[j] = i
                                             THEN m_nextInt[i] ELSE m_nextInt[j]]
                      ELSE m_nextInt

\* clearFlag, and flagCleared, which firmware's write to the flag calls.
clearFlag(i) ==
    /\ m_raised' = m_raised \ {i}
    /\ IF i \in m_raised THEN remFromPending(i) ELSE UNCHANGED <<m_pending, m_nextInt>>

\* Whether the program gets to an instruction that meddles with i.
mayTouch(i) ==
    /\ m_state = "running"
    /\ i \in InService => "touch" \in firmware

\* The bits of a sleep mode's number.
bits(mode) == (IF mode % 2 = 1 THEN {0} ELSE {}) \cup (IF mode >= 2 THEN {1} ELSE {})

\* m_wakeup & sleepMode(): the mode's number itself, where m_wakeup has one bit
\* for each mode.
wakes(i) == m_wakeup[i] \cap bits(m_sleepMode) # {}

-----------------------------------------------------------------------------
\* What peripherals do.

\* MUTANT of Raise: the core is woken only while interrupts are disabled.
RaiseAwake(i) ==
    /\ i \notin m_raised
    /\ m_raised' = m_raised \cup {i}
    /\ IF i \in m_enabled THEN addToPending(i) ELSE UNCHANGED <<m_pending, m_nextInt>>
    /\ m_state' = IF i \in m_enabled /\ wakes(i) /\ ~m_global THEN "running" ELSE m_state
    /\ UNCHANGED <<setup, m_enabled, service, m_wakeup, m_sleepMode>>

\* raise(1): an interrupt already raised is not raised twice.  An enabled one
\* may wake the core (eMcu::sleep(false), whose runEvent runs the core's next
\* instruction).
Raise(i) ==
    /\ i \notin m_raised
    /\ m_raised' = m_raised \cup {i}
    /\ IF i \in m_enabled THEN addToPending(i) ELSE UNCHANGED <<m_pending, m_nextInt>>
    /\ m_state' = IF i \in m_enabled /\ wakes(i) THEN "running" ELSE m_state
    /\ UNCHANGED <<setup, m_enabled, service, m_wakeup, m_sleepMode>>

\* raise(0): the pin is high again (McuPin::voltChanged).
Lower(i) ==
    /\ "level" \in firmware
    /\ i \in m_autoClear \cup m_continuous
    /\ i \in m_raised
    /\ clearFlag(i)
    /\ UNCHANGED <<setup, m_enabled, service, sleep>>

-----------------------------------------------------------------------------
\* What firmware does.

\* Writing the flag: writeFlag, flagCleared.
WriteFlag(i) ==
    /\ mayTouch(i)
    /\ i \in m_raised
    /\ clearFlag(i)
    /\ UNCHANGED <<setup, m_enabled, service, sleep>>

\* MUTANT of EnableFlag: what was raised while disabled is forgotten.
EnableFlagForgetting(i, en) ==
    /\ mayTouch(i)
    /\ en # (i \in m_enabled)
    /\ m_enabled' = IF en THEN m_enabled \cup {i} ELSE m_enabled \ {i}
    /\ IF en THEN UNCHANGED <<m_pending, m_nextInt>> ELSE remFromPending(i)
    /\ UNCHANGED <<setup, m_raised, service, sleep>>

\* Writing the enable bit: enableFlag.  What was raised meanwhile is remembered.
EnableFlag(i, en) ==
    /\ mayTouch(i)
    /\ en # (i \in m_enabled)
    /\ m_enabled' = IF en THEN m_enabled \cup {i} ELSE m_enabled \ {i}
    /\ IF ~en THEN remFromPending(i)
       ELSE IF i \in m_raised THEN addToPending(i)
       ELSE UNCHANGED <<m_pending, m_nextInt>>
    /\ UNCHANGED <<setup, m_raised, service, sleep>>

\* The pin's interrupt is configured for a level, or for an edge: setContinuous.
SetContinuous(i, c) ==
    /\ "level" \in firmware
    /\ mayTouch(i)
    /\ c # (i \in m_continuous)
    /\ m_continuous' = IF c THEN m_continuous \cup {i} ELSE m_continuous \ {i}
    /\ m_autoClear' = IF c THEN m_autoClear \ {i} ELSE m_autoClear \cup {i}
    /\ clearFlag(i)
    /\ UNCHANGED <<firmware, m_priority, m_enabled, service, sleep>>

\* MUTANT of SetPriority: the bits are read from the wrong place.
SetPriorityShifted(i, p) ==
    /\ m_state = "running"
    /\ "reprioritise" \in firmware
    /\ m_priority' = [m_priority EXCEPT ![i] = 2 * p]
    /\ UNCHANGED <<firmware, m_continuous, m_autoClear, flags, m_nextInt, m_pending, service, sleep>>

\* Writing a register with priority bits: setPriority.
SetPriority(i, p) ==
    /\ m_state = "running"
    /\ "reprioritise" \in firmware
    /\ m_priority' = [m_priority EXCEPT ![i] = p]
    /\ UNCHANGED <<firmware, m_continuous, m_autoClear, flags, m_nextInt, m_pending, service, sleep>>

\* sei, cli: enableGlobal.
EnableGlobal(en) ==
    /\ m_state = "running"
    /\ en /\ m_active # null => "nest" \in firmware
    /\ m_global' = en
    /\ UNCHANGED <<setup, flags, m_nextInt, m_pending, m_running, m_active, sleep>>

\* MUTANT of RetI: the interrupted routine is not active again.
RetIToMain ==
    /\ m_state = "running"
    /\ m_active # null
    /\ m_active \in m_raised \ (m_autoClear \cup m_continuous) => "leave" \in firmware
    /\ IF m_active \in m_autoClear
         THEN clearFlag(m_active)
         ELSE UNCHANGED <<m_raised, m_pending, m_nextInt>>
    /\ m_active' = null
    /\ m_global' = TRUE
    /\ UNCHANGED <<setup, m_enabled, m_running, sleep>>

\* RETI, and runInterrupts behind it: exitInt, then the interrupted routine is
\* active again; without one, a level that is still there is pending again.
RetI ==
    /\ m_state = "running"
    /\ m_active # null
    /\ m_active \in m_raised \ (m_autoClear \cup m_continuous) => "leave" \in firmware
    /\ IF m_active \in m_autoClear
         THEN clearFlag(m_active)
         ELSE /\ UNCHANGED m_raised
              /\ IF m_running = null /\ m_active \in m_continuous \cap m_raised
                   THEN addToPending(m_active)
                   ELSE UNCHANGED <<m_pending, m_nextInt>>
    /\ m_active' = m_running
    /\ m_running' = IF m_running = null THEN null ELSE m_nextInt[m_running]
    /\ m_global' = TRUE
    /\ UNCHANGED <<setup, m_enabled, sleep>>

\* MUTANT of execute: the interrupted routine is not linked to the others.
executeUnlinked ==
    /\ m_running' = m_active
    /\ m_active' = m_pending
    /\ m_pending' = m_nextInt[m_pending]
    /\ m_global' = FALSE
    /\ UNCHANGED <<setup, flags, m_nextInt>>

\* The first pending interrupt is executed; the active one, if there is one,
\* joins those it had interrupted.
execute ==
    /\ IF m_active = null
         THEN UNCHANGED <<m_running, m_nextInt>>
         ELSE /\ m_nextInt' = [m_nextInt EXCEPT ![m_active] = m_running]
              /\ m_running' = m_active
    /\ m_active' = m_pending
    /\ m_pending' = m_nextInt'[m_pending]
    /\ m_global' = FALSE
    /\ UNCHANGED <<setup, flags>>

\* Whether runInterrupts executes an interrupt: one of a higher priority than
\* the active one.
due ==
    /\ m_global
    /\ m_pending # null
    /\ m_active # null => m_priority[m_pending] > m_priority[m_active]

\* runInterrupts after any other instruction.
RunInterrupts ==
    /\ m_state = "running"
    /\ due
    /\ execute
    /\ UNCHANGED sleep

\* SLEEP, and runInterrupts behind it, which does not ask whether the core
\* sleeps.
Sleep ==
    /\ m_state = "running"
    /\ "sleep" \in firmware
    /\ m_global /\ m_active = null
    /\ m_state' = "sleeping"
    /\ IF due THEN execute ELSE UNCHANGED <<setup, flags, m_nextInt, m_pending, service>>
    /\ UNCHANGED <<m_wakeup, m_sleepMode>>

\* The watchdog of a PIC wakes the core.
WatchdogWakes ==
    /\ m_state = "sleeping"
    /\ m_state' = "running"
    /\ UNCHANGED <<setup, flags, m_nextInt, m_pending, service, m_wakeup, m_sleepMode>>

\* The microcontroller is reset: resetInts.  The lists are emptied by their
\* heads; m_autoClear stays what setContinuous made it.
Reset ==
    /\ m_raised' = {}
    /\ m_enabled' = {}
    /\ m_continuous' = {}
    /\ m_pending' = null
    /\ m_running' = null
    /\ m_active' = null
    /\ m_global' \in BOOLEAN
    /\ m_state' = "running"
    /\ UNCHANGED <<firmware, m_autoClear, m_priority, m_nextInt, m_wakeup, m_sleepMode>>

Next ==
    \/ \E i \in Ints :
          \/ Raise(i) \/ Lower(i) \/ WriteFlag(i)
          \/ \E b \in BOOLEAN : EnableFlag(i, b) \/ SetContinuous(i, b)
          \/ \E p \in Priorities : SetPriority(i, p)
    \/ \E b \in BOOLEAN : EnableGlobal(b)
    \/ RetI \/ RunInterrupts \/ Sleep \/ WatchdogWakes \/ Reset

Spec == Init /\ [][Next]_vars

-----------------------------------------------------------------------------

Ends(first) == walk(first)[Cardinality(Ints)] = null

\* The two lists that share m_nextInt stay two lists: each comes to an end, and
\* no interrupt is in both, or active and interrupted at once.
ListsSeparate ==
    /\ Ends(m_pending) /\ Ends(m_running)
    /\ Members(m_pending) \cap Members(m_running) = {}
    /\ m_active \notin Members(m_running)

\* An interrupt that is raised and enabled waits in m_pending or is being
\* served: none is forgotten on the way, whatever was enabled, disabled,
\* cleared, nested and returned from before.  And what waits is raised and
\* enabled: an interrupt whose flag was cleared is not served, one that was
\* disabled is "remembered until reenabled".
PendingIffDue ==
    /\ (m_raised \cap m_enabled) \ InService \subseteq Members(m_pending)
    /\ Members(m_pending) \subseteq m_raised \cap m_enabled

\* The head of m_pending, which runInterrupts alone looks at, has the highest
\* priority of all that wait; and a routine is only interrupted by one of
\* higher priority, at every depth.
ServedByPriority ==
    "reprioritise" \notin firmware =>
        /\ m_pending # null =>
              \A i \in Members(m_pending) : m_priority[i] <= m_priority[m_pending]
        /\ m_running # null =>
              /\ m_priority[m_active] > m_priority[m_running]
              /\ \A i \in Members(m_running) :
                    m_nextInt[i] # null => m_priority[i] > m_priority[m_nextInt[i]]

\* A step serves, returns from or drops a routine, never swaps one for another:
\* the routines in service are a stack.
ServiceIsAStack ==
    [][ \/ m_active' = m_active /\ m_running' = m_running
        \/ m_running' = m_active /\ m_active' # null
        \/ m_active' = m_running
        \/ m_active' = null /\ m_running' = null ]_vars

\* A core that fell asleep with nothing to serve has nothing to serve: no
\* enabled interrupt that could have woken it was raised behind its back.
SleepsOnlyIdle ==
    m_state = "sleeping" /\ m_active = null =>
        \A i \in m_raised \cap m_enabled : ~wakes(i)

============================================================================
