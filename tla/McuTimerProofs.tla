---------------------------- MODULE McuTimerProofs ----------------------------
(***************************************************************************)
(* A timer of any width and with any prescaler overflows on time, and its  *)
(* unit misses no match, whatever the firmware of tame habits does.        *)
(*                                                                         *)
(* The count is written only when somebody asks for it, so that between    *)
(* two calls it says nothing of the time.  The inductive invariant         *)
(* compares two times to the overflow: the one in the list, and the one    *)
(* that the count, old as it may be, stands for, Rest.                     *)
(***************************************************************************)
EXTENDS McuTimer, TLAPS

\* Firmware whose core wakes later than it slept, and the timer with it; that leaves
\* the timer alone in the instruction by which the core wakes, which finds it asleep
\* and m_ovfTime as it was; that comes to the external clock with a timer that runs,
\* without a prescaler, since edges do not know of the part of a tick that is over,
\* and stays with it; and that does not stop a timer, write its counter and let the
\* core sleep before it starts it again: sleep has removed the event, and where the
\* new count comes to the old m_ovfTime sheduleEvents adds none.
Tame(f) ==
    /\ f \cap {"nap", "hasty", "idle", "halted", "internal"} = {}
    /\ ~ {"write", "stop", "sleep"} \subseteq f
    /\ ~ {"prescaled", "external"} \subseteq f

AllTame == \A f \in Firmwares : Tame(f)

\* And that has no prescaler before a compare unit, whose register may otherwise be
\* written within a tick (ocSheduleEvents).
UnitTame(f) == Tame(f) /\ ~ {"prescaled", "compare"} \subseteq f

AllUnitTame == \A f \in Firmwares : UnitTame(f)

-----------------------------------------------------------------------------
\* The inductive invariant.

\* The time to the overflow that a count stands for: what sheduleEvents would
\* make of it.
RestOf(top, count, offset) ==
    (m_ovfPeriod(top) - count) * m_psPerTick
        - (IF offset # 0 THEN m_psPerTick - offset ELSE 0)

Rest == RestOf(m_ovfMatch, m_countVal, m_timeOffset)

\* Counts and parts of ticks that go together.
Counts(top, count, offset) ==
    /\ count \in 0 .. top
    /\ offset \in 0 .. m_psPerTick - 1
    /\ offset # 0 => count < m_ovfPeriod(top)

\* The time to the overflow that is in the list.
TimeToOvf == m_ovfTime - now

\* What scheduling anew adds to it.
Lag == IF m_bidirec THEN 0 ELSE m_psPerTick

Counting == m_running /\ ~m_sleeping /\ ~m_extClock

\* What belongs together.
Shape ==
    /\ m_sleeping <=> asleep # NoEvent \/ woken
    /\ woken => asleep = NoEvent
    /\ asleep # NoEvent => asleep <= now
    /\ m_sleeping => "sleep" \in firmware
    /\ m_extClock => m_running /\ "external" \in firmware /\ event = NoEvent
    /\ m_reverse => m_bidirec
    /\ m_bidirec => m_ovfMatch > 0
    /\ m_circTime <= now
    /\ Counts(m_ovfMatch, m_countVal, m_timeOffset)
    /\ event \in {m_ovfTime, NoEvent}
    /\ event # NoEvent => now <= event

\* While it counts, the list has the overflow.  As long as the count cannot be told
\* from the time that is left, or has been told at this moment, it stands for that
\* time, or for a tick more.
Scheduled ==
    Counting =>
        /\ event = m_ovfTime
        /\ m_ovfMatch * m_psPerTick <= TimeToOvf \/ m_circTime = now => TimeToOvf <= Rest
        /\ m_circTime = now => Rest <= TimeToOvf + Lag
        /\ TimeToOvf \in left - (m_psPerTick - 1) .. left + slips * m_psPerTick

\* While it does not, the count has the time to the overflow, and one more call
\* will schedule it.
Kept ==
    ~m_running \/ (m_sleeping /\ ~m_extClock) =>
        Rest \in left - (m_psPerTick - 1) .. left + (slips + 1) * m_psPerTick

\* What m_ovfTime was before the core slept is not what it will be.
Asleep ==
    m_running /\ m_sleeping /\ ~m_extClock =>
        /\ event = NoEvent
        /\ asleep # NoEvent => m_ovfTime <= asleep + Rest
        /\ woken => m_ovfTime < now + Rest

\* Nor what it was before the timer stopped, unless its event is there still.
Stopped ==
    ~m_running =>
        /\ \/ m_ovfTime < now + Rest
           \/ m_ovfTime = now + Rest /\ access = now
           \/ event = m_ovfTime /\ "write" \in firmware /\ Rest > 0
        /\ event = NoEvent /\ "write" \in firmware => m_ovfTime <= now
        /\ "stop" \notin firmware => event = NoEvent /\ m_ovfTime = 0

\* The edges that are to come.
Edges ==
    m_extClock =>
        (m_ovfMatch + 1 - m_countVal) * m_psPerTick
            \in left - (m_psPerTick - 1) .. left + (slips + IF m_bidirec THEN 1 ELSE 0) * m_psPerTick

IInv == TypeOK /\ Shape /\ Scheduled /\ Kept /\ Asleep /\ Stopped /\ Edges

\* The count of the next match.
NextMatch == match(m_ovfMatch, m_reverse, m_comMatch)

\* What the unit is still to match is ahead of the count, and before the overflow.
Ahead ==
    expected =>
        /\ HasUnit
        /\ NextMatch <= m_ovfMatch
        /\ m_countVal <= NextMatch
        /\ m_extClock => m_extMatch = NextMatch /\ m_countVal < NextMatch
        /\ Counting => /\ ocEvent # NoEvent
                       /\ now <= ocEvent
                       /\ ocEvent <= event - (m_ovfMatch - NextMatch)

UInv == IInv /\ Ahead /\ MatchAhead
-----------------------------------------------------------------------------
\* Arithmetic.

\* A time in whole ticks and what is left of one.
LEMMA Division ==
    ASSUME NEW a \in Nat, NEW p \in Nat \ {0}
    PROVE  a = (a \div p) * p + (a % p) /\ a % p \in 0 .. p - 1 /\ a \div p \in Nat
  OBVIOUS

\* More whole ticks are more time.
LEMMA Compared ==
    ASSUME NEW n \in Nat, NEW q \in Nat, NEW p \in Nat \ {0}, NEW r \in 0 .. p - 1
    PROVE  n > q <=> n * p > q * p + r
<1>1. ASSUME n > q PROVE n * p > q * p + r
  <2>1. n * p >= (q + 1) * p
    BY <1>1
  <2> QED BY <2>1
<1>2. ASSUME ~(n > q) PROVE n * p <= q * p
  BY <1>2
<1> QED BY <1>1, <1>2

\* Ticks are no less than one of them.
LEMMA AtLeastOne ==
    ASSUME NEW n \in Nat, NEW p \in Nat \ {0}
    PROVE  n * p \in Nat /\ (n # 0 => n * p >= p)
  OBVIOUS

\* The part of a tick that is over is less than a tick.
LEMMA PartOfTick ==
    ASSUME NEW p \in Nat \ {0}, NEW offset \in 0 .. p - 1
    PROVE  (IF offset # 0 THEN p - offset ELSE 0) \in 0 .. p - 1
  OBVIOUS

\* As many ticks as there are instructions.
LEMMA OfOne == \A a \in Int : a * 1 = a /\ a - 0 = a /\ a + 0 = a
  OBVIOUS

\* What is short of a time by less than a tick.
LEMMA ShortOf == \A time \in Int, p \in Nat \ {0} : \A part \in 0 .. p - 1 : time - part \in time - (p - 1) .. time
  OBVIOUS

-----------------------------------------------------------------------------

\* A tick, and what AllTame says of the firmware that runs.
LEMMA Ticks ==
    ASSUME AllTame, firmware \in Firmwares
    PROVE  /\ m_psPerTick \in Nat \ {0} /\ m_psPerTick <= Prescale
           /\ "prescaled" \notin firmware => m_psPerTick = 1
           /\ Tame(firmware)
  BY McuTimerAssumption DEF m_psPerTick, AllTame

\* The types, in the form the leaves use.
LEMMA Types ==
    ASSUME AllTame, TypeOK
    PROVE  /\ m_psPerTick \in Nat \ {0} /\ m_psPerTick <= Prescale
           /\ {Prescale, MaxCount, MaxSlips, MaxTime} \subseteq Nat
           /\ Tame(firmware)
           /\ m_running \in BOOLEAN /\ m_sleeping \in BOOLEAN /\ m_extClock \in BOOLEAN
           /\ m_bidirec \in BOOLEAN /\ m_reverse \in BOOLEAN /\ expected \in BOOLEAN
           /\ woken \in BOOLEAN
           /\ {now, m_countVal, m_ovfMatch, m_ovfTime, m_timeOffset, m_circTime, slips} \subseteq Nat
           /\ m_ovfMatch <= MaxCount /\ slips <= MaxSlips
           /\ left \in Int
           /\ NoEvent \notin Int
           /\ \A top \in Nat : m_ovfPeriod(top) = IF m_bidirec THEN top ELSE top + 1
<1>1. firmware \in Firmwares
  BY DEF TypeOK
<1>2. m_psPerTick \in Nat \ {0} /\ m_psPerTick <= Prescale /\ Tame(firmware)
  BY <1>1, Ticks
<1> QED BY <1>2, McuTimerAssumption DEF TypeOK, Times, m_ovfPeriod

\* Counts and parts of ticks are numbers.
LEMMA CountTypes ==
    ASSUME AllTame, TypeOK, NEW top \in 0 .. MaxCount, NEW count, NEW offset, Counts(top, count, offset)
    PROVE  /\ count \in Nat /\ count <= top /\ offset \in Nat
           /\ (IF offset # 0 THEN m_psPerTick - offset ELSE 0) \in 0 .. m_psPerTick - 1
<1>1. m_psPerTick \in Nat \ {0} /\ MaxCount \in Nat
  BY Types
<1> QED BY <1>1 DEF Counts

\* The time that a count stands for.
LEMMA RestBounds ==
    ASSUME AllTame, TypeOK, NEW top \in 0 .. MaxCount, NEW count, NEW offset, Counts(top, count, offset)
    PROVE  /\ RestOf(top, count, offset) \in Nat
           /\ RestOf(top, count, offset) <= m_ovfPeriod(top) * m_psPerTick
           /\ count < m_ovfPeriod(top) => RestOf(top, count, offset) > 0
           /\ now + RestOf(top, count, offset) \in Times
<1> DEFINE P == m_psPerTick
           S == m_ovfPeriod(top)
           off == IF offset # 0 THEN P - offset ELSE 0
<1>1. /\ P \in Nat \ {0} /\ P <= Prescale /\ Prescale \in Nat /\ MaxCount \in Nat /\ MaxTime \in Nat
      /\ count \in Nat /\ offset \in 0 .. P - 1 /\ count <= S /\ S \in Nat /\ S <= MaxCount + 1
      /\ offset # 0 => count < S
      /\ now \in Nat /\ now <= MaxTime
  BY Types DEF Counts, TypeOK
<1>2. RestOf(top, count, offset) = (S - count) * P - off
  BY DEF RestOf
<1> HIDE DEF P, S
<1>3. (S - count) * P = S * P - count * P /\ S * P \in Nat /\ count * P \in Nat
  BY <1>1
<1>4. (S - count) * P \in Nat /\ (S - count # 0 => (S - count) * P >= P)
  BY <1>1, AtLeastOne
<1>5. off \in 0 .. P - 1
  BY <1>1
<1>6. off # 0 => count < S
  BY <1>1
<1> HIDE DEF off
<1>7. /\ RestOf(top, count, offset) \in Nat
      /\ RestOf(top, count, offset) <= S * P
      /\ count < S => RestOf(top, count, offset) > 0
  BY <1>1, <1>2, <1>3, <1>4, <1>5, <1>6
<1>8. S * P <= 2 * (MaxCount + 1) * Prescale
  <2>1. S * P <= (MaxCount + 1) * P
    BY <1>1
  <2>2. (MaxCount + 1) * P <= (MaxCount + 1) * Prescale /\ (MaxCount + 1) * Prescale \in Nat
    BY <1>1
  <2>3. 2 * (MaxCount + 1) * Prescale = (MaxCount + 1) * Prescale + (MaxCount + 1) * Prescale
    BY <1>1
  <2> QED BY <1>1, <1>3, <2>1, <2>2, <2>3
<1>9. now + RestOf(top, count, offset) \in Times
  BY <1>1, <1>7, <1>8 DEF Times
<1> QED BY <1>7, <1>9 DEF P, S

\* updtCount: the count then stands for the time that is left or for a tick more,
\* and where there is no such time it stands for what it did before.
LEMMA Counted ==
    ASSUME AllTame, IInv, updtCount, ~m_sleeping
    PROVE  /\ Counts(m_ovfMatch, m_countVal', m_timeOffset')
           /\ m_circTime' \in Nat /\ m_circTime' <= now /\ m_circTime' <= MaxTime
           /\ ~Counting => UNCHANGED counter
           /\ Counting =>
                 /\ m_circTime' = now
                 /\ TimeToOvf \in Nat
                 /\ TimeToOvf <= RestOf(m_ovfMatch, m_countVal', m_timeOffset')
                 /\ RestOf(m_ovfMatch, m_countVal', m_timeOffset') <= TimeToOvf + Lag
                 /\ m_psPerTick = 1 => m_countVal' \in {m_countVal, m_ovfMatch - TimeToOvf}
           /\ ~m_extClock =>
                 RestOf(m_ovfMatch, m_countVal', m_timeOffset')
                     \in left - (m_psPerTick - 1) .. left + (slips + 1) * m_psPerTick
<1> DEFINE P == m_psPerTick
           N == m_ovfMatch
           T == TimeToOvf
           q == T \div P
           r == T % P
           R == RestOf(N, m_countVal', m_timeOffset')
<1>0. /\ P \in Nat \ {0} /\ N \in Nat /\ N \in 0 .. MaxCount
      /\ now \in Nat /\ now <= MaxTime /\ m_circTime \in Nat /\ m_circTime <= now
      /\ m_countVal \in Nat /\ m_timeOffset \in Nat /\ m_ovfTime \in Nat
      /\ m_running \in BOOLEAN /\ m_sleeping \in BOOLEAN /\ m_extClock \in BOOLEAN
      /\ m_ovfPeriod(N) = (IF m_bidirec THEN N ELSE N + 1) /\ m_bidirec \in BOOLEAN
      /\ left \in Int /\ slips \in Nat
      /\ Counts(N, m_countVal, m_timeOffset)
      /\ NoEvent \notin Int
  BY Types DEF IInv, TypeOK, Shape
<1>1. /\ (slips + 1) * P = slips * P + P
      /\ slips * P \in Nat
  BY <1>0
<1>2. CASE ~Counting
  <2>1. UNCHANGED counter
    BY <1>2, <1>0 DEF updtCount, Counting
  <2>2. m_circTime' = m_circTime /\ R = Rest /\ Counts(N, m_countVal', m_timeOffset')
    BY <1>0, <2>1 DEF counter, Rest
  <2>3. ~m_extClock => Rest \in left - (P - 1) .. left + (slips + 1) * P
    BY <1>2, <1>0 DEF IInv, Kept, Counting
  <2>4. ~m_extClock => R \in left - (P - 1) .. left + (slips + 1) * P
    BY <2>2, <2>3
  <2>5. m_circTime' \in Nat /\ m_circTime' <= now /\ m_circTime' <= MaxTime
    BY <1>0, <2>2, McuTimerAssumption
  <2> HIDE DEF R
  <2> QED BY <1>2, <2>1, <2>2, <2>4, <2>5 DEF R
<1>3. CASE Counting
  <2>1. /\ event = m_ovfTime
        /\ N * P <= T \/ m_circTime = now => T <= Rest
        /\ m_circTime = now => Rest <= T + Lag
        /\ T \in left - (P - 1) .. left + slips * P
        /\ T \in Nat
        /\ Lag \in Nat /\ Lag <= P
    BY <1>0, <1>3 DEF IInv, Scheduled, Shape, TimeToOvf, Lag
  <2>2. m_circTime' = now
    BY <1>0, <1>3 DEF updtCount, Counting, counter
  <2>3. T <= R /\ R <= T + Lag /\ Counts(N, m_countVal', m_timeOffset')
        /\ (P = 1 => m_countVal' \in {m_countVal, N - T})
    <3>1. CASE UNCHANGED <<m_countVal, m_timeOffset>> /\ (N * P <= T \/ m_circTime = now)
      <4>1. R = Rest /\ Counts(N, m_countVal', m_timeOffset')
        BY <1>0, <3>1 DEF Rest
      <4>2. Rest <= m_ovfPeriod(N) * P /\ Rest \in Nat
        BY <1>0, RestBounds DEF IInv, Rest
      <4>3. m_ovfPeriod(N) * P = N * P + Lag
        BY <1>0 DEF Lag
      <4>4. N * P \in Nat
        BY <1>0
      <4>5. Rest <= T + Lag
        <5>1. CASE N * P <= T
          BY <2>1, <4>2, <4>3, <4>4, <5>1
        <5>2. CASE m_circTime = now
          BY <2>1, <5>2
        <5> QED BY <3>1, <5>1, <5>2
      <4>6. T <= Rest
        BY <2>1, <3>1
      <4> QED BY <3>1, <4>1, <4>5, <4>6
    <3>2. CASE /\ N > q
               /\ m_timeOffset' = r
               /\ m_countVal' = N - q - (IF r # 0 THEN 1 ELSE 0)
      <4>1. T = q * P + r /\ r \in 0 .. P - 1 /\ q \in Nat
        BY <1>0, <2>1, Division
      <4> HIDE DEF q, r, P, N, T
      <4>2. R = (m_ovfPeriod(N) - m_countVal') * P - (IF m_timeOffset' # 0 THEN P - m_timeOffset' ELSE 0)
        BY DEF RestOf, P
      <4>3. Counts(N, m_countVal', m_timeOffset')
        BY <1>0, <3>2, <4>1 DEF Counts, P
      <4>4. R = T + Lag
        <5>1. CASE r = 0
          <6>1. m_countVal' = N - q /\ R = (m_ovfPeriod(N) - (N - q)) * P
            BY <1>0, <3>2, <4>1, <4>2, <5>1
          <6>2. CASE m_bidirec
            BY <1>0, <4>1, <5>1, <6>1, <6>2 DEF Lag
          <6>3. CASE ~m_bidirec
            <7>1. m_ovfPeriod(N) - (N - q) = q + 1 /\ (q + 1) * P = q * P + P
              BY <1>0, <4>1, <6>3
            <7> QED BY <1>0, <4>1, <5>1, <6>1, <6>3, <7>1 DEF Lag, P
          <6> QED BY <1>0, <6>2, <6>3
        <5>2. CASE r # 0
          <6>1. m_countVal' = N - q - 1 /\ R = (m_ovfPeriod(N) - (N - q - 1)) * P - (P - r)
            BY <1>0, <3>2, <4>1, <4>2, <5>2
          <6>2. CASE m_bidirec
            <7>1. m_ovfPeriod(N) - (N - q - 1) = q + 1 /\ (q + 1) * P = q * P + P
              BY <1>0, <4>1, <6>2
            <7> QED BY <1>0, <4>1, <6>1, <6>2, <7>1 DEF Lag
          <6>3. CASE ~m_bidirec
            <7>1. m_ovfPeriod(N) - (N - q - 1) = q + 2 /\ (q + 2) * P = q * P + P + P
              BY <1>0, <4>1, <6>3
            <7> QED BY <1>0, <4>1, <6>1, <6>3, <7>1 DEF Lag, P
          <6> QED BY <1>0, <6>2, <6>3
        <5> QED BY <5>1, <5>2
      <4>5. P = 1 => m_countVal' = N - T
        BY <1>0, <3>2, <4>1
      <4> QED BY <1>0, <2>1, <4>3, <4>4, <4>5
    <3>3. ASSUME m_circTime # now, ~(N > q) PROVE N * P <= T
      <4>1. T = q * P + r /\ r \in 0 .. P - 1 /\ q \in Nat
        BY <1>0, <2>1, Division
      <4> HIDE DEF q, r, P, N, T
      <4> QED BY <1>0, <3>3, <4>1, Compared
    <3>4. CASE m_circTime # now
      <4>1. 0 <= q
        <5>1. q \in Nat
          BY <1>0, <2>1, Division
        <5> HIDE DEF q
        <5> QED BY <5>1
      <4> QED BY <1>0, <1>3, <3>1, <3>2, <3>3, <3>4, <4>1 DEF updtCount, countedOk, Counting, TimeToOvf
    <3>5. CASE m_circTime = now
      BY <1>0, <1>3, <3>1, <3>5 DEF updtCount, Counting, counter
    <3> QED BY <3>4, <3>5
  <2>4. R \in Int
    BY <1>0, <2>3, RestBounds DEF IInv
  <2> HIDE DEF R, T, P, N
  <2>5. R \in left - (P - 1) .. left + (slips + 1) * P
    BY <1>0, <1>1, <2>1, <2>3, <2>4
  <2> QED BY <1>0, <1>3, <2>1, <2>2, <2>3, <2>5 DEF R, T, P, N, Counting
<1> QED BY <1>2, <1>3

\* What a step that keeps firmware and mode does not change.
LEMMA Same ==
    ASSUME UNCHANGED <<firmware, m_bidirec>>
    PROVE  /\ m_psPerTick' = m_psPerTick /\ Lag' = Lag
           /\ Rest' = RestOf(m_ovfMatch', m_countVal', m_timeOffset')
           /\ Counts(m_ovfMatch, m_countVal, m_timeOffset)'
                <=> Counts(m_ovfMatch', m_countVal', m_timeOffset')
<1>1. m_psPerTick' = m_psPerTick
  BY DEF m_psPerTick
<1> QED BY <1>1 DEF Lag, Rest, RestOf, Counts, m_ovfPeriod

\* What the unit is scheduled for has the types of its variables.
LEMMA UnitTypes ==
    ASSUME AllTame, TypeOK, ocSheduleEvents,
           m_countVal' \in Nat, m_ovfMatch' \in 0 .. MaxCount, m_timeOffset' \in Nat,
           m_comMatch' \in 0 .. MaxCount
    PROVE  ocEvent' \in Int \cup {NoEvent} /\ m_extMatch' \in -1 .. MaxCount
<1> DEFINE m == match(m_ovfMatch', m_reverse', m_comMatch')
<1>1. m \in -1 .. MaxCount
  <2>1. MaxCount \in Nat
    BY McuTimerAssumption
  <2>2. \A top, com \in 0 .. MaxCount : com > top \/ top - com \in 0 .. MaxCount
    BY <2>1
  <2>3. m = m_comMatch' \/ m = -1 \/ (m = m_ovfMatch' - m_comMatch' /\ ~(m_comMatch' > m_ovfMatch'))
    BY Zenon DEF match
  <2> HIDE DEF m
  <2> QED BY <2>1, <2>2, <2>3
<1> HIDE DEF m
<1>2. \A a, b \in Int : a * b \in Int
  OBVIOUS
<1>3. timeTo(m) \in Int
  BY <1>1, <1>2, Types DEF timeTo
<1>4. now + timeTo(m) \in Int
  BY <1>3, Types
<1> QED BY <1>1, <1>4 DEF ocSheduleEvents, TypeOK, m

\* sheduleEvents of a timer that counts then: its event is in the list, for the
\* time that the count stands for.
LEMMA Rescheduled ==
    ASSUME AllTame, IInv, NEW e, sheduleEvents(e), Counting',
           UNCHANGED <<firmware, now, m_bidirec>>,
           m_ovfMatch' \in 0 .. MaxCount, m_comMatch' \in 0 .. MaxCount,
           Counts(m_ovfMatch', m_countVal', m_timeOffset'),
           m_ovfTime = now + RestOf(m_ovfMatch', m_countVal', m_timeOffset') => e = m_ovfTime,
           RestOf(m_ovfMatch', m_countVal', m_timeOffset')
               \in left' - (m_psPerTick - 1) .. left' + slips' * m_psPerTick
    PROVE  /\ Scheduled'
           /\ m_ovfTime' \in Times /\ event' = m_ovfTime' /\ now <= m_ovfTime'
           /\ m_ovfTime' = now + RestOf(m_ovfMatch', m_countVal', m_timeOffset')
           /\ ocSheduleEvents
           /\ ocEvent' \in Int \cup {NoEvent} /\ m_extMatch' \in -1 .. MaxCount
<1> DEFINE R == RestOf(m_ovfMatch', m_countVal', m_timeOffset')
<1>1. R \in Nat /\ now + R \in Times /\ now \in Nat
  BY RestBounds, Types DEF IInv
<1>2. m_ovfTime' = now + R
  <2>1. m_ovfTime' = now + timeTo(m_ovfPeriod(m_ovfMatch'))
    <3>1. ~(m_countVal' > m_ovfMatch') /\ m_ovfPeriod(m_ovfMatch') + 0 = m_ovfPeriod(m_ovfMatch')
      <4>1. m_countVal' \in Nat /\ m_ovfMatch' \in Nat /\ m_countVal' <= m_ovfMatch'
        BY CountTypes, McuTimerAssumption DEF IInv
      <4> QED BY <4>1, Types DEF IInv
    <3> QED BY <3>1 DEF sheduleEvents, Counting
  <2>2. timeTo(m_ovfPeriod(m_ovfMatch')) = R
    BY DEF timeTo, RestOf
  <2> QED BY <2>1, <2>2
<1>3. event' = m_ovfTime'
  <2>1. event' = IF m_ovfTime' # m_ovfTime THEN m_ovfTime' ELSE e
    BY DEF sheduleEvents, Counting
  <2> QED BY <1>2, <2>1
<1>4. ocSheduleEvents
  BY DEF sheduleEvents, Counting
<1>5. ocEvent' \in Int \cup {NoEvent} /\ m_extMatch' \in -1 .. MaxCount
  BY <1>4, UnitTypes DEF Counts, IInv
<1>6. /\ m_psPerTick' = m_psPerTick /\ Lag' = Lag /\ Lag \in Nat
      /\ Rest' = R /\ TimeToOvf' = R
  BY <1>1, <1>2, Same, Types DEF Lag, TimeToOvf, IInv
<1> HIDE DEF R
<1>7. Scheduled'
  BY <1>1, <1>3, <1>6 DEF Scheduled, R
<1> QED BY <1>1, <1>2, <1>3, <1>4, <1>5, <1>7 DEF R

\* The invariant in the form the leaves use.
LEMMA Facts ==
    ASSUME AllTame, IInv
    PROVE  /\ TypeOK
           /\ Rest \in Nat /\ TimeToOvf \in Int /\ Lag \in Nat
           /\ slips * m_psPerTick \in Nat
           /\ (slips + 1) * m_psPerTick = slips * m_psPerTick + m_psPerTick
           /\ Rest \in left - (m_psPerTick - 1) .. left + (slips + 1) * m_psPerTick
                <=> left - (m_psPerTick - 1) <= Rest /\ Rest <= left + slips * m_psPerTick + m_psPerTick
           /\ event = NoEvent \/ event \in Nat
           /\ asleep = NoEvent \/ asleep \in Nat
           /\ ~m_sleeping => asleep = NoEvent
           /\ ~m_sleeping => ~woken
           /\ "idle" \notin firmware /\ "nap" \notin firmware /\ "internal" \notin firmware
           /\ "hasty" \notin firmware /\ "halted" \notin firmware
           /\ Counts(m_ovfMatch, m_countVal, m_timeOffset)
           /\ m_ovfMatch \in 0 .. MaxCount
           /\ m_extClock => m_psPerTick = 1 /\ m_timeOffset = 0
<1>1. Rest \in Nat
  BY RestBounds, Types DEF IInv, Shape, Rest
<1>2. m_psPerTick \in Nat /\ slips \in Nat /\ left \in Int
  BY Types DEF IInv
<1>3. slips * m_psPerTick \in Nat /\ (slips + 1) * m_psPerTick = slips * m_psPerTick + m_psPerTick
  BY <1>2
<1>4. TypeOK /\ Tame(firmware)
  BY Types DEF IInv
<1>5. m_extClock => m_psPerTick = 1 /\ m_timeOffset = 0
  BY <1>4, Ticks DEF IInv, Shape, Tame, TypeOK, Counts
<1> QED BY <1>1, <1>2, <1>3, <1>4, <1>5, Types DEF IInv, Shape, TimeToOvf, Lag, Tame, TypeOK, Times

\* An instruction of tame firmware is run with core and timer awake.
LEMMA Awake ==
    ASSUME AllTame, IInv, Instruction
    PROVE  ~m_sleeping /\ ~woken /\ asleep = NoEvent /\ access # now /\ access' = now
  BY Facts DEF Instruction, IInv, Shape

-----------------------------------------------------------------------------
\* Every step keeps it.

LEMMA MatchIInv == ASSUME AllTame, IInv, Match PROVE IInv'
<1>1. UNCHANGED <<firmware, now, access, mode, counter, m_ovfTime, event, m_extMatch, m_ovfMatch,
                  m_comMatch, left, slips>>
  BY DEF Match
<1>2. m_psPerTick' = m_psPerTick /\ Lag' = Lag /\ Rest' = Rest
  BY <1>1, Same DEF mode, counter, Rest
<1>3. TypeOK'
  BY <1>1 DEF IInv, TypeOK, Match, mode, counter
<1>4. Shape'
  BY <1>1, <1>2, Same DEF IInv, Shape, mode, counter
<1>5. Scheduled' /\ Kept' /\ Asleep' /\ Stopped' /\ Edges'
  BY <1>1, <1>2 DEF IInv, Scheduled, Kept, Asleep, Stopped, Edges, Counting, TimeToOvf, mode, counter
<1> QED BY <1>3, <1>4, <1>5 DEF IInv

LEMMA AdvanceIInv == ASSUME AllTame, IInv, Advance PROVE IInv'
<1>1. UNCHANGED <<firmware, access, mode, counter, events, m_ovfMatch, m_comMatch, slips, expected>>
  BY DEF Advance
<1>2. /\ now' = now + 1 /\ now < MaxTime /\ now # event
      /\ left' = IF Counting THEN left - 1 ELSE left
  BY DEF Advance, Counting
<1>3. m_psPerTick' = m_psPerTick /\ Lag' = Lag /\ Rest' = Rest /\ Counting' = Counting
  BY <1>1, Same DEF mode, counter, Rest, Counting
<1>4. MaxTime \in Nat /\ now \in Nat /\ left \in Int /\ NoEvent \notin Int
  BY Facts, Types
<1>5. TypeOK'
  <2>1. now' \in 0 .. MaxTime /\ left' \in Int
    BY <1>2, <1>4
  <2> QED BY <1>1, <2>1 DEF IInv, TypeOK, mode, counter, events
<1>6. Shape'
  <2>1. Counts(m_ovfMatch, m_countVal, m_timeOffset)'
    BY <1>1, Same, Facts DEF mode, counter
  <2>2. /\ asleep # NoEvent => asleep <= now'
        /\ event # NoEvent => now' <= event
        /\ m_circTime <= now'
    <3>1. /\ m_circTime \in Int /\ m_circTime <= now
          /\ asleep # NoEvent => asleep \in Int /\ asleep <= now
      BY Facts, Types DEF IInv, Shape
    <3>2. event # NoEvent => event \in Int /\ now <= event
      BY Facts DEF IInv, Shape
    <3> QED BY <1>2, <1>4, <3>1, <3>2
  <2> QED BY <1>1, <2>1, <2>2 DEF IInv, Shape, mode, counter, events
<1>7. Scheduled'
  <2> SUFFICES ASSUME Counting PROVE Scheduled'
    BY <1>3 DEF Scheduled
  <2>1. TimeToOvf' = TimeToOvf - 1 /\ TimeToOvf \in Int /\ left' = left - 1
    BY <1>1, <1>2, <1>4, Facts, Types DEF TimeToOvf, events
  <2>2. m_circTime' # now' /\ m_circTime' = m_circTime
    BY <1>1, <1>2, <1>4, Types DEF counter, IInv, Shape
  <2>3. m_ovfMatch * m_psPerTick \in Nat
    BY Facts, Types
  <2>4. m_ovfMatch * m_psPerTick <= TimeToOvf' => TimeToOvf' <= Rest
    BY <2>1, <2>3, Facts DEF IInv, Scheduled
  <2>5. TimeToOvf' \in left' - (m_psPerTick - 1) .. left' + slips * m_psPerTick
    BY <2>1, <1>4, Facts, Types DEF IInv, Scheduled
  <2>6. event' = m_ovfTime' /\ m_ovfMatch' = m_ovfMatch /\ slips' = slips
    BY <1>1 DEF IInv, Scheduled, events
  <2> QED BY <1>3, <2>2, <2>4, <2>5, <2>6 DEF Scheduled
<1>8. Kept'
  <2>1. ~m_running \/ (m_sleeping /\ ~m_extClock) => left' = left
    BY <1>2 DEF Counting
  <2> QED BY <1>1, <1>3, <2>1 DEF IInv, Kept, mode
<1>9. Asleep'
  <2>1. ~woken'
    BY <1>1 DEF Advance, mode
  <2> QED BY <1>1, <1>3, <2>1 DEF IInv, Asleep, mode, events
<1>10. Stopped'
  BY <1>1, <1>2, <1>3, <1>4, Facts, Types DEF IInv, Stopped, mode, events
<1>11. Edges'
  <2>1. m_extClock => left' = left
    BY <1>2 DEF Counting
  <2> QED BY <1>1, <1>3, <2>1 DEF IInv, Edges, mode, counter
<1> QED BY <1>5, <1>6, <1>7, <1>8, <1>9, <1>10, <1>11 DEF IInv

LEMMA ReadIInv == ASSUME AllTame, IInv, Read PROVE IInv'
<1>1. UNCHANGED <<firmware, now, mode, events, m_ovfMatch, m_comMatch, history>>
  BY DEF Read
<1>2. updtCount /\ access' = now /\ asleep = NoEvent /\ ~m_sleeping
  BY Awake DEF Read, IInv, Shape
<1>3. /\ m_psPerTick' = m_psPerTick /\ Lag' = Lag /\ Counting' = Counting
      /\ Rest' = RestOf(m_ovfMatch, m_countVal', m_timeOffset')
      /\ TimeToOvf' = TimeToOvf
  BY <1>1, Same DEF mode, events, Counting, TimeToOvf
<1>4. ~Counting => UNCHANGED counter /\ Rest' = Rest
  BY <1>2, <1>3, Counted DEF counter, Rest
<1>5. Counts(m_ovfMatch, m_countVal', m_timeOffset')
  BY <1>2, Counted
<1>6. TypeOK'
  <2>1. /\ m_countVal' \in 0 .. MaxCount + 1 /\ m_timeOffset' \in 0 .. Prescale - 1
        /\ m_circTime' \in 0 .. MaxTime
    BY <1>2, <1>5, Counted, Facts, Types DEF Counts
  <2>2. access' \in 0 .. MaxTime \cup {NoEvent}
    BY <1>2, Facts DEF TypeOK
  <2> QED BY <1>1, <2>1, <2>2 DEF IInv, TypeOK, mode, events, history
<1>7. Shape'
  BY <1>1, <1>2, <1>5, Same, Counted DEF IInv, Shape, mode, events
<1>8. Scheduled'
  BY <1>1, <1>2, <1>3, Counted DEF IInv, Scheduled, mode, events, history
<1>9. Kept' /\ Asleep' /\ Edges'
  BY <1>1, <1>3, <1>4 DEF IInv, Kept, Asleep, Edges, Counting, mode, events, history, counter
<1>10. Stopped'
  BY <1>1, <1>2, <1>4 DEF IInv, Stopped, Counting, mode, events
<1> QED BY <1>6, <1>7, <1>8, <1>9, <1>10 DEF IInv

LEMMA StopIInv == ASSUME AllTame, IInv, Stop PROVE IInv'
<1>1. UNCHANGED <<firmware, now, m_sleeping, m_extClock, m_bidirec, m_reverse, asleep, woken, events,
                  m_ovfMatch, m_comMatch, history>>
  BY DEF Stop
<1>2. /\ updtCount /\ access' = now /\ asleep = NoEvent /\ ~m_sleeping
      /\ m_running' = FALSE /\ ~m_extClock /\ Counting /\ "stop" \in firmware
  BY Awake, Facts DEF Stop, Runs, IInv, Shape, Counting
<1>3. /\ m_psPerTick' = m_psPerTick /\ Rest' = RestOf(m_ovfMatch, m_countVal', m_timeOffset')
      /\ Counts(m_ovfMatch, m_countVal', m_timeOffset')
      /\ Rest' \in left - (m_psPerTick - 1) .. left + (slips + 1) * m_psPerTick
      /\ TimeToOvf <= Rest'
  BY <1>1, <1>2, Same, Counted
<1>4. Rest' \in Nat
  BY <1>3, RestBounds, Facts
<1>5. TypeOK'
  <2>1. /\ m_countVal' \in 0 .. MaxCount + 1 /\ m_timeOffset' \in 0 .. Prescale - 1
        /\ m_circTime' \in 0 .. MaxTime
    BY <1>2, <1>3, Counted, Facts, Types DEF Counts
  <2>2. access' \in 0 .. MaxTime \cup {NoEvent}
    BY <1>2, Facts DEF TypeOK
  <2> QED BY <1>1, <1>2, <2>1, <2>2 DEF IInv, TypeOK, events, history
<1>6. Shape'
  BY <1>1, <1>2, <1>3, Same, Counted DEF IInv, Shape, events
<1>7. Stopped'
  <2>1. m_ovfTime <= now + Rest' /\ event = m_ovfTime /\ event # NoEvent
    BY <1>2, <1>3, <1>4, Facts, Types DEF TimeToOvf, IInv, Scheduled
  <2>2. m_ovfTime < now + Rest' \/ m_ovfTime = now + Rest'
    BY <1>4, <2>1, Types DEF IInv
  <2> QED BY <1>1, <1>2, <2>1, <2>2 DEF Stopped, events
<1>8. Kept'
  BY <1>1, <1>3 DEF Kept, history
<1> QED BY <1>1, <1>2, <1>5, <1>6, <1>7, <1>8 DEF IInv, Scheduled, Counting, Asleep, Edges

LEMMA StartIInv == ASSUME AllTame, IInv, Start PROVE IInv'
<1>1. UNCHANGED <<firmware, now, m_sleeping, m_extClock, m_bidirec, m_reverse, asleep, woken, counter,
                  m_ovfMatch, m_comMatch, left, expected>>
  BY DEF Start
<1>2. /\ access # now /\ access' = now /\ asleep = NoEvent /\ ~m_sleeping /\ ~m_extClock
      /\ ~m_running /\ m_running' = TRUE /\ Counting' /\ ~m_extClock' /\ ~m_sleeping'
      /\ sheduleEvents(event) /\ slips' = slips + 1 /\ slips < MaxSlips
  BY Awake, <1>1 DEF Start, Slip, IInv, Shape, Counting
<1>3. m_psPerTick' = m_psPerTick /\ Rest' = Rest
      /\ Rest = RestOf(m_ovfMatch', m_countVal', m_timeOffset')
      /\ Counts(m_ovfMatch', m_countVal', m_timeOffset')
  BY <1>1, Same, Facts DEF counter, Rest
<1>4. Rest \in left - (m_psPerTick - 1) .. left + slips' * m_psPerTick
  BY <1>2 DEF IInv, Kept
<1>5. m_ovfTime = now + Rest => event = m_ovfTime
  BY <1>2, Facts, Types DEF IInv, Stopped
<1>6. m_ovfMatch' \in 0 .. MaxCount /\ m_comMatch' \in 0 .. MaxCount
  BY <1>1, Facts DEF TypeOK
<1>7. /\ Scheduled'
      /\ m_ovfTime' \in Times /\ event' = m_ovfTime' /\ now <= m_ovfTime'
      /\ ocEvent' \in Int \cup {NoEvent} /\ m_extMatch' \in -1 .. MaxCount
  BY <1>1, <1>2, <1>3, <1>4, <1>5, <1>6, Rescheduled
<1>8. TypeOK'
  <2>1. slips' \in 0 .. MaxSlips /\ access' \in 0 .. MaxTime \cup {NoEvent}
    BY <1>2, McuTimerAssumption, Facts DEF TypeOK
  <2> QED BY <1>1, <1>2, <1>7, <2>1 DEF IInv, TypeOK, counter
<1>9. Shape'
  BY <1>1, <1>2, <1>3, <1>7, Same DEF IInv, Shape, counter
<1> QED BY <1>2, <1>7, <1>8, <1>9 DEF IInv, Kept, Asleep, Stopped, Edges

LEMMA WakeIInv == ASSUME AllTame, IInv, Wake PROVE IInv'
<1>1. UNCHANGED <<firmware, now, access, m_running, m_sleeping, m_extClock, m_bidirec, m_reverse, counter,
                  events, m_ovfMatch, m_comMatch, history>>
  BY DEF Wake
<1>2. /\ asleep \in Nat /\ asleep < now /\ asleep' = NoEvent /\ woken' = TRUE /\ m_sleeping
      /\ now \in Nat /\ m_ovfTime \in Nat
  BY Facts, Types DEF Wake, IInv, Shape
<1>3. /\ m_psPerTick' = m_psPerTick /\ Lag' = Lag /\ Rest' = Rest /\ Rest \in Nat
      /\ Counts(m_ovfMatch, m_countVal, m_timeOffset)'
  BY <1>1, Same, Facts DEF counter, Rest
<1>4. TypeOK'
  BY <1>1, <1>2 DEF IInv, TypeOK, counter, events, history
<1>5. Shape'
  BY <1>1, <1>2, <1>3 DEF IInv, Shape, counter, events
<1>6. Asleep'
  <2>1. m_ovfTime <= asleep + Rest => m_ovfTime < now + Rest
    BY <1>2, <1>3
  <2> QED BY <1>1, <1>2, <1>3, <2>1, Types DEF IInv, Asleep, events
<1>7. Scheduled' /\ Kept' /\ Stopped' /\ Edges'
  BY <1>1, <1>2, <1>3 DEF IInv, Scheduled, Kept, Stopped, Edges, Counting, TimeToOvf, counter, events, history
<1> QED BY <1>4, <1>5, <1>6, <1>7 DEF IInv

LEMMA RouseIInv == ASSUME AllTame, IInv, Rouse PROVE IInv'
<1>1. UNCHANGED <<firmware, now, access, m_running, m_extClock, m_bidirec, m_reverse, asleep, counter,
                  m_ovfMatch, m_comMatch, left, expected>>
  BY DEF Rouse
<1>2. woken /\ ~woken' /\ woken' \in BOOLEAN /\ asleep = NoEvent /\ m_sleeping /\ m_sleeping' = FALSE
  BY DEF Rouse, IInv, Shape
<1>3. /\ m_psPerTick' = m_psPerTick /\ Rest' = Rest
      /\ Rest = RestOf(m_ovfMatch', m_countVal', m_timeOffset')
      /\ Counts(m_ovfMatch', m_countVal', m_timeOffset')
      /\ Rest \in Nat
  BY <1>1, Same, Facts DEF counter, Rest
<1>4. CASE m_extClock
  <2>1. UNCHANGED <<events, slips>>
    BY <1>4 DEF Rouse
  <2>2. TypeOK'
    BY <1>1, <1>2, <2>1 DEF IInv, TypeOK, counter, events
  <2>3. Shape'
    BY <1>1, <1>2, <1>3, <2>1, Same DEF IInv, Shape, counter, events
  <2>4. m_running' /\ m_extClock'
    BY <1>1, <1>4 DEF IInv, Shape
  <2>5. Edges'
    BY <1>1, <1>3, <2>1 DEF IInv, Edges, counter
  <2> QED BY <2>2, <2>3, <2>4, <2>5 DEF IInv, Scheduled, Counting, Kept, Asleep, Stopped
<1>5. CASE ~m_extClock
  <2>1. sheduleEvents(event) /\ slips' = slips + 1 /\ slips' \in 0 .. MaxSlips
    BY <1>5, Types, McuTimerAssumption DEF Rouse, Slip, IInv
  <2>2. CASE m_running
    <3>1. event = NoEvent /\ m_ovfTime < now + Rest
      BY <1>2, <1>5, <2>2 DEF IInv, Asleep
    <3>2. Rest \in left' - (m_psPerTick - 1) .. left' + slips' * m_psPerTick
      BY <1>1, <1>2, <1>5, <2>1, <2>2 DEF IInv, Kept
    <3>3. m_ovfMatch' \in 0 .. MaxCount /\ m_comMatch' \in 0 .. MaxCount
      BY <1>1, Facts DEF TypeOK
    <3>4. Counting' /\ m_running' /\ ~m_sleeping' /\ ~m_extClock'
      BY <1>1, <1>2, <1>5, <2>2 DEF Counting
    <3>5. ~(m_ovfTime = now + Rest)
      BY <1>3, <3>1, Types, Facts
    <3>6. /\ Scheduled'
          /\ m_ovfTime' \in Times /\ event' = m_ovfTime' /\ now <= m_ovfTime'
          /\ ocEvent' \in Int \cup {NoEvent} /\ m_extMatch' \in -1 .. MaxCount
      BY <1>1, <1>3, <2>1, <3>2, <3>3, <3>4, <3>5, Rescheduled
    <3>7. TypeOK'
      BY <1>1, <1>2, <2>1, <3>6 DEF IInv, TypeOK, counter
    <3>8. Shape'
      BY <1>1, <1>2, <1>3, <1>5, <3>6, Same DEF IInv, Shape, counter
    <3> QED BY <3>4, <3>6, <3>7, <3>8 DEF IInv, Kept, Asleep, Stopped, Edges
  <2>3. CASE ~m_running
    <3>1. event' = event /\ UNCHANGED <<m_ovfTime, ocEvent, m_extMatch>> /\ ~m_running'
      BY <1>1, <2>1, <2>3 DEF sheduleEvents
    <3>2. TypeOK'
      BY <1>1, <1>2, <2>1, <3>1 DEF IInv, TypeOK, counter
    <3>3. Shape'
      BY <1>1, <1>2, <1>3, <3>1, Same DEF IInv, Shape, counter
    <3>4. Kept'
      <4>1. slips' * m_psPerTick \in Nat /\ (slips' + 1) * m_psPerTick = slips' * m_psPerTick + m_psPerTick
        BY <2>1, Types, McuTimerAssumption DEF IInv
      <4>2. left - (m_psPerTick - 1) <= Rest /\ Rest <= left + slips' * m_psPerTick
        BY <2>1, <2>3, Facts DEF IInv, Kept
      <4>3. Rest \in left - (m_psPerTick - 1) .. left + (slips' + 1) * m_psPerTick
        BY <1>3, <4>1, <4>2, Types DEF IInv
      <4> QED BY <1>1, <1>3, <4>3 DEF Kept
    <3>5. Stopped'
      BY <1>1, <1>3, <3>1 DEF IInv, Stopped
    <3> QED BY <1>1, <1>5, <3>1, <3>2, <3>3, <3>4, <3>5 DEF IInv, Scheduled, Counting, Asleep, Edges
  <2> QED BY <2>2, <2>3
<1> QED BY <1>4, <1>5

\* A write of the counter.
LEMMA WriteCountIInv ==
    ASSUME AllTame, IInv, NEW v \in 0 .. MaxCount, WriteCount(v) PROVE IInv'
<1>1. UNCHANGED <<firmware, now, mode, m_ovfMatch, m_comMatch>>
  BY DEF WriteCount
<1>2. /\ access' = now /\ asleep = NoEvent /\ ~m_sleeping /\ "write" \in firmware
      /\ v < m_ovfPeriod(m_ovfMatch) /\ m_countVal' = v
      /\ sheduleEvents(event) /\ Begin(v, m_ovfMatch)
  BY Awake DEF WriteCount, Runs, IInv, Shape
<1> DEFINE S == m_ovfPeriod(m_ovfMatch)
           R == RestOf(m_ovfMatch, v, m_timeOffset')
<1>3. /\ S \in Nat /\ S <= m_ovfMatch + 1 /\ m_ovfMatch \in Nat /\ m_ovfMatch \in 0 .. MaxCount
      /\ S = IF m_bidirec THEN m_ovfMatch ELSE m_ovfMatch + 1
      /\ m_psPerTick \in Nat \ {0} /\ v \in Nat /\ now \in Nat
      /\ slips' = 0 /\ expected' \in BOOLEAN
  BY <1>2, Facts, Types DEF Begin
<1>a. left' = (S - v) * m_psPerTick
  BY <1>2 DEF Begin
<1>4. m_timeOffset' \in 0 .. m_psPerTick - 1 /\ m_circTime' \in 0 .. MaxTime /\ m_circTime' <= now
  <2>1. /\ m_timeOffset \in 0 .. m_psPerTick - 1 /\ m_circTime \in 0 .. MaxTime /\ m_circTime <= now
        /\ now \in 0 .. MaxTime
    BY Facts DEF Counts, IInv, Shape, TypeOK
  <2>2. CASE m_running /\ ~m_extClock /\ m_circTime # now
    <3>1. m_ovfTime - now \in Nat
      BY <1>2, <2>2, Facts, Types DEF IInv, Shape, Scheduled, Counting
    <3>2. (m_ovfTime - now) % m_psPerTick \in 0 .. m_psPerTick - 1
      BY <1>3, <3>1, Division
    <3>3. m_timeOffset' \in {m_timeOffset, (m_ovfTime - now) % m_psPerTick} /\ m_circTime' = now
      BY <2>2 DEF WriteCount
    <3> QED BY <2>1, <3>2, <3>3, <1>3
  <2>3. CASE ~(m_running /\ ~m_extClock /\ m_circTime # now)
    BY <2>1, <2>3 DEF WriteCount
  <2> QED BY <2>2, <2>3
<1>5. Counts(m_ovfMatch, v, m_timeOffset')
  BY <1>2, <1>3, <1>4 DEF Counts
<1>6. R \in Nat /\ R > 0
  BY <1>2, <1>3, <1>5, RestBounds, Facts
<1>7. R \in left' - (m_psPerTick - 1) .. left'
  <2> DEFINE off == IF m_timeOffset' # 0 THEN m_psPerTick - m_timeOffset' ELSE 0
  <2>1. left' \in Int /\ m_psPerTick \in Nat \ {0}
    BY <1>3, <1>a
  <2>2. R = left' - off
    BY <1>a DEF RestOf
  <2>3. off \in 0 .. m_psPerTick - 1
    BY <1>3, <1>4, PartOfTick
  <2>4. left' - off \in left' - (m_psPerTick - 1) .. left'
    BY <2>1, <2>3, ShortOf
  <2> QED BY <2>2, <2>4, Zenon
<1>8. /\ m_psPerTick' = m_psPerTick /\ Rest' = R
      /\ Counts(m_ovfMatch, m_countVal, m_timeOffset)'
      /\ R = RestOf(m_ovfMatch', m_countVal', m_timeOffset')
      /\ Counts(m_ovfMatch', m_countVal', m_timeOffset')
  BY <1>1, <1>2, <1>5, Same DEF mode
<1>9. slips' * m_psPerTick = 0 /\ (slips' + 1) * m_psPerTick = m_psPerTick /\ left' \in Int
  BY <1>3, <1>a
<1> HIDE DEF R, S
<1>10. ASSUME m_ovfTime' \in Times, event' \in Times \cup {NoEvent},
              ocEvent' \in Int \cup {NoEvent}, m_extMatch' \in -1 .. MaxCount
       PROVE  TypeOK'
  <2>1. m_countVal' \in 0 .. MaxCount + 1 /\ m_timeOffset' \in 0 .. Prescale - 1
    BY <1>2, <1>3, <1>4, Facts, Types
  <2>2. access' \in 0 .. MaxTime \cup {NoEvent} /\ slips' \in 0 .. MaxSlips
    BY <1>2, <1>3, McuTimerAssumption, Facts DEF TypeOK
  <2> QED BY <1>1, <1>3, <1>4, <1>9, <1>10, <2>1, <2>2 DEF IInv, TypeOK, mode
<1>11. ASSUME event' \in {m_ovfTime', NoEvent}, event' # NoEvent => now <= event',
              m_extClock => event' = NoEvent
       PROVE  Shape'
  BY <1>1, <1>2, <1>4, <1>8, <1>11, Facts, Types DEF IInv, Shape, mode
<1>12. CASE ~m_running
  <2>1. event' = event /\ UNCHANGED <<m_ovfTime, ocEvent, m_extMatch>> /\ ~m_running' /\ ~m_extClock
    BY <1>1, <1>2, <1>12 DEF sheduleEvents, mode, IInv, Shape
  <2>2. TypeOK'
    BY <1>10, <2>1, Facts DEF TypeOK
  <2>3. Shape'
    BY <1>11, <2>1 DEF IInv, Shape
  <2>4. Kept'
    <3> DEFINE l == left'
    <3>a. l \in Int /\ R \in l - (m_psPerTick - 1) .. l
      BY <1>7, <1>9
    <3> HIDE DEF l
    <3>b. R \in l - (m_psPerTick - 1) .. l + m_psPerTick
      BY <1>3, <3>a
    <3>1. R \in left' - (m_psPerTick - 1) .. left' + m_psPerTick
      BY <3>b DEF l
    <3> QED BY <1>8, <1>9, <3>1 DEF Kept
  <2>5. Stopped'
    <3>1. event = NoEvent => m_ovfTime <= now
      BY <1>2, <1>12 DEF IInv, Stopped
    <3>2. event = NoEvent \/ event = m_ovfTime
      BY DEF IInv, Shape
    <3>3. event = NoEvent => m_ovfTime < now + R
      BY <1>3, <1>6, <3>1, Types DEF IInv
    <3> QED BY <1>1, <1>2, <1>6, <1>8, <1>12, <2>1, <3>1, <3>2, <3>3 DEF IInv, Stopped
  <2> QED BY <1>1, <2>1, <2>2, <2>3, <2>4, <2>5 DEF IInv, Scheduled, Counting, Asleep, Edges, mode
<1>13. CASE m_running /\ ~m_extClock
  <2>1. Counting' /\ m_running' /\ ~m_extClock' /\ ~m_sleeping' /\ event = m_ovfTime
    BY <1>1, <1>2, <1>13 DEF mode, Counting, IInv, Scheduled
  <2>2. R \in left' - (m_psPerTick - 1) .. left' + slips' * m_psPerTick
    <3> DEFINE l == left'
    <3>a. l \in Int /\ R \in l - (m_psPerTick - 1) .. l
      BY <1>7, <1>9
    <3> HIDE DEF l
    <3>b. R \in l - (m_psPerTick - 1) .. l + 0
      BY <1>3, <3>a
    <3> QED BY <1>9, <3>b DEF l
  <2>3. m_ovfMatch' \in 0 .. MaxCount /\ m_comMatch' \in 0 .. MaxCount
    BY <1>1, Facts DEF TypeOK
  <2>4. /\ Scheduled'
        /\ m_ovfTime' \in Times /\ event' = m_ovfTime' /\ now <= m_ovfTime'
        /\ ocEvent' \in Int \cup {NoEvent} /\ m_extMatch' \in -1 .. MaxCount
    BY <1>1, <1>2, <1>8, <2>1, <2>2, <2>3, Rescheduled DEF mode
  <2>5. TypeOK' /\ Shape'
    BY <1>10, <1>11, <1>13, <2>4
  <2> QED BY <2>1, <2>4, <2>5 DEF IInv, Kept, Asleep, Stopped, Edges
<1>14. CASE m_extClock
  <2>1. /\ m_running' /\ m_extClock' /\ m_running
        /\ event' = NoEvent /\ m_ovfTime' = m_ovfTime /\ ocSheduleEvents
    BY <1>1, <1>2, <1>14 DEF mode, IInv, Shape, sheduleEvents
  <2>2. ocEvent' \in Int \cup {NoEvent} /\ m_extMatch' \in -1 .. MaxCount
    <3>1. m_countVal' \in Nat /\ m_ovfMatch' \in 0 .. MaxCount /\ m_timeOffset' \in Nat
          /\ m_comMatch' \in 0 .. MaxCount
      BY <1>1, <1>2, <1>3, <1>4, Facts DEF TypeOK
    <3> QED BY <2>1, <3>1, Facts, UnitTypes
  <2>3. TypeOK' /\ Shape'
    BY <1>10, <1>11, <2>1, <2>2, Facts DEF TypeOK
  <2>4. Edges'
    <3>1. m_psPerTick = 1
      BY <1>14, Facts
    <3> QED BY <1>1, <1>2, <1>3, <1>a, <1>8, <3>1, Types DEF Edges, S, mode, IInv
  <2> QED BY <2>1, <2>3, <2>4 DEF IInv, Scheduled, Counting, Kept, Asleep, Stopped
<1> QED BY <1>12, <1>13, <1>14, Facts DEF TypeOK

\* A write of the top.
LEMMA WriteTopIInv ==
    ASSUME AllTame, IInv, NEW top \in 0 .. MaxCount, WriteTop(top) PROVE IInv'
<1>1. UNCHANGED <<firmware, now, mode, m_comMatch>>
  BY DEF WriteTop
<1>2. /\ updtCount /\ access' = now /\ asleep = NoEvent /\ ~m_sleeping /\ "write" \in firmware
      /\ ~m_bidirec /\ top >= m_countVal' /\ m_ovfMatch' = top
      /\ sheduleEvents(event) /\ slips' = slips + 1 /\ slips < MaxSlips
      /\ left' = left + (top - m_ovfMatch) * m_psPerTick
      /\ expected' \in BOOLEAN
  BY Awake, Types DEF WriteTop, Runs, Slip, IInv, Shape
<1> DEFINE D == (top - m_ovfMatch) * m_psPerTick
           R == RestOf(m_ovfMatch, m_countVal', m_timeOffset')
           Q == RestOf(top, m_countVal', m_timeOffset')
<1>3. /\ m_psPerTick \in Nat \ {0} /\ top \in Nat /\ m_ovfMatch \in Nat /\ now \in Nat
      /\ left \in Int /\ slips \in Nat /\ MaxCount \in Nat /\ slips' \in 0 .. MaxSlips
      /\ m_ovfPeriod(top) = top + 1 /\ m_ovfPeriod(m_ovfMatch) = m_ovfMatch + 1
      /\ m_ovfMatch \in 0 .. MaxCount
  BY <1>2, Facts, Types, McuTimerAssumption
<1>4. D \in Int
  BY <1>3
<1>5. /\ Counts(m_ovfMatch, m_countVal', m_timeOffset')
      /\ m_circTime' \in 0 .. MaxTime /\ m_circTime' <= now
      /\ ~Counting => UNCHANGED counter
      /\ ~m_extClock => R \in left - (m_psPerTick - 1) .. left + (slips + 1) * m_psPerTick
  BY <1>2, Counted, McuTimerAssumption
<1>6. Counts(top, m_countVal', m_timeOffset')
  BY <1>2, <1>3, <1>5 DEF Counts
<1>7. Q \in Nat /\ Q > 0
  <2>1. m_countVal' < m_ovfPeriod(top)
    BY <1>2, <1>3, <1>5 DEF Counts
  <2> QED BY <1>6, <2>1, RestBounds, Facts
<1>8. R \in Nat
  BY <1>3, <1>5, RestBounds, Facts
<1>9. Q = R + D
  <2> DEFINE c == m_countVal'
             P == m_psPerTick
             off == IF m_timeOffset' # 0 THEN P - m_timeOffset' ELSE 0
  <2>1. c \in Nat /\ off \in 0 .. P - 1
    BY <1>3, <1>5, CountTypes, Facts
  <2>2. Q = (m_ovfPeriod(top) - c) * P - off /\ R = (m_ovfPeriod(m_ovfMatch) - c) * P - off
    BY DEF RestOf
  <2> HIDE DEF off, Q, R, c, P
  <2>3. (top + 1 - c) * P = (m_ovfMatch + 1 - c) * P + (top - m_ovfMatch) * P
    BY <1>3, <2>1 DEF P
  <2>4. (top + 1 - c) * P \in Int /\ (m_ovfMatch + 1 - c) * P \in Int /\ off \in Int
    BY <1>3, <2>1 DEF P
  <2>5. Q = (top + 1 - c) * P - off /\ R = (m_ovfMatch + 1 - c) * P - off
    BY <1>3, <2>1, <2>2
  <2> QED BY <1>4, <2>3, <2>4, <2>5 DEF P, D
<1>10. /\ m_psPerTick' = m_psPerTick /\ Rest' = Q
       /\ Counts(m_ovfMatch, m_countVal, m_timeOffset)'
       /\ Q = RestOf(m_ovfMatch', m_countVal', m_timeOffset')
       /\ Counts(m_ovfMatch', m_countVal', m_timeOffset')
  BY <1>1, <1>2, <1>6, Same DEF mode
<1>11. /\ slips * m_psPerTick \in Nat
       /\ slips' * m_psPerTick = slips * m_psPerTick + m_psPerTick
       /\ (slips' + 1) * m_psPerTick = slips * m_psPerTick + m_psPerTick + m_psPerTick
       /\ left' = left + D
  BY <1>2, <1>3
<1> HIDE DEF Q, R, D
<1>12. ~m_extClock => Q \in left' - (m_psPerTick - 1) .. left' + slips' * m_psPerTick
  <2> SUFFICES ASSUME ~m_extClock
               PROVE  Q \in left' - (m_psPerTick - 1) .. left' + slips' * m_psPerTick
    OBVIOUS
  <2>1. left - (m_psPerTick - 1) <= R /\ R <= left + (slips + 1) * m_psPerTick
    BY <1>5
  <2>3. (slips + 1) * m_psPerTick = slips * m_psPerTick + m_psPerTick
    BY Facts
  <2>2. m_psPerTick \in Int /\ left \in Int
    BY <1>3
  <2> DEFINE l == left + D
             u == slips * m_psPerTick + m_psPerTick
  <2>4. Q \in l - (m_psPerTick - 1) .. l + u
    BY <1>4, <1>7, <1>8, <1>9, <1>11, <2>1, <2>2, <2>3
  <2> QED BY <1>11, <2>4
<1>13. ASSUME m_ovfTime' \in Times, event' \in Times \cup {NoEvent},
              ocEvent' \in Int \cup {NoEvent}, m_extMatch' \in -1 .. MaxCount
       PROVE  TypeOK'
  <2>1. m_countVal' \in 0 .. MaxCount + 1 /\ m_timeOffset' \in 0 .. Prescale - 1
    BY <1>3, <1>5, Facts, Types DEF Counts
  <2>2. access' \in 0 .. MaxTime \cup {NoEvent} /\ left' \in Int
    BY <1>2, <1>3, <1>4, <1>11, Facts DEF TypeOK
  <2> QED BY <1>1, <1>2, <1>3, <1>5, <1>13, <2>1, <2>2 DEF IInv, TypeOK, mode
<1>14. ASSUME event' \in {m_ovfTime', NoEvent}, event' # NoEvent => now <= event',
              m_extClock => event' = NoEvent
       PROVE  Shape'
  BY <1>1, <1>2, <1>5, <1>10, <1>14 DEF IInv, Shape, mode
<1>15. CASE ~m_running
  <2>1. event' = event /\ UNCHANGED <<m_ovfTime, ocEvent, m_extMatch>> /\ ~m_running' /\ ~m_extClock
    BY <1>1, <1>2, <1>15 DEF sheduleEvents, mode, IInv, Shape
  <2>2. TypeOK'
    BY <1>13, <2>1, Facts DEF TypeOK
  <2>3. Shape'
    BY <1>14, <2>1 DEF IInv, Shape
  <2>4. Kept'
    <3>1. left' \in Int /\ slips * m_psPerTick \in Nat /\ m_psPerTick \in Nat
      BY <1>3, <1>4, <1>11
    <3>2. Q <= left' + slips' * m_psPerTick /\ left' - (m_psPerTick - 1) <= Q
      BY <1>12, <2>1
    <3> DEFINE l == left'
               k == slips * m_psPerTick
    <3>a. l \in Int /\ k \in Nat /\ m_psPerTick \in Nat /\ Q \in Nat
          /\ Q <= l + (k + m_psPerTick) /\ l - (m_psPerTick - 1) <= Q
      BY <1>7, <1>11, <3>1, <3>2
    <3> HIDE DEF l, k
    <3>b. Q \in l - (m_psPerTick - 1) .. l + (k + m_psPerTick + m_psPerTick)
      BY <3>a
    <3>3. Q \in left' - (m_psPerTick - 1) .. left' + (slips' + 1) * m_psPerTick
      BY <1>11, <3>b DEF l, k
    <3> QED BY <1>10, <3>3 DEF Kept
  <2>5. Stopped'
    <3>1. event = NoEvent => m_ovfTime <= now
      BY <1>2, <1>15 DEF IInv, Stopped
    <3>2. event = NoEvent \/ event = m_ovfTime
      BY DEF IInv, Shape
    <3>3. event = NoEvent => m_ovfTime < now + Q
      BY <1>3, <1>7, <3>1, Types DEF IInv
    <3> QED BY <1>1, <1>2, <1>7, <1>10, <1>15, <2>1, <3>1, <3>2, <3>3 DEF IInv, Stopped
  <2> QED BY <1>1, <2>1, <2>2, <2>3, <2>4, <2>5 DEF IInv, Scheduled, Counting, Asleep, Edges, mode
<1>16. CASE m_running /\ ~m_extClock
  <2>1. Counting' /\ m_running' /\ ~m_extClock' /\ ~m_sleeping' /\ event = m_ovfTime
    BY <1>1, <1>2, <1>16 DEF mode, Counting, IInv, Scheduled
  <2>2. m_ovfMatch' \in 0 .. MaxCount /\ m_comMatch' \in 0 .. MaxCount
    BY <1>1, <1>2, Facts DEF TypeOK
  <2>3. /\ Scheduled'
        /\ m_ovfTime' \in Times /\ event' = m_ovfTime' /\ now <= m_ovfTime'
        /\ ocEvent' \in Int \cup {NoEvent} /\ m_extMatch' \in -1 .. MaxCount
    BY <1>1, <1>2, <1>10, <1>12, <1>16, <2>1, <2>2, Rescheduled DEF mode
  <2>4. TypeOK' /\ Shape'
    BY <1>13, <1>14, <1>16, <2>3
  <2> QED BY <2>1, <2>3, <2>4 DEF IInv, Kept, Asleep, Stopped, Edges
<1>17. CASE m_extClock
  <2>1. /\ m_running' /\ m_extClock' /\ m_running
        /\ event' = NoEvent /\ m_ovfTime' = m_ovfTime /\ ocSheduleEvents
    BY <1>1, <1>2, <1>17 DEF mode, IInv, Shape, sheduleEvents
  <2>2. ocEvent' \in Int \cup {NoEvent} /\ m_extMatch' \in -1 .. MaxCount
    <3>1. m_countVal' \in Nat /\ m_ovfMatch' \in 0 .. MaxCount /\ m_timeOffset' \in Nat
          /\ m_comMatch' \in 0 .. MaxCount
      BY <1>1, <1>2, <1>3, <1>5, Facts DEF TypeOK, Counts
    <3> QED BY <2>1, <3>1, Facts, UnitTypes
  <2>3. TypeOK' /\ Shape'
    BY <1>13, <1>14, <2>1, <2>2, Facts DEF TypeOK
  <2>4. Edges'
    <3>1. m_psPerTick = 1 /\ m_countVal' = m_countVal /\ m_countVal \in Nat
      BY <1>5, <1>17, Facts, Types DEF Counting, counter, IInv
    <3>2. m_ovfMatch + 1 - m_countVal \in left .. left + slips
      BY <1>2, <1>3, <1>17, <3>1 DEF IInv, Edges
    <3>3. D = top - m_ovfMatch
      BY <1>3, <3>1 DEF D
    <3>4. top + 1 - m_countVal' \in left' .. left' + slips'
      BY <1>2, <1>3, <1>11, <3>1, <3>2, <3>3
    <3>5. /\ (top + 1 - m_countVal') * 1 = top + 1 - m_countVal'
          /\ slips' + 0 = slips' /\ slips' * 1 = slips' /\ left' - 0 = left'
      <4>1. top + 1 - m_countVal' \in Int /\ slips' \in Int /\ left' \in Int
        BY <1>3, <1>4, <1>11, <3>1, McuTimerAssumption
      <4> QED BY <4>1, OfOne
    <3> QED BY <1>1, <1>2, <1>3, <1>10, <3>1, <3>4, <3>5 DEF Edges, mode
  <2> QED BY <2>1, <2>3, <2>4 DEF IInv, Scheduled, Counting, Kept, Asleep, Stopped
<1> QED BY <1>15, <1>16, <1>17, Facts DEF TypeOK

\* A write of the compare register.
LEMMA WriteCompareIInv ==
    ASSUME AllTame, IInv, NEW v \in 0 .. MaxCount, WriteCompare(v) PROVE IInv'
<1>1. UNCHANGED <<firmware, now, mode, m_ovfMatch, m_ovfTime, event, left, slips>>
  BY DEF WriteCompare
<1>2. /\ updtCount /\ access' = now /\ asleep = NoEvent /\ ~m_sleeping
      /\ m_comMatch' = v /\ expected' \in BOOLEAN
  BY Awake, Types DEF WriteCompare, Runs, IInv, Shape
<1>3. /\ m_psPerTick' = m_psPerTick /\ Lag' = Lag /\ Counting' = Counting
      /\ Rest' = RestOf(m_ovfMatch, m_countVal', m_timeOffset')
      /\ TimeToOvf' = TimeToOvf
  BY <1>1, Same DEF mode, Counting, TimeToOvf
<1>4. ~Counting => UNCHANGED counter /\ Rest' = Rest
  BY <1>2, <1>3, Counted DEF counter, Rest
<1>5. Counts(m_ovfMatch, m_countVal', m_timeOffset')
  BY <1>2, Counted
<1>6. ocEvent' \in Int \cup {NoEvent} /\ m_extMatch' \in -1 .. MaxCount
  <2>1. CASE m_running
    <3>1. m_countVal' \in Nat /\ m_timeOffset' \in Nat /\ m_ovfMatch' \in 0 .. MaxCount
      BY <1>1, <1>5, CountTypes, Facts
    <3> QED BY <1>2, <2>1, <3>1, UnitTypes, Facts DEF WriteCompare
  <2>2. CASE ~m_running
    BY <2>2, Facts DEF WriteCompare, TypeOK
  <2> QED BY <2>1, <2>2
<1>7. TypeOK'
  <2>1. /\ m_countVal' \in 0 .. MaxCount + 1 /\ m_timeOffset' \in 0 .. Prescale - 1
        /\ m_circTime' \in 0 .. MaxTime
    BY <1>2, <1>5, Counted, Facts, Types DEF Counts
  <2>2. access' \in 0 .. MaxTime \cup {NoEvent}
    BY <1>2, Facts DEF TypeOK
  <2> QED BY <1>1, <1>2, <1>6, <2>1, <2>2 DEF IInv, TypeOK, mode
<1>8. Shape'
  BY <1>1, <1>2, <1>5, Same, Counted DEF IInv, Shape, mode
<1>9. Scheduled'
  BY <1>1, <1>2, <1>3, Counted DEF IInv, Scheduled, mode
<1>10. Kept' /\ Asleep' /\ Edges'
  BY <1>1, <1>3, <1>4 DEF IInv, Kept, Asleep, Edges, Counting, mode, counter
<1>11. Stopped'
  BY <1>1, <1>2, <1>4 DEF IInv, Stopped, Counting, mode
<1> QED BY <1>7, <1>8, <1>9, <1>10, <1>11 DEF IInv

LEMMA SleepIInv == ASSUME AllTame, IInv, Sleep PROVE IInv'
<1>1. UNCHANGED <<firmware, now, m_running, m_extClock, m_bidirec, m_reverse, woken, m_ovfMatch, m_comMatch,
                  left, expected>>
  BY DEF Sleep
<1>2. /\ access' = now /\ asleep = NoEvent /\ ~m_sleeping /\ asleep' = now /\ ~woken /\ ~woken'
      /\ "sleep" \in firmware /\ m_sleeping' = TRUE /\ NoEvent \notin Int /\ now \in Nat
  BY Awake, Facts, Types DEF Sleep, IInv, Shape
<1>3. access' \in 0 .. MaxTime \cup {NoEvent} /\ asleep' \in 0 .. MaxTime \cup {NoEvent}
  BY <1>2, Facts DEF TypeOK
<1>4. CASE m_extClock
  <2>1. UNCHANGED <<counter, events, slips>>
    BY <1>4 DEF Sleep
  <2>2. /\ m_psPerTick' = m_psPerTick /\ Rest' = Rest /\ m_running'
        /\ Counts(m_ovfMatch, m_countVal, m_timeOffset)'
    BY <1>1, <1>4, <2>1, Same, Facts DEF counter, Rest, IInv, Shape
  <2>3. TypeOK'
    BY <1>1, <1>2, <1>3, <2>1 DEF IInv, TypeOK, counter, events
  <2>4. Shape'
    BY <1>1, <1>2, <2>1, <2>2 DEF IInv, Shape, counter, events
  <2>5. Edges'
    BY <1>1, <2>1, <2>2 DEF IInv, Edges, counter
  <2> QED BY <1>1, <1>2, <1>4, <2>2, <2>3, <2>4, <2>5 DEF IInv, Scheduled, Counting, Kept, Asleep, Stopped
<1>5. CASE ~m_extClock
  <2>1. event' = NoEvent /\ updtCount /\ UNCHANGED <<m_ovfTime, ocEvent, m_extMatch, slips>>
    BY <1>2, <1>5 DEF Sleep
  <2>2. /\ Counts(m_ovfMatch, m_countVal', m_timeOffset')
        /\ m_circTime' \in Nat /\ m_circTime' <= now /\ m_circTime' <= MaxTime
        /\ ~Counting => UNCHANGED counter
        /\ Counting => TimeToOvf <= RestOf(m_ovfMatch, m_countVal', m_timeOffset')
        /\ RestOf(m_ovfMatch, m_countVal', m_timeOffset')
               \in left - (m_psPerTick - 1) .. left + (slips + 1) * m_psPerTick
    BY <1>2, <1>5, <2>1, Counted
  <2>3. /\ m_psPerTick' = m_psPerTick
        /\ Rest' = RestOf(m_ovfMatch, m_countVal', m_timeOffset')
        /\ Counts(m_ovfMatch, m_countVal, m_timeOffset)'
        /\ Rest' \in Nat
    BY <1>1, <2>2, Same, RestBounds, Facts
  <2>4. TypeOK'
    <3>1. /\ m_countVal' \in 0 .. MaxCount + 1 /\ m_timeOffset' \in 0 .. Prescale - 1
          /\ m_circTime' \in 0 .. MaxTime
      BY <2>2, Facts, Types DEF Counts
    <3> QED BY <1>1, <1>2, <1>3, <2>1, <3>1 DEF IInv, TypeOK
  <2>5. Shape'
    BY <1>1, <1>2, <1>5, <2>1, <2>2, <2>3 DEF IInv, Shape
  <2>6. Kept'
    BY <1>1, <2>1, <2>2, <2>3 DEF Kept
  <2>7. Asleep'
    <3>1. Counting => m_ovfTime <= now + Rest'
      <4> DEFINE R == Rest'
      <4>1. R \in Nat /\ (Counting => TimeToOvf <= R)
        BY <2>2, <2>3
      <4> HIDE DEF R
      <4>2. Counting => m_ovfTime <= now + R
        BY <1>2, <4>1, Types, Facts DEF TimeToOvf
      <4> QED BY <4>2 DEF R
    <3> QED BY <1>1, <1>2, <1>5, <2>1, <3>1 DEF Asleep, Counting
  <2>8. Stopped'
    <3> SUFFICES ASSUME ~m_running PROVE Stopped'
      BY <1>1 DEF Stopped
    <3>1. Rest' = Rest /\ Rest \in Nat
      BY <2>2, <2>3, Facts DEF Counting, counter, Rest
    <3>2. "write" \in firmware => "stop" \notin firmware
      BY <1>2, Types DEF Tame, IInv
    <3>3. "write" \in firmware => event = NoEvent /\ m_ovfTime = 0 /\ m_ovfTime <= now
      BY <1>2, <3>2 DEF IInv, Stopped
    <3>4. \/ m_ovfTime < now + Rest
          \/ m_ovfTime = now + Rest /\ access = now
      BY <1>2, <3>3 DEF IInv, Stopped
    <3> QED BY <1>1, <1>2, <2>1, <3>1, <3>3, <3>4 DEF IInv, Stopped
  <2> QED BY <1>1, <1>2, <1>5, <2>4, <2>5, <2>6, <2>7, <2>8 DEF IInv, Scheduled, Counting, Edges
<1> QED BY <1>4, <1>5

\* The external clock is selected.
LEMMA EnableExtClockIInv ==
    ASSUME AllTame, IInv, NEW en \in BOOLEAN, EnableExtClock(en) PROVE IInv'
<1>1. UNCHANGED <<firmware, now, m_running, m_sleeping, m_bidirec, m_reverse, asleep, woken, m_ovfMatch,
                  m_comMatch, left>>
  BY DEF EnableExtClock
<1>2. /\ en = TRUE /\ "external" \in firmware /\ access' = now /\ asleep = NoEvent /\ ~m_sleeping
      /\ m_running /\ ~m_extClock /\ m_extClock' = TRUE /\ Counting
      /\ updtCount /\ sheduleEvents(event) /\ slips' = slips + 1 /\ slips < MaxSlips
      /\ expected' \in BOOLEAN
  BY Awake, Facts, Types DEF EnableExtClock, Runs, Slip, Counting, IInv, Shape
<1>3. m_running' /\ ~m_sleeping' /\ event' = NoEvent /\ m_ovfTime' = m_ovfTime /\ ocSheduleEvents
  BY <1>1, <1>2 DEF sheduleEvents
<1> DEFINE N == m_ovfMatch
           c == m_countVal'
           t == m_timeOffset'
           R == RestOf(N, c, t)
<1>4. /\ m_psPerTick = 1 /\ m_bidirec \in BOOLEAN /\ N \in Nat /\ N \in 0 .. MaxCount
      /\ left \in Int /\ slips \in Nat
      /\ m_ovfPeriod(N) = IF m_bidirec THEN N ELSE N + 1
  BY <1>2, Facts, Types, Ticks DEF Tame, TypeOK
<1>5. /\ Counts(N, c, t) /\ m_circTime' \in 0 .. MaxTime /\ m_circTime' <= now
      /\ R \in left - (m_psPerTick - 1) .. left + (slips + 1) * m_psPerTick
  BY <1>2, Counted, McuTimerAssumption
<1>6. c \in Nat /\ t \in Nat
  BY <1>4, <1>5, CountTypes, Facts
<1>7. ocEvent' \in Int \cup {NoEvent} /\ m_extMatch' \in -1 .. MaxCount
  <2>1. m_ovfMatch' \in 0 .. MaxCount /\ m_comMatch' \in 0 .. MaxCount
    BY <1>1, Facts DEF TypeOK
  <2> QED BY <1>3, <1>6, <2>1, UnitTypes, Facts
<1>8. TypeOK'
  <2>1. m_countVal' \in 0 .. MaxCount + 1 /\ m_timeOffset' \in 0 .. Prescale - 1
    BY <1>5, Facts, Types DEF Counts
  <2>2. access' \in 0 .. MaxTime \cup {NoEvent} /\ slips' \in 0 .. MaxSlips
    BY <1>2, Types, McuTimerAssumption, Facts DEF TypeOK
  <2> QED BY <1>1, <1>2, <1>3, <1>5, <1>7, <2>1, <2>2 DEF IInv, TypeOK
<1>9. Shape'
  BY <1>1, <1>2, <1>3, <1>5, Same DEF IInv, Shape
<1>10. Edges'
  <2>1. t = 0 /\ R = m_ovfPeriod(N) - c
    <3>1. \A x \in 0 .. 0 : x = 0
      OBVIOUS
    <3>2. t = 0
      BY <1>4, <1>5, <3>1 DEF Counts
    <3>3. R = (m_ovfPeriod(N) - c) * m_psPerTick - (IF t # 0 THEN m_psPerTick - t ELSE 0)
      BY DEF RestOf
    <3>4. R = (m_ovfPeriod(N) - c) * 1 - 0
      BY <1>4, <3>2, <3>3
    <3> HIDE DEF c
    <3> QED BY <1>4, <1>6, <3>2, <3>4
  <2> HIDE DEF c, R
  <2>2. R \in left .. left + slips + 1
    BY <1>4, <1>5
  <2>3. (N + 1 - c) * 1 \in left - (1 - 1) .. left + (slips + 1 + (IF m_bidirec THEN 1 ELSE 0)) * 1
    BY <1>4, <1>6, <2>1, <2>2
  <2>4. m_psPerTick' = 1
    BY <1>1, <1>4, Same
  <2> QED BY <1>1, <1>2, <2>3, <2>4 DEF Edges, c
<1> QED BY <1>2, <1>3, <1>8, <1>9, <1>10 DEF IInv, Scheduled, Counting, Kept, Asleep, Stopped

\* A period begins.
LEMMA BeginIInv ==
    ASSUME AllTame, IInv, m_running, overflow, m_extClock \/ event = now, ~m_sleeping,
           UNCHANGED <<firmware, now, access, m_running, m_sleeping, m_extClock, m_bidirec, asleep,
                       woken, m_circTime, m_ovfMatch, m_comMatch>>
    PROVE  IInv'
<1>1. /\ m_countVal' = 0 /\ m_timeOffset' = 0 /\ m_reverse' = (m_bidirec /\ ~m_reverse)
      /\ sheduleEvents(NoEvent) /\ Begin(0, m_ovfMatch)
  BY DEF overflow
<1> DEFINE N == m_ovfMatch
           S == m_ovfPeriod(N)
           P == m_psPerTick
           R == RestOf(N, 0, 0)
<1>2. /\ P \in Nat \ {0} /\ N \in Nat /\ N \in 0 .. MaxCount /\ now \in Nat
      /\ m_bidirec \in BOOLEAN /\ m_reverse' \in BOOLEAN /\ expected' \in BOOLEAN
      /\ S = IF m_bidirec THEN N ELSE N + 1
      /\ MaxCount \in Nat /\ Prescale \in Nat \ {0}
      /\ m_reverse' => m_bidirec
  BY <1>1, Facts, Types, McuTimerAssumption DEF Begin
<1>3. S \in Nat /\ S > 0
  BY <1>2, Facts DEF IInv, Shape
<1>4. left' = S * P /\ slips' = 0
  <2>1. left' = (S - 0) * P /\ slips' = 0
    BY <1>1 DEF Begin
  <2> QED BY <1>3, <2>1
<1>5. R = S * P /\ R \in Nat /\ R > 0 /\ Counts(N, 0, 0)
  <2>1. Counts(N, 0, 0)
    BY <1>2 DEF Counts
  <2>2. R \in Nat /\ R > 0
    BY <1>2, <1>3, <2>1, RestBounds, Facts
  <2>3. R = (S - 0) * P - 0
    BY DEF RestOf
  <2> QED BY <1>2, <1>3, <2>1, <2>2, <2>3
<1>6. /\ P' = P /\ Rest' = R
      /\ R = RestOf(m_ovfMatch', m_countVal', m_timeOffset')
      /\ Counts(m_ovfMatch', m_countVal', m_timeOffset')
      /\ Counts(m_ovfMatch, m_countVal, m_timeOffset)'
  BY <1>1, <1>5, Same
<1> HIDE DEF R, S
<1>7. ASSUME m_ovfTime' \in Times, event' \in Times \cup {NoEvent},
             ocEvent' \in Int \cup {NoEvent}, m_extMatch' \in -1 .. MaxCount
      PROVE  TypeOK'
  <2>1. m_countVal' \in 0 .. MaxCount + 1 /\ m_timeOffset' \in 0 .. Prescale - 1
    BY <1>1, <1>2
  <2>2. left' \in Int /\ slips' \in 0 .. MaxSlips
    BY <1>2, <1>3, <1>4, McuTimerAssumption
  <2> QED BY <1>2, <1>7, <2>1, <2>2 DEF IInv, TypeOK
<1>8. ASSUME event' \in {m_ovfTime', NoEvent}, event' # NoEvent => now <= event',
             m_extClock => event' = NoEvent
      PROVE  Shape'
  BY <1>2, <1>6, <1>8 DEF IInv, Shape
<1>9. CASE ~m_extClock
  <2>1. Counting' /\ m_running' /\ ~m_extClock' /\ ~m_sleeping' /\ event = m_ovfTime /\ event = now
    BY <1>9 DEF Counting, IInv, Scheduled
  <2>2. R \in left' - (P - 1) .. left' + slips' * P
    <3>1. R \in R - (P - 1) .. R + 0 * P
      BY <1>2, <1>5
    <3> QED BY <1>4, <1>5, <3>1, Zenon
  <2>3. m_ovfMatch' \in 0 .. MaxCount /\ m_comMatch' \in 0 .. MaxCount
    BY Facts DEF TypeOK
  <2>4. m_ovfTime # now + R
    BY <1>2, <1>5, <2>1
  <2>5. m_ovfTime = now + RestOf(m_ovfMatch', m_countVal', m_timeOffset') => NoEvent = m_ovfTime
    BY <1>6, <2>4
  <2>6. /\ Scheduled'
        /\ m_ovfTime' \in Times /\ event' = m_ovfTime' /\ now <= m_ovfTime'
        /\ ocEvent' \in Int \cup {NoEvent} /\ m_extMatch' \in -1 .. MaxCount
    BY <1>1, <1>6, <2>1, <2>2, <2>3, <2>5, Rescheduled
  <2>7. TypeOK' /\ Shape'
    BY <1>7, <1>8, <1>9, <2>6
  <2> QED BY <2>1, <2>6, <2>7 DEF IInv, Kept, Asleep, Stopped, Edges
<1>10. CASE m_extClock
  <2>1. /\ m_running' /\ m_extClock' /\ ~m_sleeping'
        /\ event' = NoEvent /\ m_ovfTime' = m_ovfTime /\ ocSheduleEvents
    BY <1>1, <1>10 DEF sheduleEvents
  <2>2. ocEvent' \in Int \cup {NoEvent} /\ m_extMatch' \in -1 .. MaxCount
    <3>1. m_countVal' \in Nat /\ m_ovfMatch' \in 0 .. MaxCount /\ m_timeOffset' \in Nat
          /\ m_comMatch' \in 0 .. MaxCount
      BY <1>1, Facts DEF TypeOK
    <3> QED BY <2>1, <3>1, Facts, UnitTypes
  <2>3. TypeOK' /\ Shape'
    BY <1>7, <1>8, <2>1, <2>2, Facts DEF TypeOK
  <2>4. Edges'
    <3>1. P = 1
      BY <1>10, Facts
    <3>2. (N + 1 - 0) * 1 \in S * 1 - (1 - 1) .. S * 1 + (0 + (IF m_bidirec THEN 1 ELSE 0)) * 1
      BY <1>2, <1>3
    <3> QED BY <1>1, <1>4, <1>6, <3>1, <3>2 DEF Edges
  <2> QED BY <2>1, <2>3, <2>4 DEF IInv, Scheduled, Counting, Kept, Asleep, Stopped
<1> QED BY <1>9, <1>10

\* An edge of the clock pin.
LEMMA ClockStepIInv == ASSUME AllTame, IInv, ClockStep PROVE IInv'
<1>1. /\ UNCHANGED <<firmware, now, access, m_running, m_sleeping, m_extClock, m_bidirec, asleep,
                     woken, m_circTime, m_ovfMatch, m_comMatch>>
      /\ m_extClock /\ ~m_sleeping /\ m_running /\ m_psPerTick = 1
  BY Facts DEF ClockStep, IInv, Shape
<1>2. CASE m_countVal = m_ovfMatch
  <2>1. overflow
    BY <1>1, <1>2 DEF ClockStep
  <2> QED BY <1>1, <2>1, BeginIInv
<1>3. CASE m_countVal # m_ovfMatch
  <2>1. /\ m_countVal' = m_countVal + 1 /\ left' = left - 1 /\ expected' \in BOOLEAN
        /\ UNCHANGED <<m_reverse, m_timeOffset, events, slips>>
    BY <1>1, <1>3, Types DEF ClockStep, IInv
  <2>2. /\ m_countVal \in Nat /\ m_ovfMatch \in Nat /\ m_ovfMatch <= MaxCount /\ MaxCount \in Nat
        /\ left \in Int /\ slips \in Nat /\ m_bidirec \in BOOLEAN
        /\ m_countVal < m_ovfMatch /\ m_timeOffset = 0
    <3>1. m_countVal \in Nat /\ m_countVal <= m_ovfMatch
      BY CountTypes, Facts
    <3> QED BY <1>1, <1>3, <3>1, Types, Facts
  <2>3. Counts(m_ovfMatch, m_countVal + 1, 0)
    BY <1>1, <2>2 DEF Counts
  <2>4. m_psPerTick' = 1 /\ Counts(m_ovfMatch, m_countVal, m_timeOffset)'
    BY <1>1, <2>1, <2>2, <2>3, Same
  <2>5. TypeOK'
    <3>1. m_countVal + 1 \in 0 .. MaxCount + 1 /\ left - 1 \in Int
      BY <2>2
    <3> QED BY <1>1, <2>1, <3>1 DEF IInv, TypeOK, events
  <2>6. Shape'
    BY <1>1, <2>1, <2>4 DEF IInv, Shape, events
  <2>7. Edges'
    <3> DEFINE late == slips + IF m_bidirec THEN 1 ELSE 0
    <3>1. late \in Nat
      BY <2>2
    <3>2. (m_ovfMatch + 1 - m_countVal) * 1 \in left - (1 - 1) .. left + late * 1
      BY <1>1 DEF IInv, Edges
    <3> HIDE DEF late
    <3>3. (m_ovfMatch + 1 - (m_countVal + 1)) * 1 \in left - 1 - (1 - 1) .. left - 1 + late * 1
      BY <2>2, <3>1, <3>2
    <3> QED BY <1>1, <2>1, <2>4, <3>3 DEF Edges, events, late
  <2> QED BY <1>1, <2>5, <2>6, <2>7 DEF IInv, Scheduled, Counting, Kept, Asleep, Stopped
<1> QED BY <1>2, <1>3

LEMMA OverflowIInv == ASSUME AllTame, IInv, Overflow PROVE IInv'
<1>1. /\ UNCHANGED <<firmware, now, access, m_running, m_sleeping, m_extClock, m_bidirec, asleep,
                     woken, m_circTime, m_ovfMatch, m_comMatch>>
      /\ event = now /\ overflow
  BY DEF Overflow
<1>2. now \in Nat /\ event # NoEvent /\ event = m_ovfTime /\ ~m_extClock
  BY <1>1, Types DEF IInv, Shape
<1>3. CASE m_running
  <2>1. ~m_sleeping
    BY <1>2, <1>3 DEF IInv, Asleep
  <2> QED BY <1>1, <1>3, <2>1, BeginIInv
<1>4. CASE ~m_running
  <2>1. /\ UNCHANGED <<m_countVal, m_timeOffset, m_reverse, m_ovfTime, ocEvent, m_extMatch, history>>
        /\ event' = NoEvent
    BY <1>1, <1>4 DEF overflow
  <2>2. m_psPerTick' = m_psPerTick /\ Rest' = Rest /\ Counts(m_ovfMatch, m_countVal, m_timeOffset)'
    BY <1>1, <2>1, Same, Facts DEF Rest
  <2>3. TypeOK'
    BY <1>1, <2>1 DEF IInv, TypeOK, history
  <2>4. Shape'
    BY <1>1, <1>2, <2>1, <2>2 DEF IInv, Shape
  <2>5. Kept'
    BY <1>1, <2>1, <2>2 DEF IInv, Kept, history
  <2>6. Stopped'
    <3>1. m_ovfTime < now + Rest \/ (m_ovfTime = now + Rest /\ access = now)
      BY <1>1, <1>2, <1>4, Facts DEF IInv, Stopped
    <3>2. m_ovfTime <= now
      BY <1>1, <1>2
    <3> QED BY <1>1, <1>4, <2>1, <2>2, <3>1, <3>2 DEF IInv, Stopped
  <2> QED BY <1>1, <1>2, <1>4, <2>3, <2>4, <2>5, <2>6 DEF IInv, Scheduled, Counting, Asleep, Edges
<1> QED BY <1>3, <1>4, <1>1, Types DEF IInv

LEMMA InitIInv == ASSUME AllTame, Init PROVE IInv
<1>1. /\ firmware \in Firmwares /\ MaxCount \in Nat \ {0} /\ MaxTime \in Nat /\ Prescale \in Nat \ {0}
      /\ MaxSlips \in Nat \ {0} /\ NoEvent \notin Int
  BY McuTimerAssumption DEF Init
<1>2. m_psPerTick \in Nat \ {0} /\ m_bidirec \in BOOLEAN
  BY <1>1, Ticks DEF Init
<1> DEFINE S == m_ovfPeriod(MaxCount)
           P == m_psPerTick
<1>3. S \in Nat /\ S > 0
  BY <1>1, <1>2 DEF m_ovfPeriod
<1>4. S * P \in Nat /\ S * P > 0 /\ 0 * P = 0 /\ (0 + 1) * P = P
  BY <1>2, <1>3
<1>5. left = S * P
  BY DEF Init
<1>6. Rest = S * P
  <2>1. Rest = (S - 0) * P - 0
    BY DEF Init, Rest, RestOf
  <2> QED BY <1>2, <1>3, <2>1
<1>7. TypeOK
  <2>1. 0 \in Times
    <3>1. 2 * (MaxCount + 1) * Prescale \in Nat
      BY <1>1
    <3> QED BY <1>1, <3>1 DEF Times
  <2>2. m_comMatch \in 0 .. MaxCount
    <3>1. 0 \in 0 .. MaxCount
      BY <1>1
    <3>2. m_comMatch \in 0 .. MaxCount \/ m_comMatch \in {0}
      BY DEF Init
    <3> QED BY <3>1, <3>2
  <2>3. {m_running, m_sleeping, m_extClock, m_bidirec, m_reverse, woken, expected} \subseteq BOOLEAN
    <3>1. expected \in BOOLEAN
      <4>1. HasUnit = TRUE \/ HasUnit = FALSE
        BY DEF HasUnit
      <4>2. expected = HasUnit
        BY DEF Init
      <4> QED BY <4>1, <4>2, Zenon
    <3>2. /\ m_running \in BOOLEAN /\ m_sleeping \in BOOLEAN /\ m_extClock \in BOOLEAN
          /\ m_bidirec \in BOOLEAN /\ m_reverse \in BOOLEAN /\ woken \in BOOLEAN
      BY <1>2 DEF Init
    <3> QED BY <3>1, <3>2
  <2>4. /\ 0 \in 0 .. MaxTime /\ 0 \in 0 .. MaxCount + 1 /\ MaxCount \in 0 .. MaxCount
        /\ 0 \in 0 .. Prescale - 1 /\ 0 \in -1 .. MaxCount /\ 0 \in 0 .. MaxSlips
    BY <1>1
  <2>5. left \in Int
    BY <1>4, <1>5
  <2> QED BY <1>1, <2>1, <2>2, <2>3, <2>4, <2>5 DEF Init, TypeOK
<1>8. Shape
  <2>1. Counts(m_ovfMatch, m_countVal, m_timeOffset)
    BY <1>1, <1>2 DEF Init, Counts
  <2> QED BY <1>1, <2>1 DEF Init, Shape
<1> HIDE DEF S
<1>9. Kept
  <2>1. Rest \in left - (P - 1) .. left + P
    BY <1>2, <1>4, <1>5, <1>6
  <2> QED BY <1>4, <2>1 DEF Init, Kept
<1>10. Stopped
  BY <1>4, <1>6 DEF Init, Stopped
<1> QED BY <1>7, <1>8, <1>9, <1>10 DEF Init, IInv, Scheduled, Counting, Asleep, Edges

LEMMA StutterIInv == ASSUME IInv, UNCHANGED vars PROVE IInv'
<1>1. UNCHANGED <<firmware, now, access, m_running, m_sleeping, m_extClock, m_bidirec, m_reverse, asleep,
                  woken, m_countVal, m_timeOffset, m_circTime, m_ovfTime, event, ocEvent, m_extMatch,
                  m_ovfMatch, m_comMatch, left, slips, expected>>
  BY DEF vars, mode, counter, events, history
<1>2. /\ m_psPerTick' = m_psPerTick /\ Lag' = Lag /\ Rest' = Rest
      /\ Counts(m_ovfMatch, m_countVal, m_timeOffset)' = Counts(m_ovfMatch, m_countVal, m_timeOffset)
  BY <1>1 DEF m_psPerTick, Lag, Rest, RestOf, Counts, m_ovfPeriod
<1>3. TypeOK'
  BY <1>1 DEF IInv, TypeOK
<1>4. Shape'
  BY <1>1, <1>2 DEF IInv, Shape
<1>5. Scheduled' /\ Kept' /\ Asleep' /\ Stopped' /\ Edges'
  BY <1>1, <1>2 DEF IInv, Scheduled, Kept, Asleep, Stopped, Edges, Counting, TimeToOvf
<1> QED BY <1>3, <1>4, <1>5 DEF IInv

LEMMA NextIInv == ASSUME AllTame, IInv, [Next]_vars PROVE IInv'
<1>1. CASE Next
  BY <1>1, OverflowIInv, MatchIInv, AdvanceIInv, StopIInv, StartIInv, ReadIInv, SleepIInv, WakeIInv, RouseIInv,
     ClockStepIInv, WriteCountIInv, WriteTopIInv, WriteCompareIInv, EnableExtClockIInv DEF Next
<1>2. CASE UNCHANGED vars
  BY <1>2, StutterIInv
<1> QED BY <1>1, <1>2

-----------------------------------------------------------------------------

LEMMA InductiveInvariant == AllTame => (Spec => []IInv)
<1> SUFFICES ASSUME AllTame PROVE Spec => []IInv
  OBVIOUS
<1>1. Init => IInv
  BY InitIInv
<1>2. IInv /\ [Next]_vars => IInv'
  BY NextIInv
<1> QED BY <1>1, <1>2, PTL DEF Spec

\* Every variable of the timer keeps its type; in particular the count, however often
\* it is worked out or written, is never past the top and never negative.
THEOREM TypesKept == AllTame => (Spec => []TypeOK)
<1> SUFFICES ASSUME AllTame PROVE Spec => []TypeOK
  OBVIOUS
<1>1. IInv => TypeOK
  BY DEF IInv
<1> QED BY <1>1, InductiveInvariant, PTL

LEMMA IInvOnTime == ASSUME AllTame, IInv PROVE OnTime
<1> SUFFICES ASSUME m_running, ~m_sleeping PROVE OnTime
  BY DEF OnTime
<1>1. slips + 0 = slips /\ slips \in Nat
  BY Types DEF IInv
<1>2. CASE m_extClock
  BY <1>1, <1>2 DEF OnTime, IInv, Edges
<1>3. CASE ~m_extClock
  <2>1. event = m_ovfTime /\ event - now \in left - (m_psPerTick - 1) .. left + slips * m_psPerTick
    BY <1>3 DEF IInv, Scheduled, Counting, TimeToOvf
  <2> QED BY <1>1, <1>3, <2>1 DEF OnTime
<1> QED BY <1>2, <1>3

\* A timer that runs overflows when it is due, however often it was read, stopped,
\* written, put to sleep or given another clock, whatever its width and prescaler:
\* for tame firmware, which leaves it alone in the instruction that wakes the core.
THEOREM OverflowsOnTime == AllTame => (Spec => []OnTime)
<1> SUFFICES ASSUME AllTame PROVE Spec => []OnTime
  OBVIOUS
<1>1. IInv => OnTime
  BY IInvOnTime
<1> QED BY <1>1, InductiveInvariant, PTL

-----------------------------------------------------------------------------
\* The compare unit.

\* Numbers that are numbers, in a next state too.
LEMMA Numbers == \A top \in Int : \A n \in 0 .. top : n \in Nat /\ n <= top
  OBVIOUS

\* Time to a count, of a timer whose tick is an instruction.
LEMMA TimeOfUnit ==
    ASSUME NEW time \in Int, NEW m \in Int, NEW c \in Int
    PROVE  (m - c) * 1 - (IF 0 # 0 THEN 1 - 0 ELSE 0) = m - c
  OBVIOUS

\* The firmware of units is tame.
LEMMA UnitTamed ==
    ASSUME AllUnitTame
    PROVE  AllTame /\ (IInv /\ HasUnit => m_psPerTick = 1)
  BY Ticks DEF AllUnitTame, AllTame, UnitTame, HasUnit, m_psPerTick, IInv, TypeOK

\* The numbers of a state, and what is left of a tick with a unit: nothing.
LEMMA UnitFacts ==
    ASSUME AllUnitTame, IInv
    PROVE  /\ AllTame /\ TypeOK
           /\ now \in Nat /\ m_countVal \in Nat /\ m_ovfMatch \in Nat /\ m_countVal <= m_ovfMatch
           /\ NextMatch \in Int
           /\ m_ovfPeriod(m_ovfMatch) \in Nat
           /\ m_ovfMatch + Lag = m_ovfPeriod(m_ovfMatch) \/ ~HasUnit
           /\ HasUnit => m_psPerTick = 1 /\ Rest = m_ovfPeriod(m_ovfMatch) - m_countVal
<1>1. AllTame /\ (HasUnit => m_psPerTick = 1)
  BY UnitTamed
<1>2. /\ now \in Nat /\ m_countVal \in Nat /\ m_ovfMatch \in Nat /\ m_countVal <= m_ovfMatch
      /\ m_timeOffset \in 0 .. m_psPerTick - 1 /\ m_comMatch \in Int
      /\ m_bidirec \in BOOLEAN
      /\ m_ovfPeriod(m_ovfMatch) = IF m_bidirec THEN m_ovfMatch ELSE m_ovfMatch + 1
  BY <1>1, Facts, Types, CountTypes DEF Counts, TypeOK
<1>3. NextMatch \in Int
  BY <1>2 DEF NextMatch, match
<1>4. ASSUME HasUnit
      PROVE  m_ovfMatch + Lag = m_ovfPeriod(m_ovfMatch) /\ Rest = m_ovfPeriod(m_ovfMatch) - m_countVal
  <2>1. m_psPerTick = 1 /\ m_timeOffset = 0
    BY <1>1, <1>2, <1>4
  <2>2. Rest = (m_ovfPeriod(m_ovfMatch) - m_countVal) * 1 - 0
    BY <2>1 DEF Rest, RestOf
  <2> QED BY <1>2, <2>1, <2>2 DEF Lag
<1> QED BY <1>1, <1>2, <1>3, <1>4 DEF IInv

\* An instruction of such firmware, too, is run with core and timer awake.
LEMMA AwakeUnit ==
    ASSUME AllUnitTame, UInv, Instruction
    PROVE  ~m_sleeping /\ ~woken /\ asleep = NoEvent
  BY UnitTamed, Awake DEF UInv

\* The same of the next state.
LEMMA UnitNumbers ==
    ASSUME AllUnitTame, IInv, IInv', firmware' = firmware
    PROVE  /\ m_countVal' \in Nat /\ m_ovfMatch' \in Nat /\ m_countVal' <= m_ovfMatch'
           /\ NextMatch' \in Int
           /\ HasUnit' = HasUnit
           /\ HasUnit => m_psPerTick' = 1 /\ m_psPerTick = 1 /\ m_timeOffset' = 0
           /\ Counting' => event' = m_ovfTime' /\ event' \in Int
<1>1. /\ m_psPerTick' = m_psPerTick /\ HasUnit' = HasUnit
      /\ AllTame /\ (HasUnit => m_psPerTick = 1)
      /\ MaxCount \in Int
  BY UnitTamed, McuTimerAssumption DEF m_psPerTick, HasUnit
<1>2. /\ m_countVal' \in 0 .. m_ovfMatch' /\ m_ovfMatch' \in 0 .. MaxCount
      /\ m_timeOffset' \in 0 .. m_psPerTick - 1 /\ m_comMatch' \in 0 .. MaxCount
  BY <1>1 DEF IInv, TypeOK, Shape, Counts
<1>3. m_ovfMatch' \in Nat /\ m_comMatch' \in Nat
  BY <1>1, <1>2, Numbers
<1>4. m_countVal' \in Nat /\ m_countVal' <= m_ovfMatch'
  BY <1>2, <1>3, Numbers
<1>5. NextMatch' \in Int
  <2>1. \A a, b \in Nat : a - b \in Int /\ a \in Int /\ -1 \in Int
    OBVIOUS
  <2>2. NextMatch' \in {m_comMatch', -1, m_ovfMatch' - m_comMatch'}
    BY Zenon DEF NextMatch, match
  <2> QED BY <1>3, <2>1, <2>2
<1>6. HasUnit => m_timeOffset' = 0
  <2>1. \A x \in 0 .. 1 - 1 : x = 0
    OBVIOUS
  <2> QED BY <1>1, <1>2, <2>1
<1>7. Counting' => event' = m_ovfTime' /\ event' \in Int
  <2>1. Counting' => event' = m_ovfTime'
    BY DEF IInv, Scheduled
  <2>2. m_ovfTime' \in Times
    BY DEF IInv, TypeOK
  <2>3. \A x \in Times : x \in Int
    BY McuTimerAssumption DEF Times
  <2> QED BY <2>1, <2>2, <2>3
<1> QED BY <1>1, <1>3, <1>4, <1>5, <1>6, <1>7

\* What the unit is scheduled for, from a count that is not past it.
LEMMA UnitScheduled ==
    ASSUME AllUnitTame, UInv, IInv', ocSheduleEvents, m_running', ~m_sleeping',
           UNCHANGED <<firmware, now, m_bidirec>>,
           expected' => /\ HasUnit
                        /\ NextMatch' <= m_ovfMatch' /\ m_countVal' <= NextMatch'
                        /\ m_extClock' => m_countVal' < NextMatch',
           HasUnit /\ Counting' => m_ovfMatch' - m_countVal' <= event' - now
    PROVE  Ahead' /\ MatchAhead'
<1> DEFINE N == m_ovfMatch'
           c == m_countVal'
           m == NextMatch'
           e == event'
           o == ocEvent'
<1>1. /\ now \in Nat /\ now' = now /\ c \in Nat /\ N \in Nat /\ c <= N /\ m \in Int
      /\ NoEvent \notin Int
      /\ HasUnit' = HasUnit
      /\ HasUnit => m_psPerTick = 1 /\ m_timeOffset' = 0
      /\ Counting' => e \in Int
  BY UnitNumbers, UnitFacts, McuTimerAssumption DEF UInv
<1>2. HasUnit => timeTo(m) = m - c
  <2>1. ASSUME HasUnit
        PROVE  timeTo(m) = (m - c) * 1 - (IF 0 # 0 THEN 1 - 0 ELSE 0)
    BY <1>1, <2>1 DEF timeTo
  <2> QED BY <1>1, <2>1, TimeOfUnit
<1>3. /\ o = IF HasUnit /\ ~m_extClock' /\ m <= N /\ m >= c THEN now + timeTo(m) ELSE NoEvent
      /\ m_extClock' => m_extMatch' = m
  BY DEF ocSheduleEvents, NextMatch, stillAhead
<1>4. Counting' <=> ~m_extClock'
  BY DEF Counting
<1>5. /\ expected' => HasUnit /\ m <= N /\ c <= m /\ (m_extClock' => c < m)
      /\ HasUnit /\ Counting' => N - c <= e - now
  OBVIOUS
<1> HIDE DEF N, c, m, e, o
<1>6. o # NoEvent => o \in Int /\ o >= now
  BY <1>1, <1>2, <1>3
<1>7. expected' /\ Counting' => o # NoEvent /\ now <= o /\ o <= e - (N - m)
  <2> SUFFICES ASSUME expected', Counting' PROVE o # NoEvent /\ now <= o /\ o <= e - (N - m)
    OBVIOUS
  <2>1. o = now + (m - c)
    BY <1>1, <1>2, <1>3, <1>4, <1>5
  <2> QED BY <1>1, <1>5, <2>1
<1>8. MatchAhead'
  BY <1>1, <1>6 DEF MatchAhead, o
<1>9. Ahead'
  BY <1>1, <1>3, <1>5, <1>7 DEF Ahead, N, c, m, e, o
<1> QED BY <1>8, <1>9

\* The same with the timer.
LEMMA UnitRescheduled ==
    ASSUME AllUnitTame, UInv, IInv', NEW event0, sheduleEvents(event0), ~m_sleeping',
           UNCHANGED <<firmware, now, m_bidirec>>,
           expected' => /\ HasUnit
                        /\ NextMatch' <= m_ovfMatch' /\ m_countVal' <= NextMatch'
                        /\ m_extClock' => m_countVal' < NextMatch'
    PROVE  Ahead' /\ MatchAhead'
<1>1. CASE ~m_running'
  <2>1. ocEvent' = ocEvent /\ now' = now /\ ~m_extClock' /\ HasUnit' = HasUnit
    BY <1>1 DEF sheduleEvents, IInv, Shape, HasUnit
  <2> QED BY <1>1, <2>1 DEF UInv, Ahead, MatchAhead, Counting
<1>2. CASE m_running'
  <2>1. ocSheduleEvents
    BY <1>2 DEF sheduleEvents
  <2>2. ASSUME HasUnit, Counting' PROVE m_ovfMatch' - m_countVal' <= event' - now
    <3> DEFINE N == m_ovfMatch'
               c == m_countVal'
               S == m_ovfPeriod(m_ovfMatch')
               e == event'
    <3>1. /\ now \in Nat /\ c \in Nat /\ N \in Nat /\ e \in Int
          /\ m_psPerTick = 1 /\ m_timeOffset' = 0 /\ e = m_ovfTime'
      BY <2>2, UnitNumbers, UnitFacts DEF UInv
    <3>2. S = (IF m_bidirec THEN N ELSE N + 1)
      BY DEF m_ovfPeriod
    <3>3. m_ovfTime' = now + timeTo(S)
      <4>1. c <= N
        BY <2>2, UnitNumbers DEF UInv
      <4>2. ~(c > N) /\ S \in Int
        BY <3>1, <3>2, <4>1
      <4>3. m_ovfTime' = now + timeTo(S + 0)
        BY <1>2, <2>2, <4>2 DEF sheduleEvents, Counting
      <4>4. S + 0 = S
        BY <4>2
      <4> QED BY <4>3, <4>4
    <3>4. timeTo(S) = (S - c) * 1 - (IF 0 # 0 THEN 1 - 0 ELSE 0)
      BY <3>1 DEF timeTo
    <3> HIDE DEF N, c, S, e
    <3>5. S \in Int /\ S >= N
      BY <3>1, <3>2
    <3>6. timeTo(S) = S - c
      BY <3>1, <3>4, <3>5, TimeOfUnit
    <3>7. N - c <= e - now
      BY <3>1, <3>3, <3>5, <3>6
    <3> QED BY <3>7 DEF N, c, e
  <2> QED BY <1>2, <2>1, <2>2, UnitScheduled
<1> QED BY <1>1, <1>2

\* updtCount does not take the count past what the unit is still to match.
LEMMA UnitCounted ==
    ASSUME AllUnitTame, UInv, updtCount, ~m_sleeping
    PROVE  /\ ~Counting => m_countVal' = m_countVal
           /\ expected => m_countVal' <= NextMatch
<1>1. /\ ~Counting => UNCHANGED counter
      /\ Counting /\ HasUnit =>
            /\ TimeToOvf \in Nat
            /\ m_countVal' \in {m_countVal, m_ovfMatch - TimeToOvf}
  BY Counted, UnitFacts DEF UInv
<1>2. ASSUME expected, Counting PROVE m_countVal' <= NextMatch
  <2>1. /\ m_countVal \in Nat /\ m_ovfMatch \in Nat /\ NextMatch \in Int /\ now \in Nat
        /\ TimeToOvf \in Nat /\ m_countVal' \in {m_countVal, m_ovfMatch - TimeToOvf}
        /\ m_countVal <= NextMatch
        /\ event = m_ovfTime /\ m_ovfTime \in Int
        /\ ocEvent \in Int /\ now <= ocEvent /\ ocEvent <= event - (m_ovfMatch - NextMatch)
    BY <1>1, <1>2, UnitFacts, Types, Facts DEF UInv, Ahead, IInv, Scheduled, TypeOK
  <2>2. m_ovfMatch - TimeToOvf <= NextMatch
    BY <2>1 DEF TimeToOvf
  <2> QED BY <2>1, <2>2
<1> QED BY <1>1, <1>2 DEF counter, UInv, Ahead

\* No step loses a match of the unit.
LEMMA MatchUnit == ASSUME AllUnitTame, UInv, Match PROVE Ahead' /\ MatchAhead'
  BY DEF Match, Ahead, MatchAhead

LEMMA AdvanceUnit == ASSUME AllUnitTame, UInv, Advance PROVE Ahead' /\ MatchAhead'
<1>1. /\ now' = now + 1 /\ now # ocEvent
      /\ UNCHANGED <<firmware, mode, counter, events, m_ovfMatch, m_comMatch, expected>>
  BY DEF Advance
<1>2. HasUnit' = HasUnit /\ NextMatch' = NextMatch /\ Counting' = Counting
  BY <1>1 DEF HasUnit, NextMatch, Counting, mode
<1>3. /\ now \in Int /\ NoEvent \notin Int
      /\ ocEvent # NoEvent => ocEvent \in Int /\ now <= ocEvent
  BY UnitFacts, McuTimerAssumption DEF UInv, MatchAhead, TypeOK
<1>4. ocEvent # NoEvent => now + 1 <= ocEvent
  BY <1>1, <1>3
<1>5. MatchAhead'
  BY <1>1, <1>3, <1>4 DEF MatchAhead, events
<1>6. Ahead'
  BY <1>1, <1>2, <1>4 DEF UInv, Ahead, mode, counter, events
<1> QED BY <1>5, <1>6

LEMMA StopUnit == ASSUME AllUnitTame, UInv, Stop PROVE Ahead' /\ MatchAhead'
<1>1. /\ UNCHANGED <<firmware, now, m_extClock, m_reverse, events, m_ovfMatch, m_comMatch, expected>>
      /\ ~m_extClock /\ updtCount /\ ~m_sleeping /\ ~m_running'
  BY AwakeUnit, UnitFacts, Facts DEF Stop, Runs, history, UInv, IInv, Shape
<1>2. HasUnit' = HasUnit /\ NextMatch' = NextMatch /\ ~Counting'
  BY <1>1 DEF HasUnit, NextMatch, Counting
<1>3. expected => m_countVal' <= NextMatch
  BY <1>1, UnitCounted
<1> QED BY <1>1, <1>2, <1>3 DEF UInv, Ahead, MatchAhead, events

LEMMA StartUnit == ASSUME AllUnitTame, UInv, IInv', Start PROVE Ahead' /\ MatchAhead'
<1>1. /\ UNCHANGED <<firmware, now, m_extClock, m_bidirec, m_reverse, counter, m_ovfMatch, m_comMatch,
                     expected>>
      /\ ~m_sleeping' /\ sheduleEvents(event)
  BY AwakeUnit DEF Start, UInv, IInv, Shape
<1>2. NextMatch' = NextMatch
  BY <1>1 DEF NextMatch
<1>3. expected' => /\ HasUnit
                   /\ NextMatch' <= m_ovfMatch' /\ m_countVal' <= NextMatch'
                   /\ m_extClock' => m_countVal' < NextMatch'
  BY <1>1, <1>2 DEF UInv, Ahead, counter
<1> QED BY <1>1, <1>3, UnitRescheduled

LEMMA ReadUnit == ASSUME AllUnitTame, UInv, Read PROVE Ahead' /\ MatchAhead'
<1>1. /\ UNCHANGED <<firmware, now, mode, events, m_ovfMatch, m_comMatch, expected>>
      /\ updtCount /\ ~m_sleeping
  BY AwakeUnit DEF Read, history, UInv, IInv, Shape
<1>2. HasUnit' = HasUnit /\ NextMatch' = NextMatch /\ Counting' = Counting
  BY <1>1 DEF HasUnit, NextMatch, Counting, mode
<1>3. expected => m_countVal' <= NextMatch
  BY <1>1, UnitCounted
<1>4. m_extClock => m_countVal' = m_countVal
  BY <1>1, UnitCounted DEF Counting
<1> QED BY <1>1, <1>2, <1>3, <1>4 DEF UInv, Ahead, MatchAhead, mode, events

LEMMA WriteCountUnit ==
    ASSUME AllUnitTame, UInv, IInv', NEW v \in 0 .. MaxCount, WriteCount(v)
    PROVE  Ahead' /\ MatchAhead'
<1>1. /\ UNCHANGED <<firmware, now, mode, m_ovfMatch, m_comMatch>>
      /\ ~m_sleeping' /\ sheduleEvents(event) /\ m_countVal' = v /\ Begin(v, m_ovfMatch)
  BY AwakeUnit DEF WriteCount, Runs, mode, UInv, IInv, Shape
<1>2. expected' => /\ HasUnit
                   /\ NextMatch' <= m_ovfMatch' /\ m_countVal' <= NextMatch'
                   /\ m_extClock' => m_countVal' < NextMatch'
  <2>1. NextMatch' = match(m_ovfMatch, m_reverse', m_comMatch') /\ m_extClock' = m_extClock
    BY <1>1 DEF NextMatch, mode
  <2>2. NextMatch' \in Int /\ v \in Int
    BY <1>1, UnitNumbers, McuTimerAssumption DEF UInv
  <2>3. \A a, b \in Int : (a >= b => b <= a) /\ (a > b => b < a)
    OBVIOUS
  <2> QED BY <1>1, <2>1, <2>2, <2>3 DEF Begin
<1> QED BY <1>1, <1>2, UnitRescheduled DEF mode

LEMMA WriteTopUnit ==
    ASSUME AllUnitTame, UInv, IInv', NEW top \in 0 .. MaxCount, WriteTop(top)
    PROVE  Ahead' /\ MatchAhead'
<1>1. /\ UNCHANGED <<firmware, now, mode, m_comMatch>>
      /\ ~m_sleeping /\ ~m_sleeping' /\ sheduleEvents(event) /\ updtCount /\ m_ovfMatch' = top
      /\ ~m_bidirec
      /\ expected' = (expected /\ m_comMatch <= top)
  BY AwakeUnit DEF WriteTop, Runs, mode, UInv, IInv, Shape
<1>2. NextMatch' = m_comMatch /\ NextMatch = m_comMatch
  BY <1>1 DEF NextMatch, match, mode, UInv, IInv, Shape
<1>3. expected => m_countVal' <= NextMatch
  BY <1>1, UnitCounted
<1>4. m_extClock => m_countVal' = m_countVal
  BY <1>1, UnitCounted DEF Counting
<1>5. expected' => /\ HasUnit
                   /\ NextMatch' <= m_ovfMatch' /\ m_countVal' <= NextMatch'
                   /\ m_extClock' => m_countVal' < NextMatch'
  BY <1>1, <1>2, <1>3, <1>4 DEF UInv, Ahead, mode
<1> QED BY <1>1, <1>5, UnitRescheduled DEF mode

LEMMA WriteCompareUnit ==
    ASSUME AllUnitTame, UInv, IInv', NEW v \in 0 .. MaxCount, WriteCompare(v)
    PROVE  Ahead' /\ MatchAhead'
<1> DEFINE S == m_ovfPeriod(m_ovfMatch)
           c == m_countVal'
           m == match(m_ovfMatch, m_reverse, v)
           R == RestOf(m_ovfMatch, m_countVal', m_timeOffset')
<1>1. /\ UNCHANGED <<firmware, now, mode, m_ovfMatch, m_ovfTime, event, left, slips>>
      /\ ~m_sleeping /\ ~m_sleeping' /\ updtCount /\ HasUnit /\ m_comMatch' = v
      /\ IF m_running THEN ocSheduleEvents ELSE UNCHANGED <<ocEvent, m_extMatch>>
      /\ expected' = (/\ m <= m_ovfMatch /\ m * m_psPerTick >= S * m_psPerTick - left
                      /\ m_extClock => m > m_countVal)
  BY AwakeUnit DEF WriteCompare, Runs, mode, UInv, IInv, Shape, HasUnit
<1>2. /\ HasUnit' = HasUnit /\ Counting' = Counting /\ NextMatch' = m
      /\ m_extClock' = m_extClock /\ m_running' = m_running /\ AllTame
  BY <1>1, UnitTamed DEF HasUnit, NextMatch, Counting, mode
<1>3. /\ c \in Nat /\ m_ovfMatch \in Nat /\ m \in Int /\ S \in Nat /\ Lag \in Nat /\ now \in Nat
      /\ left \in Int /\ slips \in Nat
      /\ m_psPerTick = 1 /\ m_timeOffset' = 0 /\ m_ovfMatch + Lag = S
  BY <1>1, <1>2, UnitNumbers, UnitFacts, Facts, Types DEF UInv
<1>4. R = S - c
  <2>1. R = (S - c) * m_psPerTick - (IF m_timeOffset' # 0 THEN m_psPerTick - m_timeOffset' ELSE 0)
    BY DEF RestOf
  <2>2. R = (S - c) * 1 - (IF 0 # 0 THEN 1 - 0 ELSE 0)
    BY <1>3, <2>1
  <2> HIDE DEF S, c
  <2> QED BY <1>3, <2>2, TimeOfUnit
<1>5. /\ Counting => TimeToOvf \in Nat /\ R <= TimeToOvf + Lag
      /\ ~m_extClock => R \in left - (m_psPerTick - 1) .. left + (slips + 1) * m_psPerTick
      /\ m_extClock => c = m_countVal
  BY <1>1, <1>2, Counted DEF UInv, Counting, counter
<1> HIDE DEF S, c, m, R
<1>6. expected' => m <= m_ovfMatch /\ c <= m /\ (m_extClock => c < m)
  <2> SUFFICES ASSUME expected' PROVE c <= m /\ (m_extClock => c < m)
    BY <1>1
  <2>1. /\ m >= S - left
        /\ m_extClock => m > m_countVal
    <3>1. /\ m * m_psPerTick >= S * m_psPerTick - left
          /\ m_extClock => m > m_countVal
      BY <1>1, Zenon
    <3>2. m * 1 >= S * 1 - left
      BY <1>3, <3>1
    <3> QED BY <1>3, <3>1, <3>2
  <2>2. ~m_extClock => S - c >= left
    BY <1>3, <1>4, <1>5
  <2> QED BY <1>3, <1>5, <2>1, <2>2
<1>7. Counting => m_ovfMatch - c <= event - now
  <2>1. Counting => m_ovfMatch - c <= TimeToOvf
    BY <1>3, <1>4, <1>5
  <2> QED BY <2>1 DEF TimeToOvf, UInv, IInv, Scheduled
<1>8. CASE m_running
  BY <1>1, <1>2, <1>6, <1>7, <1>8, UnitScheduled DEF c, mode
<1>9. CASE ~m_running
  BY <1>1, <1>2, <1>6, <1>9 DEF UInv, IInv, Shape, Ahead, MatchAhead, Counting, c
<1> QED BY <1>8, <1>9

LEMMA SleepUnit == ASSUME AllUnitTame, UInv, Sleep PROVE Ahead' /\ MatchAhead'
<1>1. /\ UNCHANGED <<firmware, now, m_extClock, m_reverse, m_ovfMatch, m_comMatch, expected>>
      /\ ~m_sleeping /\ m_sleeping'
  BY AwakeUnit, UnitFacts, Facts DEF Sleep, UInv, IInv, Shape
<1>2. HasUnit' = HasUnit /\ NextMatch' = NextMatch /\ ~Counting'
  BY <1>1 DEF HasUnit, NextMatch, Counting
<1>3. CASE m_extClock
  BY <1>1, <1>2, <1>3 DEF Sleep, UInv, Ahead, MatchAhead, counter, events
<1>4. CASE ~m_extClock
  <2>1. updtCount /\ ocEvent' = ocEvent
    BY <1>1, <1>4 DEF Sleep
  <2>2. expected => m_countVal' <= NextMatch
    BY <1>1, <2>1, UnitCounted
  <2> QED BY <1>1, <1>2, <1>4, <2>1, <2>2 DEF UInv, Ahead, MatchAhead
<1> QED BY <1>3, <1>4

LEMMA WakeUnit == ASSUME AllUnitTame, UInv, Wake PROVE Ahead' /\ MatchAhead'
<1>1. UNCHANGED <<firmware, now, m_running, m_sleeping, m_extClock, m_reverse, counter, events, m_ovfMatch,
                  m_comMatch, expected>>
  BY DEF Wake, history
<1>2. NextMatch' = NextMatch /\ HasUnit' = HasUnit /\ Counting' = Counting
  BY <1>1 DEF NextMatch, HasUnit, Counting
<1> QED BY <1>1, <1>2 DEF UInv, Ahead, MatchAhead, counter, events

LEMMA RouseUnit == ASSUME AllUnitTame, UInv, IInv', Rouse PROVE Ahead' /\ MatchAhead'
<1>1. /\ UNCHANGED <<firmware, now, m_extClock, m_bidirec, m_reverse, counter, m_ovfMatch, m_comMatch,
                     expected>>
      /\ ~m_sleeping'
  BY DEF Rouse
<1>2. NextMatch' = NextMatch /\ HasUnit' = HasUnit
  BY <1>1 DEF NextMatch, HasUnit
<1>3. CASE m_extClock
  BY <1>1, <1>2, <1>3 DEF Rouse, UInv, Ahead, MatchAhead, Counting, counter, events
<1>4. CASE ~m_extClock
  <2>1. sheduleEvents(event)
    BY <1>4 DEF Rouse
  <2>2. expected' => /\ HasUnit
                     /\ NextMatch' <= m_ovfMatch' /\ m_countVal' <= NextMatch'
                     /\ m_extClock' => m_countVal' < NextMatch'
    BY <1>1, <1>2 DEF UInv, Ahead, counter
  <2> QED BY <1>1, <2>1, <2>2, UnitRescheduled
<1> QED BY <1>3, <1>4

LEMMA EnableExtClockUnit ==
    ASSUME AllUnitTame, UInv, IInv', NEW en \in BOOLEAN, EnableExtClock(en)
    PROVE  Ahead' /\ MatchAhead'
<1>1. /\ UNCHANGED <<firmware, now, m_bidirec, m_reverse, m_ovfMatch, m_comMatch>>
      /\ ~m_sleeping /\ ~m_sleeping' /\ updtCount /\ sheduleEvents(event)
      /\ expected' = (expected /\ NextMatch > m_countVal')
  BY AwakeUnit DEF EnableExtClock, Runs, NextMatch, UInv, IInv, Shape
<1>2. NextMatch' = NextMatch /\ NextMatch \in Int /\ m_countVal' \in Nat
  BY <1>1, UnitNumbers, UnitFacts DEF NextMatch, UInv
<1>3. \A a \in Int, b \in Nat : a > b => b <= a /\ b < a
  OBVIOUS
<1>4. expected' => /\ HasUnit
                   /\ NextMatch' <= m_ovfMatch' /\ m_countVal' <= NextMatch'
                   /\ m_extClock' => m_countVal' < NextMatch'
  BY <1>1, <1>2, <1>3 DEF UInv, Ahead
<1> QED BY <1>1, <1>4, UnitRescheduled

LEMMA BeginUnit ==
    ASSUME AllUnitTame, UInv, IInv', m_running, overflow, ~m_sleeping,
           UNCHANGED <<firmware, now, m_sleeping, m_extClock, m_bidirec, m_ovfMatch>>
    PROVE  Ahead' /\ MatchAhead'
<1>1. m_countVal' = 0 /\ sheduleEvents(NoEvent) /\ Begin(0, m_ovfMatch)
  BY DEF overflow
<1>2. NextMatch' \in Int
  BY UnitNumbers DEF UInv
<1>3. \A a \in Int : (a >= 0 => 0 <= a) /\ (a > 0 => 0 < a)
  OBVIOUS
<1>4. expected' => /\ HasUnit
                   /\ NextMatch' <= m_ovfMatch' /\ m_countVal' <= NextMatch'
                   /\ m_extClock' => m_countVal' < NextMatch'
  BY <1>1, <1>2, <1>3 DEF Begin, NextMatch
<1> QED BY <1>1, <1>4, UnitRescheduled

LEMMA OverflowUnit == ASSUME AllUnitTame, UInv, IInv', Overflow PROVE Ahead' /\ MatchAhead'
<1>1. /\ UNCHANGED <<firmware, now, m_running, m_sleeping, m_extClock, m_bidirec, m_ovfMatch, m_comMatch>>
      /\ event = now /\ overflow
  BY DEF Overflow
<1>2. CASE m_running
  <2>1. now \in Int /\ NoEvent \notin Int
    BY UnitFacts, McuTimerAssumption DEF UInv
  <2>2. ~m_sleeping
    BY <1>1, <1>2, <2>1 DEF UInv, IInv, Shape, Asleep
  <2> QED BY <1>1, <1>2, <2>2, BeginUnit
<1>3. CASE ~m_running
  <2>1. UNCHANGED <<m_countVal, m_reverse, ocEvent, m_extMatch, expected>>
    BY <1>1, <1>3 DEF overflow, history
  <2> QED BY <1>1, <1>3, <2>1 DEF UInv, Ahead, MatchAhead, NextMatch, HasUnit, Counting
<1> QED BY <1>2, <1>3

LEMMA ClockStepUnit == ASSUME AllUnitTame, UInv, IInv', ClockStep PROVE Ahead' /\ MatchAhead'
<1>1. /\ UNCHANGED <<firmware, now, m_running, m_sleeping, m_extClock, m_bidirec, m_ovfMatch, m_comMatch>>
      /\ m_extClock /\ ~m_sleeping /\ m_running
  BY DEF ClockStep, UInv, IInv, Shape
<1>2. CASE m_countVal = m_ovfMatch
  BY <1>1, <1>2, BeginUnit DEF ClockStep
<1>3. CASE m_countVal # m_ovfMatch
  <2>1. /\ m_countVal' = m_countVal + 1 /\ expected' = (expected /\ m_countVal' # m_extMatch)
        /\ UNCHANGED <<m_reverse, events>>
    BY <1>3 DEF ClockStep
  <2>2. NextMatch' = NextMatch /\ HasUnit' = HasUnit /\ ~Counting'
    BY <1>1, <2>1 DEF NextMatch, HasUnit, Counting
  <2>3. m_countVal \in Int /\ NextMatch \in Int
    BY UnitFacts DEF UInv
  <2>4. expected' => m_countVal + 1 <= NextMatch /\ m_countVal + 1 < NextMatch
    <3>1. expected' => expected /\ m_countVal + 1 # m_extMatch
      BY <2>1, Zenon
    <3>2. expected => m_extMatch = NextMatch /\ m_countVal < NextMatch
      BY <1>1 DEF UInv, Ahead
    <3>3. m_countVal < NextMatch /\ m_countVal + 1 # NextMatch
            => m_countVal + 1 <= NextMatch /\ m_countVal + 1 < NextMatch
      BY <2>3
    <3> QED BY <3>1, <3>2, <3>3
  <2> QED BY <1>1, <2>1, <2>2, <2>4 DEF UInv, Ahead, MatchAhead, events
<1> QED BY <1>2, <1>3

LEMMA InitUInv == ASSUME AllUnitTame, Init PROVE UInv
<1>1. IInv
  BY InitIInv, UnitTamed
<1>2. MatchAhead
  BY DEF Init, MatchAhead
<1>3. Ahead
  <2>1. MaxCount \in Nat /\ (HasUnit => m_comMatch \in 0 .. MaxCount)
    BY McuTimerAssumption DEF Init
  <2>2. HasUnit => m_comMatch <= MaxCount /\ 0 <= m_comMatch
    BY <2>1
  <2>3. expected => HasUnit
    BY Zenon DEF Init
  <2> QED BY <2>2, <2>3 DEF Init, Ahead, NextMatch, match, Counting
<1> QED BY <1>1, <1>2, <1>3 DEF UInv

LEMMA NextUInv == ASSUME AllUnitTame, UInv, [Next]_vars PROVE UInv'
<1>1. IInv'
  BY NextIInv, UnitTamed DEF UInv
<1>2. CASE Next
  <2>1. Ahead' /\ MatchAhead'
    BY <1>1, <1>2, OverflowUnit, MatchUnit, AdvanceUnit, StopUnit, StartUnit, ReadUnit, SleepUnit, WakeUnit, RouseUnit,
       ClockStepUnit, WriteCountUnit, WriteTopUnit, WriteCompareUnit, EnableExtClockUnit DEF Next
  <2> QED BY <1>1, <2>1 DEF UInv
<1>3. CASE UNCHANGED vars
  BY <1>1, <1>3 DEF UInv, Ahead, MatchAhead, NextMatch, HasUnit, Counting, vars, mode, counter, events, history
<1> QED BY <1>2, <1>3

LEMMA InductiveUnit == AllUnitTame => (Spec => []UInv)
<1> SUFFICES ASSUME AllUnitTame PROVE Spec => []UInv
  OBVIOUS
<1>1. Init => UInv
  BY InitUInv
<1>2. UInv /\ [Next]_vars => UInv'
  BY NextUInv
<1> QED BY <1>1, <1>2, PTL DEF Spec

\* What the unit has been scheduled for is still to come: no step leaves in the list
\* an event whose time has passed, which would never be run.
THEOREM MatchesAhead == AllUnitTame => (Spec => []MatchAhead)
<1> SUFFICES ASSUME AllUnitTame PROVE Spec => []MatchAhead
  OBVIOUS
<1>1. UInv => MatchAhead
  BY DEF UInv
<1> QED BY <1>1, InductiveUnit, PTL

\* At the overflow the unit has nothing left to match.
LEMMA OverflowMatched ==
    ASSUME AllUnitTame, UInv, m_running, Overflow \/ (ClockStep /\ m_countVal = m_ovfMatch)
    PROVE  ~expected
<1> SUFFICES ASSUME expected PROVE FALSE
  OBVIOUS
<1>1. /\ now \in Int /\ NoEvent \notin Int /\ m_ovfMatch \in Int /\ NextMatch \in Int /\ NextMatch <= m_ovfMatch
  BY UnitFacts, McuTimerAssumption DEF UInv, Ahead
<1>2. CASE ClockStep /\ m_countVal = m_ovfMatch
  <2>1. m_countVal < NextMatch
    BY <1>2 DEF ClockStep, UInv, Ahead
  <2> QED BY <1>1, <1>2, <2>1
<1>3. CASE Overflow
  <2>1. event = now /\ ocEvent # now /\ ~m_sleeping /\ ~m_extClock
    BY <1>1, <1>3 DEF Overflow, UInv, IInv, Shape, Asleep
  <2>2. ocEvent \in Int /\ now <= ocEvent /\ ocEvent <= event - (m_ovfMatch - NextMatch)
    BY <1>1, <2>1, UnitFacts DEF UInv, Ahead, Counting, TypeOK
  <2> QED BY <1>1, <2>1, <2>2
<1> QED BY <1>2, <1>3

\* The unit misses no match, whatever is scheduled anew between two overflows: a
\* match that was ahead when the period began, or when its register was written, has
\* taken place by the overflow.
THEOREM NoMatchIsMissed == AllUnitTame => (Spec => NoMatchMissed)
<1> SUFFICES ASSUME AllUnitTame PROVE Spec => NoMatchMissed
  OBVIOUS
<1> DEFINE Matched == m_running /\ (Overflow \/ (ClockStep /\ m_countVal = m_ovfMatch)) => ~expected
<1>1. UInv => [Matched]_vars
  BY OverflowMatched
<1>2. []UInv => [][Matched]_vars
  <2> HIDE DEF Matched
  <2> QED BY <1>1, PTL
<1> QED BY <1>2, InductiveUnit DEF NoMatchMissed
=============================================================================
