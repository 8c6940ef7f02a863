-------------------------- MODULE Esp32UsartProofs --------------------------
(***************************************************************************)
(* QEMU's view of the interrupt follows the serial port's, for a ring of   *)
(* any length, but for a change that does not fit it.  While no other      *)
(* module uses the ring and QEMU reads it before the firmware goes on,     *)
(* everything fits: what happens on the wires can only set the flags of    *)
(* m_intRaw, so that between two accesses of the firmware the level rises  *)
(* at most once.  And no byte is lost on either wire without a flag that   *)
(* says so.                                                                *)
(***************************************************************************)
EXTENDS Esp32Usart, SequenceTheorems, TLAPS

\* The types that matter here.
Shape ==
    /\ m_txFifo \in Seq(Nat) /\ m_txPending \in Seq(Nat) /\ m_rxFifo \in Seq(Nat)
    /\ Len(m_txFifo) <= UART_FIFO_LENGTH
    /\ m_txActive \in BOOLEAN
    /\ m_txEmptyThrhd \in Nat /\ m_rxFullThrhd \in Nat
    /\ written \in Seq(Nat)
    /\ received \in Nat

\* The sender is at work as long as there is something to send, and nothing
\* waits behind a FIFO that has room.
SenderBusy ==
    /\ m_txFifo # <<>> => m_txActive
    /\ m_txPending # <<>> => Len(m_txFifo) = UART_FIFO_LENGTH

\* What the FIFOs say, as conditions does of the next state.
Now ==
    (IF Len(m_rxFifo) >= m_rxFullThrhd THEN {"RXFIFO_FULL"} ELSE {})
    \cup (IF Len(m_txFifo) <= m_txEmptyThrhd THEN {"TXFIFO_EMPTY"} ELSE {})
    \cup (IF m_txFifo = <<>> /\ m_txPending = <<>> /\ ~m_txActive THEN {"TX_DONE"} ELSE {})

\* No flag is set that should not be, and the level is theirs.
FlagsTrue ==
    /\ m_intRaw \subseteq {"RXFIFO_OVF"} \cup Now
    /\ m_irqLevel = (m_intRaw \cap m_intEn # {})

Events == {"high", "low", "other"}

\* A ring that is not crowded is at its fullest when the firmware has lowered the
\* level and a wire raised it again; if that fits, nothing is dropped.
RingRoom ==
    /\ irq \in Seq(Events)
    /\ Len(irq) < RingEvents
    /\ crowded \/ Len(irq) <= MaxLag + IF m_irqLevel THEN 2 ELSE 1
    /\ dropped /\ MaxLag + 2 < RingEvents => crowded

\* The level that QEMU will know when it has read the ring is right.
NewestRight ==
    /\ level \in BOOLEAN /\ stale \in BOOLEAN /\ dropped \in BOOLEAN
    /\ ~stale /\ ~dropped => Tells(m_irqLevel)

IInv == Shape /\ SenderBusy /\ FlagsTrue /\ RingRoom /\ NewestRight

-----------------------------------------------------------------------------

\* What the assumption says of the constants, in the form the leaves use.
LEMMA Constants ==
    /\ UART_FIFO_LENGTH \in Nat /\ UART_FIFO_LENGTH >= 1
    /\ Thresholds \subseteq Nat
    /\ MaxLag \in Nat /\ RingEvents \in Nat /\ RingEvents >= 1
  BY Esp32UsartAssumption

\* At first both FIFOs and the ring are empty and the level is low.
LEMMA InitIInv == Init => IInv
<1> SUFFICES ASSUME Init PROVE IInv
  OBVIOUS
<1>1. Shape
  <2>1. <<>> \in Seq(Nat) /\ Len(<<>>) = 0
    OBVIOUS
  <2>2. m_txFifo = <<>> /\ m_txPending = <<>> /\ m_rxFifo = <<>> /\ written = <<>>
    BY DEF Init
  <2>3. m_txActive \in BOOLEAN /\ m_txEmptyThrhd \in Nat /\ m_rxFullThrhd \in Nat /\ received \in Nat
    BY DEF Init
  <2> QED
    BY <2>1, <2>2, <2>3, Constants DEF Shape
<1>2. SenderBusy /\ FlagsTrue
  BY DEF Init, SenderBusy, FlagsTrue
<1>3. RingRoom
  BY Constants DEF Init, RingRoom
<1>4. NewestRight
  <2>1. /\ irq = <<>> /\ 1 .. Len(irq) = {}
        /\ level = FALSE /\ m_irqLevel = FALSE /\ stale = FALSE /\ dropped = FALSE
    BY DEF Init
  <2>2. Tells(m_irqLevel)
    BY <2>1 DEF Tells
  <2> QED
    BY <2>1, <2>2 DEF NewestRight
<1> QED
  BY <1>1, <1>2, <1>3, <1>4 DEF IInv

-----------------------------------------------------------------------------
\* The FIFOs.

\* A sequence has a length, and appending makes it one longer.
LEMMA Lengths ==
    ASSUME NEW S, NEW s \in Seq(S)
    PROVE  /\ Len(s) \in Nat
           /\ s = <<>> <=> Len(s) = 0
           /\ \A x \in S : Append(s, x) \in Seq(S) /\ Len(Append(s, x)) = Len(s) + 1
  OBVIOUS

\* Loading the shift register takes one byte from the FIFO, and one of those
\* that wait behind it moves up.
LEMMA Loading ==
    ASSUME NEW fifo \in Seq(Nat), NEW pending \in Seq(Nat), fifo # <<>>, load(fifo, pending)
    PROVE  /\ m_txActive' = TRUE
           /\ m_txFifo' \in Seq(Nat) /\ m_txPending' \in Seq(Nat)
           /\ pending = <<>> => Len(m_txFifo') = Len(fifo) - 1 /\ m_txPending' = <<>>
           /\ pending # <<>> => Len(m_txFifo') = Len(fifo)
  <1>1. Tail(fifo) \in Seq(Nat) /\ Len(Tail(fifo)) = Len(fifo) - 1
    OBVIOUS
  <1>2. CASE pending = <<>>
    BY <1>1, <1>2 DEF load
  <1>3. CASE pending # <<>>
    <2>1. Head(pending) \in Nat /\ Tail(pending) \in Seq(Nat)
      BY <1>3
    <2>2. Append(Tail(fifo), Head(pending)) \in Seq(Nat)
          /\ Len(Append(Tail(fifo), Head(pending))) = Len(fifo)
      BY <1>1, <2>1
    <2> QED
      BY <1>3, <2>1, <2>2 DEF load
  <1> QED
    BY <1>2, <1>3

\* The end of a frame and the arrival of a byte keep what the flags stand for.
LEMMA WiresSet ==
    ASSUME Shape, SenderBusy, frameSent \/ byteReceived
    PROVE  Shape' /\ SenderBusy' /\ Now \subseteq Now'
<1> USE DEF Shape, SenderBusy
<1>1. CASE frameSent /\ m_txFifo # <<>>
  <2>1. load(m_txFifo, m_txPending)
    BY <1>1 DEF frameSent
  <2>2. UNCHANGED <<m_txEmptyThrhd, m_rxFullThrhd, m_rxFifo, written, received>> /\ m_txActive
    BY <1>1 DEF frameSent, setup, rx
  <2>3. /\ m_txActive' = TRUE
        /\ m_txFifo' \in Seq(Nat) /\ m_txPending' \in Seq(Nat)
        /\ m_txPending = <<>> => Len(m_txFifo') = Len(m_txFifo) - 1 /\ m_txPending' = <<>>
        /\ m_txPending # <<>> => Len(m_txFifo') = Len(m_txFifo)
    BY <1>1, <2>1, Loading
  <2>4. Len(m_txFifo') <= Len(m_txFifo) /\ Len(m_txFifo) \in Nat /\ Len(m_txFifo') \in Nat
    BY <2>3, Lengths
  <2>5. SenderBusy'
    BY <2>3
  <2>6. Shape'
    BY <2>2, <2>3, <2>4, Constants
  <2> QED
    BY <1>1, <2>2, <2>4, <2>5, <2>6 DEF Now
<1>2. CASE frameSent /\ m_txFifo = <<>>
  <2>1. UNCHANGED <<m_txFifo, m_txPending, m_txEmptyThrhd, m_rxFullThrhd, m_rxFifo, written, received>>
        /\ m_txActive /\ m_txActive' = FALSE
    BY <1>2 DEF frameSent, setup, rx
  <2> QED
    BY <1>2, <2>1 DEF Now
<1>3. CASE byteReceived
  <2>1. UNCHANGED <<m_txFifo, m_txPending, m_txActive, m_txEmptyThrhd, m_rxFullThrhd, written>>
        /\ received' = received + 1
    BY <1>3 DEF byteReceived, tx, setup
  <2>2. m_rxFifo' = m_rxFifo \/ m_rxFifo' = Append(m_rxFifo, received')
    BY <1>3 DEF byteReceived
  <2>3. m_rxFifo' \in Seq(Nat) /\ Len(m_rxFifo') >= Len(m_rxFifo)
    <3>1. received' \in Nat /\ m_rxFifo \in Seq(Nat)
      BY <2>1
    <3>2. Append(m_rxFifo, received') \in Seq(Nat)
          /\ Len(Append(m_rxFifo, received')) = Len(m_rxFifo) + 1 /\ Len(m_rxFifo) \in Nat
      BY <3>1, Lengths
    <3>3. CASE m_rxFifo' = m_rxFifo
      BY <3>1, <3>2, <3>3
    <3>4. CASE m_rxFifo' = Append(m_rxFifo, received')
      BY <3>2, <3>4
    <3> QED
      BY <2>2, <3>3, <3>4
  <2> QED
    BY <2>1, <2>3, Lengths DEF Now
<1> QED
  BY <1>1, <1>2, <1>3

\* An access leaves the FIFOs as they should be.
LEMMA AccessShape ==
    ASSUME Shape, SenderBusy,
           \/ WriteFifo \/ ReadFifo \/ WriteConf0
           \/ \E flags \in SUBSET Flags : WriteIntEna(flags) \/ WriteIntClr(flags)
           \/ \E t \in Thresholds, r \in 1 .. UART_FIFO_LENGTH : WriteConf1(t, r)
    PROVE  Shape' /\ SenderBusy'
<1> USE DEF Shape, SenderBusy
<1>1. CASE WriteFifo
  <2> DEFINE byte == Len(written) + 1
             fifo == IF fits THEN Append(m_txFifo, byte) ELSE m_txFifo
             pending == IF fits THEN m_txPending ELSE Append(m_txPending, byte)
  <2>1. /\ written' = Append(written, byte)
        /\ UNCHANGED <<m_txEmptyThrhd, m_rxFullThrhd, m_rxFifo, received>>
        /\ IF m_txActive
             THEN m_txFifo' = fifo /\ m_txPending' = pending /\ UNCHANGED m_txActive
             ELSE load(fifo, pending)
    BY <1>1 DEF WriteFifo, setup, rx
  <2>2. byte \in Nat /\ written' \in Seq(Nat)
    BY <2>1
  <2>3. fifo \in Seq(Nat) /\ pending \in Seq(Nat)
    BY <2>2
  <2>4. CASE m_txActive
    <3>1. CASE fits
      <4>1. /\ m_txPending' = m_txPending /\ m_txPending = <<>>
            /\ m_txFifo' = Append(m_txFifo, byte) /\ m_txActive' = m_txActive
            /\ Len(m_txFifo) < UART_FIFO_LENGTH
        BY <2>1, <2>4, <3>1 DEF fits
      <4>2. m_txFifo' \in Seq(Nat) /\ Len(m_txFifo') <= UART_FIFO_LENGTH
        BY <2>2, <4>1, Lengths, Constants
      <4> QED
        BY <2>1, <2>2, <2>4, <4>1, <4>2
    <3>2. CASE ~fits
      <4>1. /\ m_txPending' = Append(m_txPending, byte)
            /\ m_txFifo' = m_txFifo /\ m_txActive' = m_txActive
        BY <2>1, <2>4, <3>2
      <4>2. Len(m_txFifo) = UART_FIFO_LENGTH
        BY <3>2, Lengths, Constants DEF fits
      <4>3. m_txPending' \in Seq(Nat)
        BY <2>2, <4>1, Lengths
      <4> QED
        BY <2>1, <2>2, <2>4, <4>1, <4>2, <4>3
    <3> QED
      BY <3>1, <3>2
  <2>5. CASE ~m_txActive
    <3>1. m_txFifo = <<>> /\ m_txPending = <<>> /\ fits
      BY <2>5, Lengths, Constants DEF fits
    <3>2. fifo # <<>> /\ Len(fifo) = 1 /\ pending = <<>>
      BY <2>2, <3>1, Lengths
    <3>3. load(fifo, pending)
      BY <2>1, <2>5
    <3> HIDE DEF fifo, pending
    <3>4. /\ m_txActive' = TRUE
          /\ m_txFifo' \in Seq(Nat) /\ m_txPending' = <<>>
          /\ Len(m_txFifo') = Len(fifo) - 1
      BY <2>3, <3>2, <3>3, Loading
    <3> QED
      BY <2>1, <2>2, <3>2, <3>4, Lengths, Constants
  <2> QED
    BY <2>4, <2>5
<1>2. CASE ReadFifo
  BY <1>2 DEF ReadFifo, tx, setup
<1>3. CASE WriteConf0
  BY <1>3 DEF WriteConf0, tx, setup, rx
<1>4. CASE \E flags \in SUBSET Flags : WriteIntEna(flags) \/ WriteIntClr(flags)
  <2>1. PICK flags \in SUBSET Flags : WriteIntEna(flags) \/ WriteIntClr(flags)
    BY <1>4
  <2>2. UNCHANGED <<m_txFifo, m_txPending, m_txActive, m_rxFifo, m_txEmptyThrhd, m_rxFullThrhd,
                    written, received>>
    BY <2>1 DEF WriteIntEna, WriteIntClr, tx, setup, rx
  <2> QED
    BY <2>2
<1>5. CASE \E t \in Thresholds, r \in 1 .. UART_FIFO_LENGTH : WriteConf1(t, r)
  BY <1>5, Constants DEF WriteConf1, tx, rx
<1> QED
  BY <1>1, <1>2, <1>3, <1>4, <1>5

-----------------------------------------------------------------------------
\* The flags, the level and the ring.

\* updateIrq makes the flags true, and tells QEMU when the level changes.
LEMMA UpdateIrq ==
    ASSUME NEW raw, updateIrq(raw)
    PROVE  /\ FlagsTrue'
           /\ m_irqLevel' = m_irqLevel => UNCHANGED <<irq, stale, dropped>>
           /\ m_irqLevel' # m_irqLevel => setInterrupt(m_irqLevel') /\ stale' = FALSE
<1>1. conditions = Now'
  BY DEF conditions, Now
<1> QED
  BY <1>1 DEF updateIrq, FlagsTrue

\* The level of this port is not taken for an event of another.
LEMMA Words ==
    /\ \A l \in BOOLEAN : Word(l) \in Events /\ Word(l) # "other"
    /\ \A l \in BOOLEAN : (Word(l) = "high") = l
  BY DEF Word, Events

\* A level that changes is the newest in the ring, or it is dropped.
LEMMA LevelTold ==
    ASSUME RingRoom, NewestRight, m_irqLevel' \in BOOLEAN, level' = level,
           m_irqLevel' = m_irqLevel => UNCHANGED <<irq, stale, dropped>>,
           m_irqLevel' # m_irqLevel => setInterrupt(m_irqLevel') /\ stale' = FALSE
    PROVE  /\ NewestRight'
           /\ irq' \in Seq(Events)
           /\ Len(irq') < RingEvents
           /\ m_irqLevel' = m_irqLevel => Len(irq') = Len(irq) /\ dropped' = dropped
           /\ m_irqLevel' # m_irqLevel => Len(irq') <= Len(irq) + 1
           /\ m_irqLevel' # m_irqLevel /\ dropped' => Len(irq) + 1 = RingEvents
<1>1. CASE m_irqLevel' = m_irqLevel
  BY <1>1 DEF RingRoom, NewestRight, Tells
<1>2. CASE m_irqLevel' # m_irqLevel /\ Len(irq) + 1 = RingEvents
  <2>1. irq' = irq /\ dropped' = TRUE /\ stale' = FALSE
    BY <1>2 DEF setInterrupt
  <2>2. Len(irq) \in Nat
    BY Lengths DEF RingRoom
  <2>3. NewestRight'
    BY <2>1 DEF NewestRight
  <2>4. irq' \in Seq(Events) /\ Len(irq') < RingEvents /\ Len(irq') <= Len(irq) + 1
    BY <2>1, <2>2 DEF RingRoom
  <2> QED
    BY <1>2, <2>3, <2>4
<1>3. CASE m_irqLevel' # m_irqLevel /\ Len(irq) + 1 # RingEvents
  <2>1. irq' = Append(irq, Word(m_irqLevel')) /\ dropped' = FALSE /\ stale' = FALSE
    BY <1>3 DEF setInterrupt
  <2>2. Word(m_irqLevel') \in Events /\ irq \in Seq(Events) /\ Len(irq) \in Nat
    BY Words, Lengths DEF RingRoom
  <2>3. irq' \in Seq(Events) /\ Len(irq') = Len(irq) + 1 /\ irq'[Len(irq')] = Word(m_irqLevel')
    BY <2>1, <2>2
  <2>4. Len(irq') \in 1 .. Len(irq') /\ Len(irq') + 1 .. Len(irq') = {}
    BY <2>2, <2>3
  <2>5. Tells(m_irqLevel)'
    BY <2>3, <2>4 DEF Tells
  <2>6. NewestRight'
    BY <2>1, <2>5 DEF NewestRight
  <2>7. Len(irq') < RingEvents
    BY <1>3, <2>2, <2>3, Constants DEF RingRoom
  <2> QED
    BY <1>3, <2>1, <2>2, <2>3, <2>6, <2>7
<1> QED
  BY <1>1, <1>2, <1>3

\* The wires: the flags that are set stay set, so that the level can only rise.
LEMMA WiresStep ==
    ASSUME IInv, frameSent \/ byteReceived
    PROVE  IInv'
<1>1. Shape' /\ SenderBusy' /\ Now \subseteq Now'
  BY WiresSet DEF IInv
<1>2. PICK raw : updateIrq(raw) /\ m_intRaw \subseteq raw
  BY DEF frameSent, byteReceived
<1>3. FlagsTrue'
  BY <1>2, UpdateIrq
<1>4. m_intRaw \subseteq m_intRaw' /\ m_intEn' = m_intEn /\ level' = level /\ crowded' = crowded
  <2>1. m_intRaw' = (raw \cap {"RXFIFO_OVF"}) \cup Now'
    BY <1>2 DEF updateIrq, conditions, Now
  <2>2. m_intRaw \subseteq m_intRaw'
    BY <1>1, <1>2, <2>1 DEF IInv, FlagsTrue
  <2> QED
    BY <2>2 DEF frameSent, byteReceived, firmware
<1>5. m_irqLevel \in BOOLEAN /\ m_irqLevel' \in BOOLEAN /\ (m_irqLevel => m_irqLevel')
  BY <1>3, <1>4 DEF IInv, FlagsTrue
<1>6. m_irqLevel' # m_irqLevel => ~m_irqLevel /\ m_irqLevel'
  BY <1>5
<1>7. Len(irq) \in Nat /\ Len(irq') \in Nat
      /\ (m_irqLevel' # m_irqLevel => crowded \/ Len(irq) <= MaxLag + 1)
  <2>1. irq' \in Seq(Events)
    BY <1>2, <1>4, <1>5, UpdateIrq, LevelTold DEF IInv
  <2> QED
    BY <1>6, <2>1, Lengths DEF IInv, RingRoom
<1>8. /\ NewestRight'
      /\ irq' \in Seq(Events)
      /\ Len(irq') < RingEvents
      /\ m_irqLevel' = m_irqLevel => Len(irq') = Len(irq) /\ dropped' = dropped
      /\ m_irqLevel' # m_irqLevel => Len(irq') <= Len(irq) + 1
      /\ m_irqLevel' # m_irqLevel /\ dropped' => Len(irq) + 1 = RingEvents
  BY <1>2, <1>4, <1>5, UpdateIrq, LevelTold DEF IInv
<1>9. RingRoom'
  <2>1. CASE m_irqLevel' = m_irqLevel
    BY <1>4, <1>8, <2>1 DEF IInv, RingRoom
  <2>2. CASE m_irqLevel' # m_irqLevel
    <3>1. crowded' \/ Len(irq') <= MaxLag + 2
      BY <1>4, <1>7, <1>8, <2>2, Constants
    <3>2. dropped' /\ MaxLag + 2 < RingEvents => crowded'
      BY <1>4, <1>7, <1>8, <2>2, Constants
    <3>3. m_irqLevel' = TRUE
      BY <1>5, <1>6, <2>2
    <3> QED
      BY <1>8, <3>1, <3>2, <3>3 DEF RingRoom
  <2> QED
    BY <2>1, <2>2
<1> QED
  BY <1>1, <1>3, <1>8, <1>9 DEF IInv

\* The firmware: if the ring is not crowded, QEMU has read all but a few of it.
LEMMA AccessStep ==
    ASSUME IInv, AnyAccess \/ DriverAccess
    PROVE  IInv'
<1>1. /\ crowded \/ Len(irq) <= MaxLag
      /\ level' = level /\ crowded' = crowded
      /\ \/ WriteFifo \/ ReadFifo \/ WriteConf0
         \/ \E flags \in SUBSET Flags : WriteIntEna(flags) \/ WriteIntClr(flags)
         \/ \E t \in Thresholds, r \in 1 .. UART_FIFO_LENGTH : WriteConf1(t, r)
  BY DEF AnyAccess, DriverAccess, Flags, firmware
<1>2. Shape' /\ SenderBusy'
  BY <1>1, AccessShape DEF IInv
<1>3. PICK raw : updateIrq(raw)
  BY <1>1 DEF WriteFifo, ReadFifo, WriteConf0, WriteIntEna, WriteIntClr, WriteConf1
<1>4. FlagsTrue' /\ m_irqLevel' \in BOOLEAN /\ m_irqLevel \in BOOLEAN
  BY <1>3, UpdateIrq DEF IInv, FlagsTrue
<1>5. /\ NewestRight'
      /\ irq' \in Seq(Events)
      /\ Len(irq') < RingEvents
      /\ m_irqLevel' = m_irqLevel => Len(irq') = Len(irq) /\ dropped' = dropped
      /\ m_irqLevel' # m_irqLevel => Len(irq') <= Len(irq) + 1
      /\ m_irqLevel' # m_irqLevel /\ dropped' => Len(irq) + 1 = RingEvents
  BY <1>1, <1>3, <1>4, UpdateIrq, LevelTold DEF IInv
<1>6. Len(irq) \in Nat /\ Len(irq') \in Nat
  BY <1>5, Lengths DEF IInv, RingRoom
<1>7. RingRoom'
  BY <1>1, <1>5, <1>6, Constants DEF IInv, RingRoom
<1> QED
  BY <1>2, <1>4, <1>5, <1>7 DEF IInv

\* QEMU taking an event makes room, and what it will know stays what it is.
LEMMA TakeStep ==
    ASSUME IInv, QemuTakesIrq
    PROVE  IInv'
<1>1. /\ irq # <<>> /\ irq' = Tail(irq)
      /\ level' = IF Head(irq) = "other" THEN level ELSE Head(irq) = "high"
      /\ UNCHANGED <<m_txFifo, m_txPending, m_txActive, m_rxFifo, m_txEmptyThrhd, m_rxFullThrhd,
                     m_intRaw, m_intEn, m_irqLevel, crowded, stale, dropped, written, received>>
  BY DEF QemuTakesIrq, tx, setup, rx
<1>2. Shape' /\ SenderBusy' /\ FlagsTrue' /\ m_irqLevel \in BOOLEAN
  BY <1>1 DEF IInv, Shape, SenderBusy, FlagsTrue, Now
<1>3. irq \in Seq(Events) /\ Len(irq) \in Nat /\ Len(irq) # 0
  BY <1>1, Lengths DEF IInv, RingRoom
<1>4. /\ irq' \in Seq(Events) /\ Len(irq') = Len(irq) - 1 /\ Head(irq) = irq[1]
      /\ \A i \in 1 .. Len(irq) - 1 : irq'[i] = irq[i + 1]
  BY <1>1, <1>3
<1>5. RingRoom'
  BY <1>1, <1>3, <1>4, Constants DEF IInv, RingRoom
<1>6. ASSUME Tells(m_irqLevel) PROVE Tells(m_irqLevel)'
  <2>1. CASE level = m_irqLevel /\ \A i \in 1 .. Len(irq) : irq[i] = "other"
    <3>1. level' = m_irqLevel'
      BY <1>1, <1>3, <1>4, <2>1
    <3>2. \A i \in 1 .. Len(irq') : irq'[i] = "other"
      BY <1>3, <1>4, <2>1
    <3> QED
      BY <3>1, <3>2 DEF Tells
  <2>2. ASSUME NEW i \in 1 .. Len(irq),
               irq[i] = Word(m_irqLevel), \A j \in i + 1 .. Len(irq) : irq[j] = "other"
        PROVE  Tells(m_irqLevel)'
    <3>1. CASE i = 1
      <4>1. level' = m_irqLevel'
        BY <1>1, <1>2, <1>4, <2>2, <3>1, Words
      <4>2. \A j \in 1 .. Len(irq') : irq'[j] = "other"
        BY <1>3, <1>4, <2>2, <3>1
      <4> QED
        BY <4>1, <4>2 DEF Tells
    <3>2. CASE i # 1
      <4>1. i - 1 \in 1 .. Len(irq') /\ irq'[i - 1] = Word(m_irqLevel')
        BY <1>1, <1>3, <1>4, <2>2, <3>2
      <4>2. \A j \in (i - 1) + 1 .. Len(irq') : irq'[j] = "other"
        <5>1. ASSUME NEW j \in (i - 1) + 1 .. Len(irq') PROVE irq'[j] = "other"
          <6>1. j \in 1 .. Len(irq) - 1 /\ j + 1 \in i + 1 .. Len(irq)
            BY <1>3, <1>4
          <6> QED
            BY <1>4, <2>2, <6>1
        <5> QED
          BY <5>1
      <4> QED
        BY <4>1, <4>2 DEF Tells
    <3> QED
      BY <3>1, <3>2
  <2> QED
    BY <1>6, <2>1, <2>2 DEF Tells
<1>7. level' \in BOOLEAN
  BY <1>1 DEF IInv, NewestRight
<1>8. NewestRight'
  BY <1>1, <1>6, <1>7 DEF IInv, NewestRight
<1> QED
  BY <1>2, <1>5, <1>8 DEF IInv

\* An event of another module changes nothing of what QEMU will know of this one.
LEMMA OtherStep ==
    ASSUME IInv, OtherInterrupt
    PROVE  IInv'
<1>1. /\ crowded /\ Len(irq) + 1 # RingEvents /\ irq' = Append(irq, "other")
      /\ UNCHANGED <<m_txFifo, m_txPending, m_txActive, m_rxFifo, m_txEmptyThrhd, m_rxFullThrhd,
                     m_intRaw, m_intEn, m_irqLevel, level, crowded, stale, dropped, written, received>>
  BY DEF OtherInterrupt, tx, setup, rx, firmware
<1>2. Shape' /\ SenderBusy' /\ FlagsTrue'
  BY <1>1 DEF IInv, Shape, SenderBusy, FlagsTrue, Now
<1>3. irq \in Seq(Events) /\ Len(irq) \in Nat /\ "other" \in Events
  BY Lengths DEF IInv, RingRoom, Events
<1>4. /\ irq' \in Seq(Events) /\ Len(irq') = Len(irq) + 1 /\ irq'[Len(irq) + 1] = "other"
      /\ \A i \in 1 .. Len(irq) : irq'[i] = irq[i]
  BY <1>1, <1>3
<1>5. RingRoom'
  BY <1>1, <1>3, <1>4, Constants DEF IInv, RingRoom
<1>6. ASSUME Tells(m_irqLevel) PROVE Tells(m_irqLevel)'
  <2>1. CASE level = m_irqLevel /\ \A i \in 1 .. Len(irq) : irq[i] = "other"
    <3>1. \A i \in 1 .. Len(irq') : irq'[i] = "other"
      BY <1>3, <1>4, <2>1
    <3> QED
      BY <1>1, <2>1, <3>1 DEF Tells
  <2>2. ASSUME NEW i \in 1 .. Len(irq),
               irq[i] = Word(m_irqLevel), \A j \in i + 1 .. Len(irq) : irq[j] = "other"
        PROVE  Tells(m_irqLevel)'
    <3>1. i \in 1 .. Len(irq') /\ irq'[i] = Word(m_irqLevel')
      BY <1>1, <1>3, <1>4, <2>2
    <3>2. \A j \in i + 1 .. Len(irq') : irq'[j] = "other"
      BY <1>3, <1>4, <2>2
    <3> QED
      BY <3>1, <3>2 DEF Tells
  <2> QED
    BY <1>6, <2>1, <2>2 DEF Tells
<1>7. NewestRight'
  BY <1>1, <1>6 DEF IInv, NewestRight
<1> QED
  BY <1>2, <1>5, <1>7 DEF IInv

\* A reset empties the ring; what QEMU knows may be stale from then on.
LEMMA RestartStep ==
    ASSUME IInv, Restart
    PROVE  IInv'
<1>1. /\ irq' = <<>> /\ level' = FALSE /\ stale' = m_irqLevel /\ dropped' = FALSE
      /\ UNCHANGED <<m_txFifo, m_txPending, m_txActive, m_rxFifo, m_txEmptyThrhd, m_rxFullThrhd,
                     m_intRaw, m_intEn, m_irqLevel, crowded, written, received>>
  BY DEF Restart, tx, setup, rx
<1>2. Shape' /\ SenderBusy' /\ FlagsTrue' /\ m_irqLevel \in BOOLEAN
  BY <1>1 DEF IInv, Shape, SenderBusy, FlagsTrue, Now
<1>3. irq' \in Seq(Events) /\ Len(irq') = 0
  BY <1>1
<1>4. RingRoom'
  BY <1>1, <1>3, Constants DEF RingRoom
<1>5. NewestRight'
  <2>1. 1 .. Len(irq') = {}
    BY <1>3
  <2>2. ~stale' => Tells(m_irqLevel)'
    BY <1>1, <1>2, <2>1 DEF Tells
  <2> QED
    BY <1>1, <1>2, <2>2 DEF NewestRight
<1> QED
  BY <1>2, <1>4, <1>5 DEF IInv

\* Every step preserves the invariant.
LEMMA NextIInv ==
    ASSUME IInv, [Next]_vars
    PROVE  IInv'
<1>1. CASE UNCHANGED vars
  BY <1>1 DEF vars, tx, setup, rx, interrupt, firmware, IInv, Shape, SenderBusy, FlagsTrue, Now,
              RingRoom, NewestRight, Tells
<1> QED
  BY <1>1, WiresStep, AccessStep, TakeStep, OtherStep, RestartStep DEF Next

\* When QEMU has read the ring it knows the level of the interrupt, for a FIFO,
\* thresholds, a lag and a ring of any size, unless the last change did not fit;
\* and in a ring that is not crowded it fits, if there is room for two events more
\* than QEMU leaves in it.
THEOREM LevelAlwaysArrives == Spec => []LevelArrives
<1>1. IInv => LevelArrives
  BY DEF IInv, RingRoom, NewestRight, LevelArrives
<1> QED
  BY <1>1, InitIInv, NextIInv, PTL DEF Spec

-----------------------------------------------------------------------------
\* The bytes.  Each side has its half: what the sender and its three places say
\* of what was written, and what the receiver's say of what arrived.

\* The byte on the wire, in a sequence.
OnWire == IF m_txActive THEN <<shift>> ELSE <<>>

\* What has been written is sent, on the wire, in the FIFO or behind it.
SendKept ==
    /\ m_txFifo \in Seq(Bytes) /\ m_txPending \in Seq(Bytes)
    /\ written \in Seq(Bytes) /\ sent \in Seq(Bytes)
    /\ shift \in Bytes \cup {0}
    /\ m_txActive => shift \in Bytes
    /\ written = ((sent \o OnWire) \o m_txFifo) \o m_txPending

\* What has been read, and what can be.
Arrived == read \o m_rxFifo

\* Bytes arrive in their order, and none but those that have; what was lost is
\* told or will be.
ReceiveKept ==
    /\ m_rxFifo \in Seq(Bytes) /\ read \in Seq(Bytes)
    /\ Len(m_rxFifo) <= UART_FIFO_LENGTH
    /\ received \in 0 .. MaxBytes
    /\ told \in 0 .. MaxBytes
    /\ Len(Arrived) <= received
    /\ \A i \in 1 .. Len(Arrived) : Arrived[i] <= received
    /\ \A i, j \in 1 .. Len(Arrived) : i < j => Arrived[i] < Arrived[j]
    /\ received - Len(Arrived) > told => "RXFIFO_OVF" \in m_intRaw

\* What is left of the types.
SetupTyped ==
    /\ m_txEmptyThrhd \in Thresholds \cup {0}
    /\ m_rxFullThrhd \in 0 .. UART_FIFO_LENGTH
    /\ m_intEn \subseteq Flags
    /\ <<program, crowded>> \in Sessions
    /\ at \in {"boot", "fill", "enable", "wait", "done"}
    /\ restarts \in 0 .. MaxRestarts

KInv == IInv /\ SendKept /\ ReceiveKept /\ SetupTyped

\* A number of bytes is a natural number, as every byte is.
LEMMA BytesAreNumbers ==
    /\ MaxBytes \in Nat /\ MaxRestarts \in Nat
    /\ Bytes \subseteq Nat
    /\ \A n : n \in Bytes <=> n \in Nat /\ 1 <= n /\ n <= MaxBytes
  BY Esp32UsartAssumption DEF Bytes

\* A sequence with one element more has the same elements' type, and one at least.
LEMMA Appended ==
    ASSUME NEW S, NEW q \in Seq(S), NEW x \in S
    PROVE  Append(q, x) \in Seq(S) /\ Append(q, x) # <<>>
<1>1. /\ Append(q, x) \in Seq(S) /\ Len(Append(q, x)) = Len(q) + 1 /\ Len(q) \in Nat
  BY Lengths
<1> QED BY <1>1, Lengths

\* Concatenation is associative, and has the length of its parts.
LEMMA Concat ==
    ASSUME NEW S, NEW s \in Seq(S), NEW t \in Seq(S), NEW u \in Seq(S)
    PROVE  /\ s \o t \in Seq(S)
           /\ Len(s \o t) = Len(s) + Len(t)
           /\ (s \o t) \o u = s \o (t \o u)
           /\ s \o <<>> = s
           /\ <<>> \o s = s
  BY ConcatProperties, ConcatAssociative, ConcatEmptySeq

\* What is appended to the last of two sequences is appended to both.
LEMMA AppendConcat ==
    ASSUME NEW S, NEW s \in Seq(S), NEW t \in Seq(S), NEW x \in S
    PROVE  s \o Append(t, x) = Append(s \o t, x)
<1>1. <<x>> \in Seq(S) /\ s \o t \in Seq(S)
  BY Concat
<1>2. Append(t, x) = t \o <<x>> /\ Append(s \o t, x) = (s \o t) \o <<x>>
  BY <1>1, AppendIsConcat
<1>3. (s \o t) \o <<x>> = s \o (t \o <<x>>)
  BY <1>1, Concat
<1> QED
  BY <1>2, <1>3

\* The first of the second of two sequences can go to the first.
LEMMA HeadMoves ==
    ASSUME NEW S, NEW s \in Seq(S), NEW t \in Seq(S), t # <<>>
    PROVE  /\ Head(t) \in S /\ Tail(t) \in Seq(S)
           /\ <<Head(t)>> \o Tail(t) = t
           /\ (s \o <<Head(t)>>) \o Tail(t) = s \o t
           /\ Append(s, Head(t)) \o Tail(t) = s \o t
<1>1. /\ Head(t) \in S /\ Tail(t) \in Seq(S) /\ <<Head(t)>> \in Seq(S)
      /\ Len(Tail(t)) = Len(t) - 1 /\ Len(t) \in Nat /\ Len(t) # 0
      /\ \A i \in 1 .. Len(Tail(t)) : Tail(t)[i] = t[i + 1]
  BY HeadTailProperties, EmptySeq
<1>2. <<Head(t)>> \o Tail(t) = t
  <2> DEFINE h == <<Head(t)>>
             w == h \o Tail(t)
  <2>1. h \in Seq(S) /\ Len(h) = 1 /\ h[1] = Head(t) /\ Head(t) = t[1]
    BY <1>1
  <2> HIDE DEF h
  <2>2. /\ w \in Seq(S) /\ Len(w) = 1 + Len(Tail(t))
        /\ \A i \in 1 .. 1 + Len(Tail(t)) : w[i] = IF i <= 1 THEN h[i] ELSE Tail(t)[i - 1]
    <3>1. /\ w \in Seq(S) /\ Len(w) = Len(h) + Len(Tail(t))
          /\ \A i \in 1 .. Len(h) + Len(Tail(t)) :
                w[i] = IF i <= Len(h) THEN h[i] ELSE Tail(t)[i - Len(h)]
      <4>1. Tail(t) \in Seq(S) /\ h \in Seq(S)
        BY <1>1, <2>1
      <4> QED
        BY <4>1, ConcatProperties
    <3> HIDE DEF w
    <3> QED
      BY <2>1, <3>1
  <2> HIDE DEF w
  <2>3. Len(w) = Len(t)
    BY <1>1, <2>2
  <2>4. ASSUME NEW i \in 1 .. Len(w)
        PROVE  w[i] = t[i]
    <3>1. CASE i = 1
      BY <1>1, <2>1, <2>2, <2>3, <3>1
    <3>2. CASE i # 1
      <4>1. i - 1 \in 1 .. Len(Tail(t)) /\ (i - 1) + 1 = i /\ ~(i <= 1) /\ i \in 1 .. 1 + Len(Tail(t))
        BY <1>1, <2>3, <3>2
      <4>2. Tail(t)[i - 1] = t[(i - 1) + 1]
        BY <1>1, <4>1
      <4> QED
        BY <2>2, <4>1, <4>2
    <3> QED
      BY <3>1, <3>2
  <2> QED
    BY <2>2, <2>3, <2>4, SeqEqual DEF w, h
<1>3. (s \o <<Head(t)>>) \o Tail(t) = s \o t
  BY <1>1, <1>2, Concat
<1>4. Append(s, Head(t)) = s \o <<Head(t)>>
  BY <1>1, AppendIsConcat
<1> QED
  BY <1>1, <1>2, <1>3, <1>4

\* At first there is nothing.
LEMMA InitKept == Init => KInv
<1> SUFFICES ASSUME Init PROVE KInv
  OBVIOUS
<1>1. /\ <<>> \in Seq(Bytes) /\ Len(<<>>) = 0
      /\ <<>> \o <<>> = <<>>
  BY Concat
<1>2. SendKept
  BY <1>1 DEF Init, SendKept, OnWire
<1>3. Arrived = <<>>
  BY <1>1 DEF Init, Arrived
<1>4. ReceiveKept
  BY <1>1, <1>3, BytesAreNumbers, Constants DEF Init, ReceiveKept
<1>5. SetupTyped
  <2>1. <<program, crowded>> \in Sessions
    <3>1. PICK session \in Sessions : program = session[1] /\ crowded = session[2]
      BY DEF Init
    <3>2. session = <<session[1], session[2]>>
      BY Esp32UsartAssumption
    <3> QED
      BY <3>1, <3>2
  <2> QED
    BY <2>1, BytesAreNumbers, Constants DEF Init, SetupTyped
<1> QED
  BY <1>2, <1>4, <1>5, InitIInv DEF KInv

\* Loading the shift register moves the first byte of the FIFO onto the wire.
LEMMA LoadKept ==
    ASSUME NEW fifo \in Seq(Bytes), NEW pending \in Seq(Bytes), NEW line \in Seq(Bytes),
           fifo # <<>>, load(fifo, pending)
    PROVE  /\ m_txFifo' \in Seq(Bytes) /\ m_txPending' \in Seq(Bytes)
           /\ shift' \in Bytes /\ m_txActive' = TRUE
           /\ ((line \o OnWire') \o m_txFifo') \o m_txPending' = (line \o fifo) \o pending
<1>1. /\ Head(fifo) \in Bytes /\ Tail(fifo) \in Seq(Bytes)
      /\ (line \o <<Head(fifo)>>) \o Tail(fifo) = line \o fifo
  BY HeadMoves
<1>2. shift' = Head(fifo) /\ m_txActive' = TRUE /\ OnWire' = <<Head(fifo)>>
  BY DEF load, OnWire
<1>3. CASE pending = <<>>
  <2>1. m_txFifo' = Tail(fifo) /\ m_txPending' = pending
    BY <1>3 DEF load
  <2> QED
    BY <1>1, <1>2, <2>1
<1>4. CASE pending # <<>>
  <2> DEFINE before == line \o <<Head(fifo)>>
  <2>1. m_txFifo' = Append(Tail(fifo), Head(pending)) /\ m_txPending' = Tail(pending)
    BY <1>4 DEF load
  <2>2. before \in Seq(Bytes) /\ line \o fifo \in Seq(Bytes)
    <3>1. <<Head(fifo)>> \in Seq(Bytes)
      BY <1>1
    <3> QED
      BY <3>1, Concat
  <2>3. /\ Head(pending) \in Bytes /\ Tail(pending) \in Seq(Bytes)
        /\ Append(line \o fifo, Head(pending)) \o Tail(pending) = (line \o fifo) \o pending
    <3> DEFINE both == line \o fifo
    <3>1. both \in Seq(Bytes)
      BY <2>2
    <3> HIDE DEF both
    <3>2. /\ Head(pending) \in Bytes /\ Tail(pending) \in Seq(Bytes)
          /\ Append(both, Head(pending)) \o Tail(pending) = both \o pending
      BY <1>4, <3>1, HeadMoves
    <3> QED
      BY <3>2 DEF both
  <2>4. before \o Tail(fifo) = line \o fifo
    BY <1>1
  <2> HIDE DEF before
  <2>5. before \o Append(Tail(fifo), Head(pending)) = Append(before \o Tail(fifo), Head(pending))
    <3> DEFINE rest == Tail(fifo)
               byte == Head(pending)
    <3>1. rest \in Seq(Bytes) /\ byte \in Bytes
      BY <1>1, <2>3
    <3> HIDE DEF rest, byte
    <3>2. before \o Append(rest, byte) = Append(before \o rest, byte)
      BY <2>2, <3>1, AppendConcat
    <3> QED
      BY <3>2 DEF rest, byte
  <2>6. (before \o m_txFifo') \o m_txPending' = (line \o fifo) \o pending
    BY <2>1, <2>3, <2>4, <2>5
  <2>7. m_txFifo' \in Seq(Bytes)
    BY <1>1, <2>1, <2>3
  <2> QED
    <3>1. line \o OnWire' = before
      BY <1>2 DEF before
    <3>2. ((line \o OnWire') \o m_txFifo') \o m_txPending' = (line \o fifo) \o pending
      BY <2>6, <3>1
    <3>3. shift' \in Bytes /\ m_txPending' \in Seq(Bytes)
      BY <1>1, <1>2, <2>1, <2>3
    <3> QED
      BY <1>2, <2>7, <3>2, <3>3
<1> QED
  BY <1>3, <1>4

\* The sender: a byte is written, or one is sent.
LEMMA SendStep ==
    ASSUME IInv, SendKept, frameSent \/ WriteFifo \/ UNCHANGED <<tx, written, sent>>
    PROVE  SendKept'
<1>1. CASE frameSent
  <2>1. m_txActive /\ sent' = Append(sent, shift) /\ written' = written /\ shift \in Bytes
    BY <1>1 DEF frameSent, SendKept
  <2>2. OnWire = <<shift>> /\ sent \o OnWire = sent' /\ sent' \in Seq(Bytes)
    <3>1. sent \in Seq(Bytes)
      BY DEF SendKept
    <3>2. Append(sent, shift) = sent \o <<shift>> /\ Append(sent, shift) \in Seq(Bytes)
      BY <2>1, <3>1, AppendIsConcat, AppendProperties
    <3> QED
      BY <2>1, <3>2 DEF OnWire
  <2>3. m_txFifo \in Seq(Bytes) /\ m_txPending \in Seq(Bytes) /\ written \in Seq(Bytes)
        /\ written = (sent' \o m_txFifo) \o m_txPending
    BY <2>2 DEF SendKept
  <2>4. CASE m_txFifo # <<>>
    <3>1. load(m_txFifo, m_txPending)
      BY <1>1, <2>4 DEF frameSent
    <3>2. /\ m_txFifo' \in Seq(Bytes) /\ m_txPending' \in Seq(Bytes)
          /\ shift' \in Bytes /\ m_txActive' = TRUE
          /\ ((sent' \o OnWire') \o m_txFifo') \o m_txPending' = (sent' \o m_txFifo) \o m_txPending
      <4>1. m_txFifo \in Seq(Bytes) /\ m_txPending \in Seq(Bytes) /\ sent' \in Seq(Bytes)
        BY <2>2, <2>3
      <4> QED
        BY <2>4, <3>1, <4>1, LoadKept
    <3> QED
      BY <2>1, <2>2, <2>3, <3>2 DEF SendKept
  <2>5. CASE m_txFifo = <<>>
    <3>1. m_txActive' = FALSE /\ shift' = 0 /\ m_txFifo' = m_txFifo /\ m_txPending' = m_txPending
      BY <1>1, <2>5 DEF frameSent
    <3>2. OnWire' = <<>> /\ sent' \o OnWire' = sent'
      BY <2>2, <3>1, Concat DEF OnWire
    <3>3. written' = ((sent' \o OnWire') \o m_txFifo') \o m_txPending'
      BY <2>1, <2>3, <3>1, <3>2
    <3>4. /\ m_txFifo' \in Seq(Bytes) /\ m_txPending' \in Seq(Bytes)
          /\ written' \in Seq(Bytes) /\ sent' \in Seq(Bytes)
      BY <2>1, <2>2, <2>3, <3>1
    <3> QED
      BY <3>1, <3>3, <3>4 DEF SendKept
  <2> QED
    BY <2>4, <2>5
<1>2. CASE WriteFifo
  <2> DEFINE byte == Len(written) + 1
             fifo == IF fits THEN Append(m_txFifo, byte) ELSE m_txFifo
             pending == IF fits THEN m_txPending ELSE Append(m_txPending, byte)
             line == sent \o OnWire
  <2>1. /\ Len(written) < MaxBytes
        /\ written' = Append(written, byte)
        /\ sent' = sent
        /\ IF m_txActive
             THEN m_txFifo' = fifo /\ m_txPending' = pending /\ UNCHANGED <<m_txActive, shift>>
             ELSE load(fifo, pending)
    BY <1>2 DEF WriteFifo
  <2>2. /\ m_txFifo \in Seq(Bytes) /\ m_txPending \in Seq(Bytes)
        /\ written \in Seq(Bytes) /\ sent \in Seq(Bytes)
        /\ written = (line \o m_txFifo) \o m_txPending
        /\ m_txActive \in BOOLEAN
    BY DEF SendKept, IInv, Shape
  <2>3. byte \in Bytes
    <3>1. Len(written) \in Nat
      BY <2>2, Lengths
    <3> QED
      BY <2>1, <3>1, BytesAreNumbers
  <2>4. OnWire \in Seq(Bytes) /\ line \in Seq(Bytes)
    <3>1. OnWire \in Seq(Bytes)
      <4>1. CASE m_txActive
        <5>1. shift \in Bytes
          BY <4>1 DEF SendKept
        <5> QED
          BY <4>1, <5>1 DEF OnWire
      <4>2. CASE ~m_txActive
        BY <4>2 DEF OnWire
      <4> QED
        BY <4>1, <4>2
    <3> QED
      BY <2>2, <3>1, Concat
  <2> HIDE DEF byte, line
  <2>5. /\ fifo \in Seq(Bytes) /\ pending \in Seq(Bytes) /\ written' \in Seq(Bytes)
        /\ fits => fifo # <<>>
        /\ written' = (line \o fifo) \o pending
    <3>1. line \o m_txFifo \in Seq(Bytes)
      BY <2>2, <2>4, Concat
    <3>2. /\ Append(m_txFifo, byte) \in Seq(Bytes) /\ Append(m_txPending, byte) \in Seq(Bytes)
          /\ Append(written, byte) \in Seq(Bytes) /\ Append(m_txFifo, byte) # <<>>
      BY <2>2, <2>3, Appended
    <3>3. CASE fits
      <4>1. fifo = Append(m_txFifo, byte) /\ pending = <<>> /\ m_txPending = <<>>
        BY <3>3 DEF fits
      <4>2. line \o Append(m_txFifo, byte) = Append(line \o m_txFifo, byte)
        BY <2>2, <2>3, <2>4, AppendConcat
      <4>3. written = line \o m_txFifo
        BY <2>2, <3>1, <4>1, Concat
      <4>4. line \o fifo \in Seq(Bytes)
        BY <2>4, <3>2, <4>1, Concat
      <4>5. (line \o fifo) \o pending = line \o fifo
        BY <4>1, <4>4, Concat
      <4> HIDE DEF fifo, pending
      <4> QED
        BY <2>1, <2>2, <3>2, <4>1, <4>2, <4>3, <4>5
    <3>4. CASE ~fits
      <4>1. fifo = m_txFifo /\ pending = Append(m_txPending, byte)
        BY <3>4
      <4>2. (line \o m_txFifo) \o Append(m_txPending, byte) = Append(written, byte)
        BY <2>2, <2>3, <3>1, AppendConcat
      <4> HIDE DEF fifo, pending
      <4> QED
        BY <2>1, <2>2, <3>2, <3>4, <4>1, <4>2
    <3> QED
      BY <3>3, <3>4
  <2>6. CASE m_txActive
    <3>1. m_txFifo' = fifo /\ m_txPending' = pending /\ UNCHANGED <<m_txActive, shift>>
      BY <2>1, <2>6
    <3>2. line' = line
      BY <2>1, <3>1 DEF line, OnWire
    <3>3. written' = ((sent' \o OnWire') \o m_txFifo') \o m_txPending'
      BY <2>5, <3>1, <3>2 DEF line
    <3> HIDE DEF fifo, pending
    <3> QED
      BY <2>1, <2>2, <2>5, <3>1, <3>3 DEF SendKept
  <2>7. CASE ~m_txActive
    <3>1. m_txFifo = <<>> /\ m_txPending = <<>> /\ fits
      <4>1. m_txFifo = <<>> /\ Len(m_txFifo) = 0
        BY <2>7 DEF IInv, SenderBusy
      <4>2. m_txPending = <<>>
        BY <4>1, Constants DEF IInv, SenderBusy
      <4> QED
        BY <4>1, <4>2, Constants DEF fits
    <3>2. load(fifo, pending) /\ fifo # <<>>
      BY <2>1, <2>5, <2>7, <3>1
    <3>3. line = sent
      BY <2>2, <2>7, Concat DEF line, OnWire
    <3> HIDE DEF fifo, pending
    <3>4. /\ m_txFifo' \in Seq(Bytes) /\ m_txPending' \in Seq(Bytes)
          /\ shift' \in Bytes /\ m_txActive' = TRUE
          /\ ((line \o OnWire') \o m_txFifo') \o m_txPending' = (line \o fifo) \o pending
      BY <2>4, <2>5, <3>2, LoadKept, ZenonT(30)
    <3> QED
      BY <2>1, <2>2, <2>5, <3>3, <3>4 DEF SendKept
  <2> QED
    BY <2>2, <2>6, <2>7
<1>3. CASE UNCHANGED <<tx, written, sent>>
  BY <1>3 DEF tx, SendKept, OnWire
<1> QED
  BY <1>1, <1>2, <1>3

\* A flag that says bytes are lost stays until the firmware clears it.
LEMMA LossStaysTold ==
    ASSUME NEW raw, updateIrq(raw), "RXFIFO_OVF" \in raw
    PROVE  "RXFIFO_OVF" \in m_intRaw'
  BY DEF updateIrq

\* The receiver, as a byte arrives.
LEMMA ArriveStep ==
    ASSUME ReceiveKept, byteReceived
    PROVE  ReceiveKept'
<1>1. /\ received < MaxBytes /\ received' = received + 1
      /\ read' = read /\ told' = told
      /\ m_rxFifo' = IF Len(m_rxFifo) < UART_FIFO_LENGTH THEN Append(m_rxFifo, received') ELSE m_rxFifo
      /\ updateIrq(m_intRaw \cup IF Len(m_rxFifo) < UART_FIFO_LENGTH THEN {} ELSE {"RXFIFO_OVF"})
  BY DEF byteReceived
<1>2. received \in Nat /\ received' \in Bytes /\ told \in 0 .. MaxBytes /\ received' \in 0 .. MaxBytes
  <2>1. received \in 0 .. MaxBytes /\ told \in 0 .. MaxBytes
    BY DEF ReceiveKept
  <2>2. received \in Nat /\ received' \in 1 .. MaxBytes
    BY <1>1, <2>1, BytesAreNumbers
  <2> QED
    BY <2>1, <2>2, BytesAreNumbers
<1>3. /\ m_rxFifo \in Seq(Bytes) /\ read \in Seq(Bytes) /\ Arrived \in Seq(Bytes)
      /\ Len(m_rxFifo) \in Nat /\ Len(Arrived) \in Nat
      /\ \A i \in 1 .. Len(Arrived) : Arrived[i] \in Nat
  <2>1. m_rxFifo \in Seq(Bytes) /\ read \in Seq(Bytes)
    BY DEF ReceiveKept
  <2>2. Arrived \in Seq(Bytes)
    BY <2>1, Concat DEF Arrived
  <2> HIDE DEF Arrived
  <2> QED
    BY <2>1, <2>2, Lengths, ElementOfSeq, BytesAreNumbers
<1>4. CASE Len(m_rxFifo) < UART_FIFO_LENGTH
  <2>1. Arrived' = Append(Arrived, received')
    BY <1>1, <1>2, <1>3, <1>4, AppendConcat DEF Arrived
  <2> HIDE DEF Arrived
  <2>2. m_rxFifo' \in Seq(Bytes) /\ Len(m_rxFifo') <= UART_FIFO_LENGTH
    BY <1>1, <1>2, <1>3, <1>4, Lengths, Constants
  <2>3. /\ Len(Arrived') = Len(Arrived) + 1
        /\ \A i \in 1 .. Len(Arrived) : Arrived'[i] = Arrived[i]
        /\ Arrived'[Len(Arrived) + 1] = received'
    BY <1>2, <1>3, <2>1, AppendProperties
  <2>4. \A i \in 1 .. Len(Arrived') : Arrived'[i] <= received'
    <3> TAKE i \in 1 .. Len(Arrived')
    <3>1. CASE i \in 1 .. Len(Arrived)
      <4>1. Arrived[i] <= received /\ Arrived[i] \in Nat /\ Arrived'[i] = Arrived[i]
        BY <1>3, <2>3, <3>1 DEF ReceiveKept
      <4> QED
        BY <1>1, <1>2, <4>1
    <3>2. CASE i = Len(Arrived) + 1
      BY <1>2, <2>3, <3>2
    <3>3. i \in 1 .. Len(Arrived) \/ i = Len(Arrived) + 1
      BY <1>3, <2>3
    <3> QED
      BY <3>1, <3>2, <3>3
  <2>5. \A i, j \in 1 .. Len(Arrived') : i < j => Arrived'[i] < Arrived'[j]
    <3> TAKE i, j \in 1 .. Len(Arrived')
    <3> HAVE i < j
    <3>1. i \in 1 .. Len(Arrived)
      BY <1>3, <2>3
    <3>2. CASE j \in 1 .. Len(Arrived)
      BY <2>3, <3>1, <3>2 DEF ReceiveKept
    <3>3. CASE j = Len(Arrived) + 1
      <4>1. Arrived[i] <= received /\ Arrived[i] \in Nat
        BY <1>3, <3>1 DEF ReceiveKept
      <4> QED
        BY <1>1, <1>2, <2>3, <3>1, <3>3, <4>1
    <3>4. j \in 1 .. Len(Arrived) \/ j = Len(Arrived) + 1
      BY <1>3, <2>3
    <3> QED
      BY <3>2, <3>3, <3>4
  <2>6. "RXFIFO_OVF" \in m_intRaw => "RXFIFO_OVF" \in m_intRaw'
    BY <1>1, <1>4 DEF updateIrq
  <2>7. received' - Len(Arrived') = received - Len(Arrived) /\ Len(Arrived') <= received'
    BY <1>1, <1>2, <1>3, <2>3 DEF ReceiveKept
  <2>8. received' - Len(Arrived') > told' => "RXFIFO_OVF" \in m_intRaw'
    BY <1>1, <2>6, <2>7 DEF ReceiveKept
  <2> QED
    BY <1>1, <1>2, <1>3, <2>2, <2>4, <2>5, <2>7, <2>8 DEF ReceiveKept
<1>5. CASE ~(Len(m_rxFifo) < UART_FIFO_LENGTH)
  <2>1. m_rxFifo' = m_rxFifo /\ Arrived' = Arrived /\ "RXFIFO_OVF" \in m_intRaw'
    BY <1>1, <1>5, LossStaysTold DEF Arrived
  <2> HIDE DEF Arrived
  <2>2. \A i \in 1 .. Len(Arrived) : Arrived[i] <= received'
    BY <1>1, <1>2, <1>3 DEF ReceiveKept
  <2>3. Len(Arrived) <= received'
    BY <1>1, <1>2, <1>3 DEF ReceiveKept
  <2> QED
    BY <1>1, <1>2, <1>3, <2>1, <2>2, <2>3 DEF ReceiveKept
<1> QED
  BY <1>4, <1>5

\* The receiver, in the other steps: a byte that is read has arrived as before.
LEMMA ReceiveStep ==
    ASSUME ReceiveKept,
           \/ ReadFifo
           \/ \E flags \in SUBSET Flags : WriteIntClr(flags)
           \/ /\ UNCHANGED <<m_rxFifo, received, read, told>>
              /\ "RXFIFO_OVF" \in m_intRaw => "RXFIFO_OVF" \in m_intRaw'
    PROVE  ReceiveKept'
<1>1. m_rxFifo \in Seq(Bytes) /\ read \in Seq(Bytes)
  BY DEF ReceiveKept
<1>2. CASE ReadFifo
  <2>1. /\ m_rxFifo # <<>> /\ read' = Append(read, Head(m_rxFifo)) /\ m_rxFifo' = Tail(m_rxFifo)
        /\ UNCHANGED <<received, told>> /\ updateIrq(m_intRaw)
    BY <1>2 DEF ReadFifo
  <2>2. Arrived' = Arrived /\ Head(m_rxFifo) \in Bytes /\ m_rxFifo' \in Seq(Bytes)
    BY <1>1, <2>1, HeadMoves DEF Arrived
  <2> HIDE DEF Arrived
  <2>3. read' \in Seq(Bytes) /\ Len(m_rxFifo') <= UART_FIFO_LENGTH
    <3>1. read' \in Seq(Bytes)
      BY <1>1, <2>1, <2>2, Lengths
    <3>2. Len(m_rxFifo') = Len(m_rxFifo) - 1 /\ Len(m_rxFifo) \in Nat
      BY <1>1, <2>1, HeadTailProperties, Lengths
    <3> QED
      BY <3>1, <3>2, Constants DEF ReceiveKept
  <2>4. "RXFIFO_OVF" \in m_intRaw => "RXFIFO_OVF" \in m_intRaw'
    BY <2>1, LossStaysTold
  <2> QED
    BY <2>1, <2>2, <2>3, <2>4 DEF ReceiveKept
<1>3. CASE \E flags \in SUBSET Flags : WriteIntClr(flags)
  <2>1. PICK flags : WriteIntClr(flags)
    BY <1>3
  <2>2. /\ UNCHANGED <<m_rxFifo, received, read>> /\ Arrived' = Arrived
        /\ updateIrq(m_intRaw \ flags)
        /\ told' = IF "RXFIFO_OVF" \in flags THEN lost ELSE told
    BY <2>1 DEF WriteIntClr, rx, Arrived
  <2>3. /\ Len(read) \in Nat /\ Len(m_rxFifo) \in Nat /\ Len(Arrived) = Len(read) + Len(m_rxFifo)
        /\ received \in Nat /\ MaxBytes \in Nat
    BY <1>1, Concat, Lengths, BytesAreNumbers DEF Arrived, ReceiveKept
  <2>4. lost = received - Len(Arrived)
    BY <2>3 DEF lost
  <2> HIDE DEF Arrived
  <2>5. CASE "RXFIFO_OVF" \in flags
    <3>1. told' \in 0 .. MaxBytes /\ ~(received' - Len(Arrived') > told')
      BY <2>2, <2>3, <2>4, <2>5 DEF ReceiveKept
    <3> QED
      BY <2>2, <3>1 DEF ReceiveKept
  <2>6. CASE "RXFIFO_OVF" \notin flags
    <3>1. told' = told /\ ("RXFIFO_OVF" \in m_intRaw => "RXFIFO_OVF" \in m_intRaw')
      BY <2>2, <2>6, LossStaysTold
    <3> QED
      BY <2>2, <3>1 DEF ReceiveKept
  <2> QED
    BY <2>5, <2>6
<1>4. CASE /\ UNCHANGED <<m_rxFifo, received, read, told>>
           /\ "RXFIFO_OVF" \in m_intRaw => "RXFIFO_OVF" \in m_intRaw'
  BY <1>4 DEF ReceiveKept, Arrived
<1> QED
  BY <1>2, <1>3, <1>4

\* The registers that set the port up, and the program.
LEMMA SetupStep ==
    ASSUME SetupTyped, [Next]_vars
    PROVE  SetupTyped'
<1> USE DEF SetupTyped
<1>1. CASE frameSent
  BY <1>1 DEF frameSent, setup, firmware
<1>2. CASE byteReceived
  BY <1>2 DEF byteReceived, setup, firmware
<1>3. CASE QemuTakesIrq
  BY <1>3 DEF QemuTakesIrq, setup
<1>4. ASSUME \/ WriteFifo \/ ReadFifo \/ WriteConf0
             \/ \E flags \in SUBSET Flags : WriteIntEna(flags) \/ WriteIntClr(flags)
             \/ \E t \in Thresholds, r \in 1 .. UART_FIFO_LENGTH : WriteConf1(t, r)
      PROVE  /\ m_txEmptyThrhd' \in Thresholds \cup {0}
             /\ m_rxFullThrhd' \in 0 .. UART_FIFO_LENGTH
             /\ m_intEn' \subseteq Flags
  <2>1. CASE \E t \in Thresholds, r \in 1 .. UART_FIFO_LENGTH : WriteConf1(t, r)
    BY <2>1, Constants DEF WriteConf1
  <2>2. CASE \E flags \in SUBSET Flags : WriteIntEna(flags) \/ WriteIntClr(flags)
    BY <2>2 DEF WriteIntEna, WriteIntClr, setup
  <2>3. CASE WriteFifo \/ ReadFifo \/ WriteConf0
    BY <2>3 DEF WriteFifo, ReadFifo, WriteConf0, setup
  <2> QED
    BY <1>4, <2>1, <2>2, <2>3
<1>5. CASE AnyAccess
  <2>1. UNCHANGED <<program, at, restarts, crowded>>
    BY <1>5 DEF AnyAccess, firmware
  <2> QED
    BY <1>4, <1>5, <2>1 DEF AnyAccess
<1>6. CASE DriverAccess
  <2>1. UNCHANGED <<program, restarts, crowded>> /\ at' \in {"boot", "fill", "enable", "wait", "done"}
    BY <1>6 DEF DriverAccess, Goes
  <2> QED
    BY <1>4, <1>6, <2>1 DEF DriverAccess, Flags
<1>7. CASE Restart
  <2>1. restarts' \in 0 .. MaxRestarts
    BY <1>7, BytesAreNumbers DEF Restart
  <2> QED
    BY <1>7, <2>1 DEF Restart, setup
<1>8. CASE OtherInterrupt
  BY <1>8 DEF OtherInterrupt, setup, firmware
<1>9. CASE UNCHANGED vars
  BY <1>9 DEF vars, setup, firmware
<1> QED
  BY <1>1, <1>2, <1>3, <1>5, <1>6, <1>7, <1>8, <1>9 DEF Next

\* Every step preserves what is kept.
LEMMA NextKept ==
    ASSUME KInv, [Next]_vars
    PROVE  KInv'
<1>1. IInv' /\ SetupTyped'
  BY NextIInv, SetupStep DEF KInv
<1>2. \/ frameSent \/ byteReceived \/ WriteFifo \/ ReadFifo \/ WriteConf0
      \/ \E flags \in SUBSET Flags : WriteIntEna(flags) \/ WriteIntClr(flags)
      \/ \E t \in Thresholds, r \in 1 .. UART_FIFO_LENGTH : WriteConf1(t, r)
      \/ UNCHANGED <<tx, m_rxFifo, m_intRaw, written, sent, received, read, told>>
  BY DEF Next, AnyAccess, DriverAccess, QemuTakesIrq, OtherInterrupt, Restart, vars, rx, interrupt, Flags
<1>3. SendKept'
  <2>1. frameSent \/ WriteFifo \/ UNCHANGED <<tx, written, sent>>
    BY <1>2 DEF byteReceived, ReadFifo, WriteConf0, WriteIntEna, WriteIntClr, WriteConf1
  <2> QED
    BY <2>1, SendStep DEF KInv
<1>4. ReceiveKept'
  <2>1. ASSUME frameSent \/ WriteFifo \/ WriteConf0
               \/ (\E flags \in SUBSET Flags : WriteIntEna(flags))
               \/ (\E t \in Thresholds, r \in 1 .. UART_FIFO_LENGTH : WriteConf1(t, r))
        PROVE  UNCHANGED <<m_rxFifo, received, read, told>> /\ updateIrq(m_intRaw)
    BY <2>1 DEF frameSent, WriteFifo, WriteConf0, WriteIntEna, WriteConf1, rx
  <2>2. \/ byteReceived \/ ReadFifo
        \/ \E flags \in SUBSET Flags : WriteIntClr(flags)
        \/ /\ UNCHANGED <<m_rxFifo, received, read, told>>
           /\ "RXFIFO_OVF" \in m_intRaw => "RXFIFO_OVF" \in m_intRaw'
    BY <1>2, <2>1, LossStaysTold
  <2> QED
    BY <2>2, ArriveStep, ReceiveStep DEF KInv
<1> QED
  BY <1>1, <1>3, <1>4 DEF KInv

\* The variables keep their types: the FIFOs never hold more than their length,
\* and the ring always leaves one place free.
THEOREM TypeCorrect == Spec => []TypeOK
<1>1. ASSUME KInv
      PROVE  TypeOK
  <2>1. /\ m_intRaw \subseteq Flags
        /\ {m_txActive, m_irqLevel, level, stale, dropped} \subseteq BOOLEAN
    BY <1>1 DEF KInv, IInv, Shape, FlagsTrue, Now, Flags, NewestRight
  <2>2. Len(irq) < RingEvents /\ irq \in Seq({"high", "low", "other"})
    BY <1>1 DEF KInv, IInv, RingRoom, Events
  <2>3. /\ {m_txFifo, m_txPending, m_rxFifo, written, sent, read} \subseteq Seq(Bytes)
        /\ shift \in Bytes \cup {0}
    BY <1>1 DEF KInv, SendKept, ReceiveKept
  <2>4. /\ Len(m_txFifo) <= UART_FIFO_LENGTH /\ Len(m_rxFifo) <= UART_FIFO_LENGTH
        /\ told \in 0 .. MaxBytes
    BY <1>1 DEF KInv, IInv, Shape, ReceiveKept
  <2>5. received \in Bytes \cup {0}
    BY <1>1, BytesAreNumbers DEF KInv, ReceiveKept
  <2> QED
    BY <1>1, <2>1, <2>2, <2>3, <2>4, <2>5 DEF TypeOK, KInv, SetupTyped
<1> QED
  BY <1>1, InitKept, NextKept, PTL DEF Spec

\* No byte is lost, repeated or overtaken on the way out, and none is lost on the
\* way in that the firmware is not told of, whatever it accesses and when: for
\* FIFOs of any length and any number of bytes and resets.
THEOREM NoByteLost == Spec => []BytesKept
<1>1. ASSUME KInv
      PROVE  BytesKept
  <2>1. written = sent \o (IF m_txActive THEN <<shift>> ELSE <<>>) \o m_txFifo \o m_txPending
    BY <1>1 DEF KInv, SendKept, OnWire
  <2>2. /\ m_txFifo # <<>> => m_txActive
        /\ m_txPending # <<>> => Len(m_txFifo) = UART_FIFO_LENGTH
    BY <1>1 DEF KInv, IInv, SenderBusy
  <2>3. \A i, j \in 1 .. Len(read \o m_rxFifo) :
           i < j => (read \o m_rxFifo)[i] < (read \o m_rxFifo)[j]
    BY <1>1 DEF KInv, ReceiveKept, Arrived
  <2>4. lost = received - Len(Arrived)
    <3>1. read \in Seq(Bytes) /\ m_rxFifo \in Seq(Bytes) /\ received \in Nat
      BY <1>1, BytesAreNumbers DEF KInv, ReceiveKept
    <3>2. /\ Len(read) \in Nat /\ Len(m_rxFifo) \in Nat
          /\ Len(Arrived) = Len(read) + Len(m_rxFifo)
      BY <3>1, Concat, Lengths DEF Arrived
    <3> QED
      BY <3>1, <3>2 DEF lost
  <2>5. lost > told => "RXFIFO_OVF" \in m_intRaw
    BY <1>1, <2>4 DEF KInv, ReceiveKept
  <2> QED
    BY <2>1, <2>2, <2>3, <2>5 DEF BytesKept
<1> QED
  BY <1>1, InitKept, NextKept, PTL DEF Spec

=============================================================================
