----------------------------- MODULE Esp32Usart -----------------------------
(***************************************************************************)
(* The serial port of a simulated ESP32 (esp32usart.cpp) between the       *)
(* firmware, which reads and writes its registers, the two wires, and the  *)
(* ring through which QEMU hears of interrupts (QemuModule::setInterrupt). *)
(*                                                                         *)
(* Register accesses, the end of a frame sent and the arrival of a byte    *)
(* are calls on the circuit thread.  QEMU takes interrupts from the ring   *)
(* when it gets to it; the other modules of the device use the same ring,  *)
(* and what does not fit is dropped.  When the device is reset by its pin the process    *)
(* starts again and the ring is emptied (QemuDevice::stamp); the module    *)
(* keeps its state.                                                        *)
(*                                                                         *)
(* A byte stands for its place among those that are sent or received.      *)
(* Firmware is not in the repository: one program accesses registers as it *)
(* likes, the other is a driver that sleeps between interrupts.            *)
(***************************************************************************)
EXTENDS Naturals, Sequences, SequencesExt

CONSTANTS
    UART_FIFO_LENGTH,
    Thresholds,     \* of the transmit FIFO
    RingEvents,     \* QEMU_IRQ_RING_EVENTS
    MaxLag,         \* events QEMU leaves in a ring that is not crowded
    MaxBytes,       \* bound on the bytes sent, and on those received
    MaxRestarts,    \* bound on the resets of the device
    Sessions        \* pairs of a program, "any" or "driver", and crowded

ASSUME Esp32UsartAssumption ==
    /\ UART_FIFO_LENGTH \in Nat \ {0}
    /\ Thresholds \subseteq 0 .. UART_FIFO_LENGTH - 1
    /\ {MaxLag, MaxBytes, MaxRestarts} \subseteq Nat
    /\ RingEvents \in Nat \ {0}
    /\ Sessions \subseteq {"any", "driver"} \X BOOLEAN

Flags == {"RXFIFO_FULL", "TXFIFO_EMPTY", "RXFIFO_OVF", "TX_DONE"}

VARIABLES
    m_txFifo, m_txPending, m_txActive,
    shift,          \* the byte in the sender's shift register
    m_rxFifo,
    m_txEmptyThrhd, m_rxFullThrhd,
    m_intRaw, m_intEn, m_irqLevel,
    irq,            \* the events in the ring: levels, and those of others
    \* QEMU and the firmware
    level,          \* of the interrupt, as QEMU knows it
    program, at,    \* where the driver is
    restarts,
    crowded,        \* other modules send, and the firmware goes on however full
                    \* the ring is
    \* history
    written, sent, received, read,
    told,           \* received bytes whose loss the firmware has acknowledged
    stale,          \* the level was high at the reset and has not changed since
    dropped         \* its last change did not fit the ring

tx == <<m_txFifo, m_txPending, m_txActive, shift>>
setup == <<m_txEmptyThrhd, m_rxFullThrhd>>
rx == <<m_rxFifo>>
interrupt == <<m_intRaw, m_irqLevel, irq, stale, dropped>>
firmware == <<level, program, at, restarts, crowded>>
vars == <<tx, setup, rx, interrupt, m_intEn, firmware, written, sent, received, read, told>>

Bytes == 1 .. MaxBytes

TypeOK ==
    /\ {m_txFifo, m_txPending, m_rxFifo, written, sent, read} \subseteq Seq(Bytes)
    /\ Len(m_txFifo) <= UART_FIFO_LENGTH
    /\ Len(m_rxFifo) <= UART_FIFO_LENGTH
    /\ {m_txActive, m_irqLevel, level, stale, dropped} \subseteq BOOLEAN
    /\ shift \in Bytes \cup {0}
    /\ m_txEmptyThrhd \in Thresholds \cup {0}
    /\ m_rxFullThrhd \in 0 .. UART_FIFO_LENGTH
    /\ m_intRaw \subseteq Flags
    /\ m_intEn \subseteq Flags
    /\ irq \in Seq({"high", "low", "other"})
    /\ Len(irq) < RingEvents
    /\ <<program, crowded>> \in Sessions
    /\ at \in {"boot", "fill", "enable", "wait", "done"}
    /\ restarts \in 0 .. MaxRestarts
    /\ received \in Bytes \cup {0}
    /\ told \in 0 .. MaxBytes

\* After Esp32Usart::reset.
Init ==
    /\ m_txFifo = <<>> /\ m_txPending = <<>> /\ m_rxFifo = <<>>
    /\ m_txActive = FALSE
    /\ shift = 0
    /\ m_txEmptyThrhd = 0 /\ m_rxFullThrhd = 0
    /\ m_intRaw = {} /\ m_intEn = {}
    /\ m_irqLevel = FALSE
    /\ irq = <<>>
    /\ level = FALSE
    /\ \E session \in Sessions : program = session[1] /\ crowded = session[2]
    /\ at = "boot"
    /\ restarts = 0
    /\ written = <<>> /\ sent = <<>> /\ read = <<>>
    /\ received = 0
    /\ told = 0
    /\ stale = FALSE
    /\ dropped = FALSE

-----------------------------------------------------------------------------

Word(l) == IF l THEN "high" ELSE "low"

\* MUTANT of setInterrupt: a ring that is nearly full counts as full.
setInterruptIfRoom(l) ==
    /\ irq' = IF Len(irq) + 2 >= RingEvents THEN irq ELSE Append(irq, Word(l))
    /\ dropped' = (Len(irq) + 2 >= RingEvents)

\* The ring holds one event less than it has room for; what does not fit is
\* dropped.
setInterrupt(l) ==
    /\ irq' = IF Len(irq) + 1 = RingEvents THEN irq ELSE Append(irq, Word(l))
    /\ dropped' = (Len(irq) + 1 = RingEvents)

\* MUTANT of conditions: the transmit FIFO counts as empty below the threshold.
conditionsBelow ==
    (IF Len(m_rxFifo') >= m_rxFullThrhd' THEN {"RXFIFO_FULL"} ELSE {})
    \cup (IF Len(m_txFifo') < m_txEmptyThrhd' THEN {"TXFIFO_EMPTY"} ELSE {})
    \cup (IF m_txFifo' = <<>> /\ m_txPending' = <<>> /\ ~m_txActive' THEN {"TX_DONE"} ELSE {})

\* What the state of the FIFOs says.
conditions ==
    (IF Len(m_rxFifo') >= m_rxFullThrhd' THEN {"RXFIFO_FULL"} ELSE {})
    \cup (IF Len(m_txFifo') <= m_txEmptyThrhd' THEN {"TXFIFO_EMPTY"} ELSE {})
    \cup (IF m_txFifo' = <<>> /\ m_txPending' = <<>> /\ ~m_txActive' THEN {"TX_DONE"} ELSE {})

\* updateIrq, at the end of every call, with the raw flags as the call left them.
updateIrq(raw) ==
    /\ m_intRaw' = (raw \cap {"RXFIFO_OVF"}) \cup conditions
    /\ m_irqLevel' = (m_intRaw' \cap m_intEn' # {})
    /\ IF m_irqLevel' # m_irqLevel
         THEN setInterrupt(m_irqLevel') /\ stale' = FALSE
         ELSE UNCHANGED <<irq, stale, dropped>>

\* The next byte of a sender that has finished one, or had none.
load(fifo, pending) ==
    /\ shift' = Head(fifo)
    /\ IF pending = <<>>
         THEN m_txFifo' = Tail(fifo) /\ m_txPending' = <<>>
         ELSE m_txFifo' = Append(Tail(fifo), Head(pending)) /\ m_txPending' = Tail(pending)
    /\ m_txActive' = TRUE

-----------------------------------------------------------------------------
\* The wires.

\* The stop bit of the byte in the shift register is over.
frameSent ==
    /\ m_txActive
    /\ sent' = Append(sent, shift)
    /\ IF m_txFifo # <<>>
         THEN load(m_txFifo, m_txPending)
         ELSE m_txActive' = FALSE /\ shift' = 0 /\ UNCHANGED <<m_txFifo, m_txPending>>
    /\ UNCHANGED <<setup, rx, m_intEn, firmware, written, received, read, told>>
    /\ updateIrq(m_intRaw)

\* MUTANT of byteReceived: the flag is set for the last byte that fits.
byteReceivedUntold ==
    /\ received < MaxBytes
    /\ received' = received + 1
    /\ m_rxFifo' = IF Len(m_rxFifo) < UART_FIFO_LENGTH THEN Append(m_rxFifo, received') ELSE m_rxFifo
    /\ UNCHANGED <<tx, setup, m_intEn, firmware, written, sent, read, told>>
    /\ updateIrq(m_intRaw \cup IF Len(m_rxFifo) + 1 = UART_FIFO_LENGTH THEN {"RXFIFO_OVF"} ELSE {})

\* A byte has arrived.  When the FIFO is full it is dropped, and a flag tells.
byteReceived ==
    /\ received < MaxBytes
    /\ received' = received + 1
    /\ m_rxFifo' = IF Len(m_rxFifo) < UART_FIFO_LENGTH THEN Append(m_rxFifo, received') ELSE m_rxFifo
    /\ UNCHANGED <<tx, setup, m_intEn, firmware, written, sent, read, told>>
    /\ updateIrq(m_intRaw \cup IF Len(m_rxFifo) < UART_FIFO_LENGTH THEN {} ELSE {"RXFIFO_OVF"})

-----------------------------------------------------------------------------
\* Registers, written and read by writeRegister and readRegister.

\* MUTANT of fits: only what waits behind the FIFO counts.
fitsBehind == m_txPending = <<>>

\* Whether the FIFO takes another byte, and nothing waits before it.
fits == m_txPending = <<>> /\ Len(m_txFifo) < UART_FIFO_LENGTH

\* UART_FIFO written: a byte that does not fit waits behind the FIFO.
WriteFifo ==
    /\ Len(written) < MaxBytes
    /\ LET byte == Len(written) + 1
           fifo == IF fits THEN Append(m_txFifo, byte) ELSE m_txFifo
           pending == IF fits THEN m_txPending ELSE Append(m_txPending, byte)
       IN  /\ written' = Append(written, byte)
           /\ IF m_txActive
                THEN m_txFifo' = fifo /\ m_txPending' = pending /\ UNCHANGED <<m_txActive, shift>>
                ELSE load(fifo, pending)
    /\ UNCHANGED <<setup, rx, m_intEn, sent, received, read, told>>
    /\ updateIrq(m_intRaw)

\* UART_FIFO read.
ReadFifo ==
    /\ m_rxFifo # <<>>
    /\ read' = Append(read, Head(m_rxFifo))
    /\ m_rxFifo' = Tail(m_rxFifo)
    /\ UNCHANGED <<tx, setup, m_intEn, written, sent, received, told>>
    /\ updateIrq(m_intRaw)

\* UART_INT_ENA written.
WriteIntEna(flags) ==
    /\ m_intEn' = flags
    /\ UNCHANGED <<tx, setup, rx, written, sent, received, read, told>>
    /\ updateIrq(m_intRaw)

\* The received bytes that the FIFO had no room for.
lost == received - Len(read) - Len(m_rxFifo)

\* UART_INT_CLR written.
WriteIntClr(flags) ==
    /\ told' = IF "RXFIFO_OVF" \in flags THEN lost ELSE told
    /\ UNCHANGED <<tx, setup, rx, m_intEn, written, sent, received, read>>
    /\ updateIrq(m_intRaw \ flags)

\* UART_CONF1 written: writeCR1.
WriteConf1(txEmpty, rxFull) ==
    /\ m_txEmptyThrhd' = txEmpty
    /\ m_rxFullThrhd' = rxFull
    /\ UNCHANGED <<tx, rx, m_intEn, written, sent, received, read, told>>
    /\ updateIrq(m_intRaw)

\* UART_CONF0 written with the bits that reset the FIFOs: writeCR0 keeps bits 17
\* and 18 in eight bits, where they are always 0.
WriteConf0 ==
    /\ UNCHANGED <<tx, setup, rx, m_intEn, written, sent, received, read, told>>
    /\ updateIrq(m_intRaw)

-----------------------------------------------------------------------------
\* QEMU and the firmware.

QemuTakesIrq ==
    /\ irq # <<>>
    /\ level' = IF Head(irq) = "other" THEN level ELSE Head(irq) = "high"
    /\ irq' = Tail(irq)
    /\ UNCHANGED <<tx, setup, rx, m_intRaw, m_irqLevel, stale, dropped, m_intEn, program, at,
                   restarts, crowded, written, sent, received, read, told>>

\* Another module of the device calls setInterrupt.
OtherInterrupt ==
    /\ crowded
    /\ Len(irq) + 1 # RingEvents
    /\ irq' = Append(irq, "other")
    /\ UNCHANGED <<tx, setup, rx, m_intRaw, m_irqLevel, stale, dropped, m_intEn, firmware,
                   written, sent, received, read, told>>

\* Any register at any time.
AnyAccess ==
    /\ program = "any"
    /\ crowded \/ Len(irq) <= MaxLag
    /\ UNCHANGED firmware
    /\ \/ WriteFifo \/ ReadFifo \/ WriteConf0
       \/ \E flags \in SUBSET Flags : WriteIntEna(flags)
       \/ \E flag \in Flags : WriteIntClr({flag})
       \/ \E t \in Thresholds, r \in 1 .. UART_FIFO_LENGTH : WriteConf1(t, r)

\* The driver boots with all interrupts disabled, fills the FIFO, enables the
\* interrupt that tells it is empty, sleeps, is woken, and disables it.
Goes(from, to) == at = from /\ at' = to

DriverAccess ==
    /\ program = "driver"
    /\ crowded \/ Len(irq) <= MaxLag
    /\ UNCHANGED <<level, program, restarts, crowded>>
    /\ \/ Goes("boot", "fill") /\ WriteIntEna({})
       \/ /\ Goes("fill", "fill")
          /\ Len(m_txFifo) < UART_FIFO_LENGTH
          /\ WriteFifo
       \/ /\ Goes("fill", IF Len(written) = MaxBytes THEN "done" ELSE "enable")
          /\ Len(m_txFifo) = UART_FIFO_LENGTH \/ Len(written) = MaxBytes
          /\ WriteIntClr({"TXFIFO_EMPTY"})
       \/ Goes("enable", "wait") /\ WriteIntEna({"TXFIFO_EMPTY"})
       \/ level /\ Goes("wait", "fill") /\ WriteIntEna({})

\* The device is reset by its pin: stamp empties the ring; the module, which only
\* initialize would reset, goes on as it was.
Restart ==
    /\ restarts < MaxRestarts
    /\ restarts' = restarts + 1
    /\ irq' = <<>>
    /\ level' = FALSE
    /\ at' = "boot"
    /\ stale' = m_irqLevel
    /\ dropped' = FALSE
    /\ UNCHANGED <<tx, setup, rx, m_intRaw, m_irqLevel, m_intEn, program, crowded, written, sent,
                   received, read, told>>

Next == frameSent \/ byteReceived \/ QemuTakesIrq \/ OtherInterrupt \/ AnyAccess \/ DriverAccess \/ Restart

\* Frames end, QEMU takes what is in the ring, and the driver's program runs.
Spec == Init /\ [][Next]_vars
             /\ WF_vars(frameSent) /\ WF_vars(QemuTakesIrq) /\ WF_vars(DriverAccess)

-----------------------------------------------------------------------------

\* What has been written is on the wire, in the shift register, in the FIFO or
\* behind it, in the order of writing, and the sender is at work as long as there
\* is something to send (README.md: "writes already accepted by the synchronous
\* bridge are retained in order").  What has arrived and does not reach the
\* firmware is told.
BytesKept ==
    /\ written = sent \o (IF m_txActive THEN <<shift>> ELSE <<>>) \o m_txFifo \o m_txPending
    /\ m_txFifo # <<>> => m_txActive
    /\ m_txPending # <<>> => Len(m_txFifo) = UART_FIFO_LENGTH
    /\ \A i, j \in 1 .. Len(read \o m_rxFifo) :
          i < j => (read \o m_rxFifo)[i] < (read \o m_rxFifo)[j]
    /\ lost > told => "RXFIFO_OVF" \in m_intRaw

\* The last event of this port in the ring tells the level l, or there is none and
\* QEMU knows l already.
Tells(l) ==
    \/ level = l /\ \A i \in 1 .. Len(irq) : irq[i] = "other"
    \/ \E i \in 1 .. Len(irq) :
          irq[i] = Word(l) /\ \A j \in i + 1 .. Len(irq) : irq[j] = "other"

\* When QEMU has read the ring it knows the level of the interrupt, whatever was
\* accessed and sent and received meanwhile; but for a level that was high when
\* the device was reset, and for one that did not fit the ring, until it changes.
\* While QEMU reads the ring before the firmware goes on, and no other module
\* sends, everything fits: what happens on the wires can only raise the level.
LevelArrives ==
    /\ ~stale /\ ~dropped => Tells(m_irqLevel)
    /\ dropped /\ MaxLag + 2 < RingEvents => crowded

\* The driver's bytes are all sent: an interrupt always comes to wake it
\* (README.md: "a transmitter waiting for FIFO space cannot lose its wakeup"),
\* unless it did not fit the ring.
Transmits ==
    program = "driver" ~> Len(sent) = MaxBytes \/ dropped

=============================================================================
