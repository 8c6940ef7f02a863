-------------------------- MODULE QemuDeviceProofs --------------------------
(***************************************************************************)
(* A QEMU device keeps the promise of Mailbox, whatever its sessions are.  *)
(***************************************************************************)
EXTENDS QemuDevice, TLAPS

\* What doAction left for a module is the request that QEMU waits for, and it is
\* not acknowledged before it is executed.
LeftIsRequest ==
    m_eventModule # NoRequest =>
        /\ thread = "idle"
        /\ simuTime = 1
        /\ request = m_eventModule
        /\ request.address = "register"
        /\ ~executed

\* What runEvent finds in the arena is the request that QEMU waits for.
FoundIsRequest ==
    thread = "poll" /\ simuTime = 1 =>
        /\ request \in Requests
        /\ ~executed
        /\ request.op = IF simuAction = "none" THEN "time" ELSE simuAction
        /\ request.value = IF simuAction = "write" THEN regData ELSE 0
        /\ simuAction \in {"read", "write"} => request.address = regAddr

\* A request that runEvent was waiting for, and a module can serve, is in the
\* arena or left for that module until it is executed.
WatchedIsKept ==
    request # NoRequest /\ watched /\ ~executed /\ Promise!Served =>
        simuTime = 1 /\ (thread = "poll" \/ m_eventModule = request)

\* There is no answer before the question.
NoEarlyAnswer == request # NoRequest /\ ~executed => qemuAction = "none"

\* What runs stamp is at the head of the queue.
StartedByCall == gui \in {"starting", "added"} => calls # <<>>

IInv ==
    /\ TypeOK
    /\ StartedByCall
    /\ LeftIsRequest
    /\ FoundIsRequest
    /\ WatchedIsKept
    /\ NoEarlyAnswer

-----------------------------------------------------------------------------
\* The types in parts: what is counted, what is queued, what has to do with
\* requests, and the rest.

TypeOfCount == noProgress \in 0 .. MaxNoProgress - 1

TypeOfCalls == calls \in Seq({"kill", "restart"})

TypeOfRequest ==
    /\ simuTime \in {0, 1}
    /\ simuAction \in {"none", "read", "write", "event"}
    /\ qemuAction \in {"none", "read"}
    /\ regAddr \in Addresses
    /\ regData \in Values \cup {0}
    /\ m_eventModule \in {r \in Requests : r.op \in {"read", "write"}} \cup {NoRequest}
    /\ m_ioMem \in Values \cup {0}
    /\ thread \in {"idle", "clear", "poll"}
    /\ request \in Requests \cup {NoRequest}
    /\ watched \in BOOLEAN
    /\ executed \in BOOLEAN

TypeOfRest ==
    /\ session \in Sessions
    /\ {running, m_resetRequested, scheduled, frame, pin} \subseteq BOOLEAN
    /\ gui \in {"idle", "waiting", "starting", "added"}
    /\ m_state \in {"paused", "waiting", "running"}
    /\ process \in {"off", "boot", "up"}

\* The parts are the types.
LEMMA TypeParts == TypeOK <=> TypeOfCount /\ TypeOfCalls /\ TypeOfRequest /\ TypeOfRest
  BY DEF TypeOK, TypeOfCount, TypeOfCalls, TypeOfRequest, TypeOfRest

\* The limit of requests is a number.
LEMMA Constants == MaxNoProgress \in Nat /\ MaxNoProgress >= 1
  BY QemuDeviceAssumption

\* A remainder is less than the divisor.
LEMMA Remainder ==
    ASSUME NEW n \in Nat, n >= 1, NEW a \in Nat
    PROVE  a % n \in 0 .. n - 1
  OBVIOUS

\* Every step, as a disjunction.
LEMMA Steps ==
    ASSUME [Next]_vars
    PROVE  \/ (\E r \in Requests : Post(r)) \/ Complete \/ Boot \/ Exit
           \/ RunEvent \/ Clear \/ GiveUp \/ TakeNow \/ TakeLater \/ EndFrame \/ PinLow \/ PinHigh
           \/ Tick \/ TickGoesOn \/ PauseOrResume \/ Kill \/ Restart \/ Started \/ StartTimeout
           \/ ResetDone \/ UNCHANGED vars
  BY DEF Next, Circuit, InRunEvent, Gui, Qemu

\* noProgress stays below its limit.
LEMMA CountStep ==
    ASSUME TypeOfCount, [Next]_vars
    PROVE  TypeOfCount'
<1> USE Constants DEF TypeOfCount
<1>1. CASE RunEvent \/ TakeLater
  BY <1>1 DEF RunEvent, TakeLater
<1>2. CASE TakeNow
  <2>1. noProgress + 1 \in Nat
    OBVIOUS
  <2>2. (noProgress + 1) % MaxNoProgress \in 0 .. MaxNoProgress - 1
    BY <2>1, Remainder
  <2>3. noProgress' = 0 \/ noProgress' = (noProgress + 1) % MaxNoProgress
    BY <1>2 DEF TakeNow
  <2> QED
    BY <2>2, <2>3
<1>3. CASE UNCHANGED noProgress
  BY <1>3
<1> QED
  BY <1>1, <1>2, <1>3, Steps
  DEF Post, Complete, Boot, Exit, Clear, GiveUp, EndFrame, PinLow, PinHigh, Tick, TickGoesOn,
      PauseOrResume, Kill, Restart, Started, StartTimeout, ResetDone, circuit, vars

\* What runs stamp stays at the head of the queued calls: others are added
\* behind it, and it is removed when stamp is done.
LEMMA CallsStep ==
    ASSUME TypeOfCalls, StartedByCall, [Next]_vars
    PROVE  TypeOfCalls' /\ StartedByCall'
<1> USE DEF TypeOfCalls, StartedByCall
<1>1. CASE PinLow \/ PinHigh
  BY <1>1 DEF PinLow, PinHigh
<1>2. CASE Kill \/ StartTimeout \/ ResetDone
  BY <1>2 DEF Kill, StartTimeout, ResetDone
<1>3. CASE Restart \/ Started
  BY <1>3 DEF Restart, Started
<1>4. CASE Tick \/ TickGoesOn
  BY <1>4 DEF Tick, TickGoesOn
<1>5. CASE UNCHANGED <<gui, calls>>
  BY <1>5
<1> QED
  BY <1>1, <1>2, <1>3, <1>4, <1>5, Steps
  DEF Post, Complete, Boot, Exit, RunEvent, Clear, GiveUp, TakeNow, TakeLater, EndFrame,
      PauseOrResume, control, vars

\* At first nothing is asked for and nothing runs.
LEMMA InitIInv == Init => IInv
<1> SUFFICES ASSUME Init PROVE IInv
  OBVIOUS
<1>1. TypeOfCount
  BY Constants DEF Init, TypeOfCount
<1>2. TypeOfCalls
  BY DEF Init, TypeOfCalls
<1>3. TypeOfRequest /\ TypeOfRest
  BY DEF Init, TypeOfRequest, TypeOfRest, Addresses
<1>4. StartedByCall /\ LeftIsRequest /\ FoundIsRequest /\ WatchedIsKept /\ NoEarlyAnswer
  BY DEF Init, StartedByCall, LeftIsRequest, FoundIsRequest, WatchedIsKept, NoEarlyAnswer
<1> QED
  BY <1>1, <1>2, <1>3, <1>4, TypeParts DEF IInv

-----------------------------------------------------------------------------
\* The rest of the types.

\* The other variables keep their types.
LEMMA RestStep ==
    ASSUME TypeOfRest, [Next]_vars
    PROVE  TypeOfRest'
<1> USE DEF TypeOfRest, arena, device, circuit, control, qemu
<1>1. ASSUME NEW r \in Requests, Post(r)  PROVE TypeOfRest'
  BY <1>1 DEF Post
<1>2. CASE Complete \/ Boot \/ Exit
  BY <1>2 DEF Complete, Boot, Exit
<1>3. CASE RunEvent \/ Clear \/ TakeLater \/ EndFrame
  BY <1>3 DEF RunEvent, Clear, TakeLater, EndFrame
<1>4. CASE GiveUp
  BY <1>4 DEF GiveUp
<1>5. CASE TakeNow
  BY <1>5 DEF TakeNow, limit
<1>6. CASE PinLow \/ PinHigh
  BY <1>6 DEF PinLow, PinHigh
<1>7. CASE Tick \/ TickGoesOn \/ PauseOrResume
  BY <1>7 DEF Tick, TickGoesOn, PauseOrResume
<1>8. CASE Kill \/ Restart
  BY <1>8 DEF Kill, Restart
<1>9. CASE Started \/ StartTimeout \/ ResetDone
  BY <1>9 DEF Started, StartTimeout, ResetDone
<1>10. CASE UNCHANGED vars
  BY <1>10 DEF vars
<1> QED
  BY <1>1, <1>2, <1>3, <1>4, <1>5, <1>6, <1>7, <1>8, <1>9, <1>10, Steps

-----------------------------------------------------------------------------
\* The requests.

\* What doAction makes of the arena is what QEMU posted, if a module has the
\* address,
LEMMA DoAction ==
    ASSUME TypeOfRequest, FoundIsRequest, thread = "poll", simuTime # 0, forModule,
           regAddr = "register"
    PROVE  /\ doAction = request
           /\ doAction \in {r \in Requests : r.op \in {"read", "write"}}
           /\ doAction # NoRequest
           /\ doAction.op = simuAction
           /\ doAction.address = "register"
           /\ doAction.op = "write" => doAction.value \in Values
  BY NoRequestAssumption DEF TypeOfRequest, FoundIsRequest, doAction, forModule, Requests, Addresses

\* and nothing if none has.
LEMMA DoNothing ==
    ASSUME TypeOfRequest, LeftIsRequest, FoundIsRequest, thread = "poll", simuTime # 0, forModule,
           regAddr # "register"
    PROVE  doAction = NoRequest /\ ~Promise!Served
  BY DEF TypeOfRequest, LeftIsRequest, FoundIsRequest, doAction, forModule, Requests, Addresses,
         Promise!Served

\* The part of the state that has to do with requests,
rvars == <<simuTime, simuAction, qemuAction, regAddr, regData, m_eventModule, m_ioMem, thread, request,
           watched, executed>>

\* and of the invariant.
Where == LeftIsRequest /\ FoundIsRequest /\ WatchedIsKept /\ NoEarlyAnswer

\* Most steps leave both alone.
LEMMA Aside ==
    ASSUME [Next]_vars
    PROVE  \/ \E r \in Requests : Post(r)
           \/ Complete \/ RunEvent \/ Clear \/ GiveUp \/ TakeNow \/ TakeLater \/ Restart
           \/ UNCHANGED rvars
  BY Steps
  DEF Boot, Exit, EndFrame, PinLow, PinHigh, Tick, TickGoesOn, PauseOrResume, Kill, Started,
      StartTimeout, ResetDone, rvars, arena, device, circuit, control, qemu, vars

\* Also with the process.
LEMMA AsideAll ==
    ASSUME [Next]_vars
    PROVE  \/ \E r \in Requests : Post(r)
           \/ Complete \/ Boot \/ Exit \/ RunEvent \/ Clear \/ GiveUp \/ TakeNow \/ TakeLater
           \/ Kill \/ Restart
           \/ UNCHANGED <<rvars, process>>
  BY Steps
  DEF EndFrame, PinLow, PinHigh, Tick, TickGoesOn, PauseOrResume, Started,
      StartTimeout, ResetDone, rvars, arena, device, circuit, control, qemu, vars

\* What is asked for and answered keeps its types: what runEvent finds in the
\* arena is a request.
LEMMA RequestTypeStep ==
    ASSUME TypeOfRequest, Where, [Next]_vars
    PROVE  TypeOfRequest'
<1> USE DEF TypeOfRequest, arena, device, circuit, control, qemu
<1>1. ASSUME NEW r \in Requests, Post(r)  PROVE TypeOfRequest'
  BY <1>1 DEF Post, Requests, Addresses
<1>2. CASE Complete \/ Clear \/ GiveUp \/ Restart
  BY <1>2 DEF Complete, Clear, GiveUp, Restart, Addresses
<1>3. CASE RunEvent
  BY <1>3 DEF RunEvent, runModuleEvent, Requests
<1>4. CASE TakeNow
  BY <1>4, DoAction, DoNothing DEF TakeNow, runModuleEvent, forModule, Where
<1>5. CASE TakeLater
  BY <1>5, DoAction, DoNothing DEF TakeLater, forModule, Where
<1>6. CASE UNCHANGED rvars
  BY <1>6 DEF rvars
<1> QED
  BY <1>1, <1>2, <1>3, <1>4, <1>5, <1>6, Aside

\* A request stays where it is known to be.
LEMMA WhereStep ==
    ASSUME TypeOfRequest, Where, [Next]_vars
    PROVE  Where'
<1> USE DEF TypeOfRequest, Where, LeftIsRequest, FoundIsRequest, WatchedIsKept, NoEarlyAnswer,
            Promise!Served, arena, device, circuit, control, qemu
<1>1. ASSUME NEW r \in Requests, Post(r)  PROVE Where'
  BY <1>1, NoRequestAssumption DEF Post, Requests
<1>2. CASE Complete
  BY <1>2 DEF Complete
<1>3. CASE RunEvent
  BY <1>3 DEF RunEvent, runModuleEvent
<1>4. CASE Clear
  BY <1>4 DEF Clear
<1>5. CASE GiveUp
  BY <1>5 DEF GiveUp
<1>6. CASE TakeNow
  BY <1>6, DoAction, DoNothing DEF TakeNow, runModuleEvent, forModule
<1>7. CASE TakeLater
  BY <1>7, DoAction, DoNothing DEF TakeLater, forModule
<1>8. CASE Restart
  BY <1>8 DEF Restart
<1>9. CASE UNCHANGED rvars
  BY <1>9 DEF rvars
<1> QED
  BY <1>1, <1>2, <1>3, <1>4, <1>5, <1>6, <1>7, <1>8, <1>9, Aside

\* Every step preserves the invariant.
LEMMA NextIInv ==
    ASSUME IInv, [Next]_vars
    PROVE  IInv'
<1>1. TypeOfCount' /\ TypeOfCalls' /\ StartedByCall'
  BY CountStep, CallsStep, TypeParts DEF IInv
<1>2. TypeOfRequest' /\ TypeOfRest'
  BY RequestTypeStep, RestStep, TypeParts DEF IInv, Where
<1>3. Where'
  BY WhereStep, TypeParts DEF IInv, Where
<1>4. TypeOK'
  BY <1>1, <1>2 DEF TypeOK, TypeOfCount, TypeOfCalls, TypeOfRequest, TypeOfRest
<1> QED
  BY <1>1, <1>3, <1>4 DEF IInv, Where

\* So the invariant holds.
LEMMA Invariant == Spec => []IInv
  BY InitIInv, NextIInv, PTL DEF Spec

\* Every variable has its type, for any number of requests at one moment and of
\* pulses of the reset pin.
THEOREM TypeCorrect == Spec => []TypeOK
<1>1. IInv => TypeOK
  BY DEF IInv
<1> QED
  BY <1>1, Invariant, PTL

-----------------------------------------------------------------------------
\* The refinement.

\* The initial states map to initial states.
LEMMA InitPromise == Init => Promise!Init
  BY DEF Init, Promise!Init

\* Every step maps to a step of Mailbox or to a stutter.
LEMMA NextPromise ==
    ASSUME IInv, [Next]_vars
    PROVE  [Promise!Next]_(Promise!vars)
<1>1. TypeOfRequest /\ LeftIsRequest /\ FoundIsRequest /\ WatchedIsKept /\ NoEarlyAnswer
  BY TypeParts DEF IInv
<1> USE <1>1, NoRequestAssumption
    DEF TypeOfRequest, Promise!vars, arena, device, circuit, control, qemu
<1>2. ASSUME NEW r \in Requests, Post(r)
      PROVE  Promise!Post(r) /\ r \in Promise!Requests
  <2>1. r \in Promise!Requests
    BY DEF Requests, Promise!Requests, Addresses, Promise!Addresses
  <2>2. Promise!Post(r)
    BY <1>2 DEF Post, Promise!Post
  <2> QED
    BY <2>1, <2>2
<1>3. CASE Complete
  <2>1. CASE executed
    BY <1>3, <2>1 DEF Complete, Promise!Complete, Promise!Next
  <2>2. CASE ~executed
    <3>1. request.op # "read" /\ simuTime = 0
      BY <1>3, <2>2 DEF Complete, NoEarlyAnswer
    <3>2. ~watched \/ ~Promise!Served
      BY <1>3, <2>2, <3>1 DEF Complete, WatchedIsKept
    <3> QED
      BY <1>3, <2>2, <3>1, <3>2 DEF Complete, Promise!Drop, Promise!Next
  <2> QED
    BY <2>1, <2>2
<1>4. CASE RunEvent
  <2>1. CASE m_eventModule = NoRequest
    BY <1>4, <2>1 DEF RunEvent, runModuleEvent
  <2>2. CASE m_eventModule # NoRequest
    <3>1. Promise!Execute
      BY <1>4, <2>2
      DEF RunEvent, runModuleEvent, LeftIsRequest, Promise!Execute, Promise!Served, Requests
    <3> QED
      BY <3>1 DEF Promise!Next
  <2> QED
    BY <2>1, <2>2
<1>5. CASE Clear \/ GiveUp
  BY <1>5 DEF Clear, GiveUp
<1>6. CASE TakeNow
  <2>1. CASE simuAction = "event"
    <3>1. Promise!Execute
      BY <1>6, <2>1 DEF TakeNow, FoundIsRequest, Promise!Execute, Promise!Served
    <3> QED
      BY <3>1 DEF Promise!Next
  <2>2. CASE forModule /\ regAddr = "register"
    <3>1. Promise!Execute
      BY <1>6, <2>2, DoAction
      DEF TakeNow, runModuleEvent, forModule, FoundIsRequest, Promise!Execute, Promise!Served
    <3> QED
      BY <3>1 DEF Promise!Next
  <2>3. CASE forModule /\ regAddr # "register"
    BY <1>6, <2>3, DoNothing DEF TakeNow, runModuleEvent, forModule
  <2> QED
    BY <1>6, <2>1, <2>2, <2>3 DEF TakeNow, forModule
<1>7. CASE TakeLater
  <2>1. CASE forModule
    BY <1>7, <2>1 DEF TakeLater, forModule
  <2>2. CASE ~forModule
    <3>1. Promise!Execute
      BY <1>7, <2>2 DEF TakeLater, forModule, FoundIsRequest, Promise!Execute, Promise!Served
    <3> QED
      BY <3>1 DEF Promise!Next
  <2> QED
    BY <2>1, <2>2
<1>8. CASE Restart
  BY <1>8 DEF Restart, Promise!Restart, Promise!Next
<1>9. CASE Boot
  BY <1>9 DEF Boot, Promise!Boot, Promise!Next
<1>10. CASE Exit
  BY <1>10 DEF Exit, Promise!Exit, Promise!Next
<1>11. CASE Kill
  BY <1>11 DEF Kill, Promise!Exit, Promise!Next
<1>12. CASE UNCHANGED <<rvars, process>>
  BY <1>12 DEF rvars
<1> QED
  BY <1>2, <1>3, <1>4, <1>5, <1>6, <1>7, <1>8, <1>9, <1>10, <1>11, <1>12, AsideAll DEF Promise!Next

\* The device implements Mailbox: for any values and any sessions a request is
\* executed once and before QEMU takes it for done, a read gives what was written
\* last and is never taken for done without its answer, only a request that nobody
\* was waiting for, or for an address of no module, is dropped, and only when
\* another process is started is what was asked for forgotten, and not done later.
THEOREM KeepsPromise == Spec => Implements
<1>1. Init => Promise!Init
  BY InitPromise
<1>2. IInv /\ [Next]_vars => [Promise!Next]_(Promise!vars)
  BY NextPromise
<1> QED
  BY <1>1, <1>2, Invariant, PTL DEF Spec, Implements, Promise!Spec

=============================================================================
