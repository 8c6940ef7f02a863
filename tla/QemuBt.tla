------------------------------- MODULE QemuBt -------------------------------
(***************************************************************************)
(* The Bluetooth controllers of simulated ESP devices (qemubt.cpp).        *)
(*                                                                         *)
(* A controller talks to its host, the firmware in a QEMU process, over    *)
(* two rings in shared memory: tx brings commands and ACL data, rx takes   *)
(* responses, events and data back.  The host reads and writes its end at  *)
(* any time.  The controllers meet on a medium inside the simulator: who   *)
(* advertises, who scans, who is connected to whom.  All of them run on    *)
(* one thread, one call of runTick after another, but they call each       *)
(* other: what one queues for its peer makes the peer pump, which may make *)
(* the first one pump.                                                     *)
(*                                                                         *)
(* The thread's call stack is explicit, so that the hosts' accesses come   *)
(* between any two accesses of the thread to a ring.  One step is what     *)
(* pumpTx or pumpPendingEvents does from one of them to the next.          *)
(*                                                                         *)
(* A controller stands for its own address.  Advertisements are the        *)
(* connectable ones, scanning is passive and without a duplicate filter,   *)
(* and a host sets its event masks before it advertises, scans or          *)
(* connects.  A response carries its staged action with it.                *)
(***************************************************************************)
EXTENDS Integers, Sequences, FiniteSets, FiniteSetsExt, SequencesExt

CONSTANTS
    Controllers,
    NoOne,                      \* nullptr
    RING_FRAMES,
    BEST_EFFORT_EVENT_MAX,
    RELIABLE_DATA_EVENT_MAX,
    PENDING_EVENT_MAX,
    MAX_HANDLE,                 \* 0x0EFF in the code
    Flow,                       \* the controllers whose host limits what it is sent
    AclPackets,                 \* how many packets such a host has room for
    Programs,                   \* BOUND: for each host, the choice it has for its first, second, ... command
    MaxAcl,                     \* BOUND: how many ACL packets each host sends
    Removable                   \* controllers that may be destroyed and made again

Ops == {"Reset", "FlowOn", "FlowOff", "HostBufferSize", "AdvertiseOn", "AdvertiseOff", "ScanOn", "ScanOff",
        "Create", "Cancel", "Disconnect", "ReadRemote"}

ASSUME QemuBtAssumption ==
    /\ IsFiniteSet(Controllers)
    /\ NoOne \notin Controllers
    /\ RING_FRAMES \in Nat \ {0, 1}
    /\ BEST_EFFORT_EVENT_MAX \in 0 .. PENDING_EVENT_MAX
    /\ RELIABLE_DATA_EVENT_MAX \in Nat \ {0}
    /\ PENDING_EVENT_MAX \in Nat
    /\ RELIABLE_DATA_EVENT_MAX < PENDING_EVENT_MAX
    /\ MAX_HANDLE \in Nat
    /\ MAX_HANDLE > Cardinality(Controllers)
    /\ Flow \subseteq Controllers
    /\ AclPackets \in Nat \ {0}
    /\ \A c \in Controllers : Programs[c] \in Seq(SUBSET Ops)
    /\ MaxAcl \in [Controllers -> Nat]
    /\ Removable \subseteq Controllers

VARIABLES
    airControllers,         \* the controllers there are
    airAdvertisements,      \* the owners of what is on the air
    airScanners,
    nextConnectionHandle,
    m_connection,
    m_initiation,           \* the advertiser that is waited for, NoOne if not active
    advertising,            \* m_advState.enabled
    scanning,               \* m_scanState.enabled
    controllerToHostFlow,
    hostAclPackets,
    hostAclCredits,
    m_hostAclOutstanding,   \* by handle; 0 stands for no entry
    m_pendingCommandResponse,   \* at most one
    m_pendingAcl,           \* at most one
    m_pendingEvents,
    m_pumping,
    m_pumpRequested,
    m_deferredWake,
    tx,                     \* ring from the host
    rx,                     \* ring to the host
    stack,                  \* what the thread is executing, innermost call first
    host                    \* what each host has been told, and has asked

medium == <<airControllers, airAdvertisements, airScanners, advertising, scanning>>
links == <<nextConnectionHandle, m_connection, m_initiation>>
flow == <<controllerToHostFlow, hostAclPackets>>
credits == <<hostAclCredits, m_hostAclOutstanding>>
pumps == <<m_pumping, m_pumpRequested, m_deferredWake>>
vars == <<medium, links, flow, credits, m_pendingCommandResponse, m_pendingAcl, m_pendingEvents,
          pumps, tx, rx, stack, host>>

Handles == 1 .. MAX_HANDLE
NoConnection == [peer |-> NoOne, localHandle |-> 0, peerHandle |-> 0]
NothingOutstanding == [h \in Handles |-> 0]
NewHost == [handle |-> 0, waiting |-> "nothing", sent |-> 0, completed |-> 0, heard |-> 0,
            held |-> NothingOutstanding, commands |-> 0, acls |-> 0]
Event(type, handle, n) == [type |-> type, handle |-> handle, n |-> n]

Init ==
    /\ airControllers = Controllers
    /\ airAdvertisements = {} /\ airScanners = {}
    /\ nextConnectionHandle = 1
    /\ m_connection = [c \in Controllers |-> NoConnection]
    /\ m_initiation = [c \in Controllers |-> NoOne]
    /\ advertising = [c \in Controllers |-> FALSE]
    /\ scanning = [c \in Controllers |-> FALSE]
    /\ controllerToHostFlow = [c \in Controllers |-> c \in Flow]
    /\ hostAclPackets = [c \in Controllers |-> IF c \in Flow THEN AclPackets ELSE 0]
    /\ hostAclCredits = [c \in Controllers |-> IF c \in Flow THEN AclPackets ELSE 0]
    /\ m_hostAclOutstanding = [c \in Controllers |-> NothingOutstanding]
    /\ m_pendingCommandResponse = [c \in Controllers |-> <<>>]
    /\ m_pendingAcl = [c \in Controllers |-> <<>>]
    /\ m_pendingEvents = [c \in Controllers |-> <<>>]
    /\ m_pumping = [c \in Controllers |-> FALSE]
    /\ m_pumpRequested = [c \in Controllers |-> FALSE]
    /\ m_deferredWake = [c \in Controllers |-> NoOne]
    /\ tx = [c \in Controllers |-> <<>>]
    /\ rx = [c \in Controllers |-> <<>>]
    /\ stack = <<>>
    /\ host = [c \in Controllers |-> NewHost]

-----------------------------------------------------------------------------
(***************************************************************************)
(* The thread's calls.                                                     *)
(***************************************************************************)

Call(at, c) == [at |-> at, of |-> c, todo |-> {}]

Top == Head(stack)
In(at) == stack # <<>> /\ Top.at = at

\* The innermost call goes on as next, after the calls before it.
Continue(next, before) == stack' = before \o <<next>> \o Tail(stack)
GoOn(at, before) == Continue([Top EXCEPT !.at = at], before)

Return == stack' = Tail(stack)

Full(ring) == Len(ring) = RING_FRAMES - 1

\* queueFrame, to c's entry of the queues q.
queueFrame(q, c, frame, limit) ==
    IF Len(q[c]) < limit THEN [q EXCEPT ![c] = Append(@, frame)] ELSE q

queueReliable(q, c, frame) == queueFrame(q, c, frame, PENDING_EVENT_MAX)

(***************************************************************************)
(* Connections.                                                            *)
(***************************************************************************)

Connected(c) == m_connection[c].peer # NoOne

used == {m_connection[c].localHandle : c \in airControllers}

\* allocateHandle, with nextConnectionHandle at n; there are more handles than controllers.
allocateHandle(n) ==
    LET free == Handles \ used
        ahead == {h \in free : h >= n}
    IN  Min(IF ahead # {} THEN ahead ELSE free)

after(h) == IF h = MAX_HANDLE THEN 1 ELSE h + 1

\* tryPendingConnection and completeConnection: c initiates, p advertises.  Without room for
\* the news nothing has happened but to nextConnectionHandle.
MayConnect(c, p) ==
    /\ m_initiation[c] = p
    /\ p \in airAdvertisements \ {c}
    /\ ~ Connected(c) /\ ~ Connected(p)

completeConnection(c, p, next) ==
    LET centralHandle == allocateHandle(nextConnectionHandle)
        peripheralHandle == allocateHandle(after(centralHandle))
    IN
    /\ nextConnectionHandle' = after(peripheralHandle)
    /\ IF /\ Len(m_pendingEvents[c]) < PENDING_EVENT_MAX
          /\ Len(m_pendingEvents[p]) < PENDING_EVENT_MAX
       THEN /\ m_connection' = [m_connection EXCEPT
                  ![c] = [peer |-> p, localHandle |-> centralHandle, peerHandle |-> peripheralHandle],
                  ![p] = [peer |-> c, localHandle |-> peripheralHandle, peerHandle |-> centralHandle]]
            /\ m_initiation' = [m_initiation EXCEPT ![c] = NoOne]
            /\ advertising' = [advertising EXCEPT ![p] = FALSE]
            /\ airAdvertisements' = airAdvertisements \ {p}
            /\ m_pendingEvents' = [m_pendingEvents EXCEPT
                  ![c] = Append(@, Event("connected", centralHandle, 1)),
                  ![p] = Append(@, Event("connected", peripheralHandle, 1))]
            /\ Continue(next, <<Call("drain", c), Call("drain", p)>>)
       ELSE /\ m_initiation' = [m_initiation EXCEPT ![c] = p]
            /\ Continue(next, <<>>)
            /\ UNCHANGED <<m_connection, advertising, airAdvertisements, m_pendingEvents>>

\* What teardownConnection queues on c's side.
Disconnected(c) == Event("disconnected", m_connection[c].localHandle, 0)

(***************************************************************************)
(* ACL data.                                                               *)
(***************************************************************************)

\* MUTANT of Live: any handle will do.
LiveAnyHandle(c, frame) == Connected(c)

Live(c, frame) == Connected(c) /\ frame.handle = m_connection[c].localHandle

\* MUTANT of Blocked: one packet more on the peer's side.
BlockedLate(c) ==
    LET p == m_connection[c].peer IN
    \/ controllerToHostFlow[p] /\ hostAclCredits[p] = 0
    \/ Len(m_pendingEvents[p]) > RELIABLE_DATA_EVENT_MAX
    \/ Len(m_pendingEvents[c]) >= RELIABLE_DATA_EVENT_MAX

\* handleAclFrame has to wait: no credit, or no room on either side.
Blocked(c) ==
    LET p == m_connection[c].peer IN
    \/ controllerToHostFlow[p] /\ hostAclCredits[p] = 0
    \/ Len(m_pendingEvents[p]) >= RELIABLE_DATA_EVENT_MAX
    \/ Len(m_pendingEvents[c]) >= RELIABLE_DATA_EVENT_MAX

\* MUTANT of Route: the packet is entered under the sender's handle.
RouteUnderOwnHandle(c, frame) ==
    LET p == m_connection[c].peer
        h == m_connection[c].peerHandle
    IN
    /\ IF controllerToHostFlow[p]
       THEN /\ hostAclCredits' = [hostAclCredits EXCEPT ![p] = @ - 1]
            /\ m_hostAclOutstanding' = [m_hostAclOutstanding EXCEPT ![p][m_connection[c].localHandle] = @ + 1]
       ELSE UNCHANGED credits
    /\ m_pendingEvents' =
          queueReliable(queueReliable(m_pendingEvents, p, Event("acl", h, frame.n)),
                        c, Event("completed", frame.handle, 1))

\* handleAclFrame forwards a frame.
Route(c, frame) ==
    LET p == m_connection[c].peer
        h == m_connection[c].peerHandle
    IN
    /\ IF controllerToHostFlow[p]
       THEN /\ hostAclCredits' = [hostAclCredits EXCEPT ![p] = @ - 1]
            /\ m_hostAclOutstanding' = [m_hostAclOutstanding EXCEPT ![p][m_connection[p].localHandle] = @ + 1]
       ELSE UNCHANGED credits
    /\ m_pendingEvents' =
          queueReliable(queueReliable(m_pendingEvents, p, Event("acl", h, frame.n)),
                        c, Event("completed", frame.handle, 1))

(***************************************************************************)
(* pumpTx.                                                                 *)
(***************************************************************************)

\* From the top to the end of tryPendingAcl.
PumpTx ==
    /\ In("pump")
    /\ LET c == Top.of
           acl == m_pendingAcl[c]
       IN
       \/ /\ m_pumping[c]
          /\ m_pumpRequested' = [m_pumpRequested EXCEPT ![c] = TRUE]
          /\ Return
          /\ UNCHANGED <<m_pumping, m_pendingAcl, m_pendingEvents, credits>>
       \/ /\ ~ m_pumping[c]
          /\ m_pumping' = [m_pumping EXCEPT ![c] = TRUE]
          /\ UNCHANGED m_pumpRequested
          /\ \/ /\ acl # <<>> => Live(c, acl[1]) /\ Blocked(c)
                /\ GoOn("events", <<>>)
                /\ UNCHANGED <<m_pendingAcl, m_pendingEvents, credits>>
             \/ /\ acl # <<>> /\ ~ Live(c, acl[1])
                /\ m_pendingAcl' = [m_pendingAcl EXCEPT ![c] = <<>>]
                /\ GoOn("events", <<>>)
                /\ UNCHANGED <<m_pendingEvents, credits>>
             \/ /\ acl # <<>> /\ Live(c, acl[1]) /\ ~ Blocked(c)
                /\ m_pendingAcl' = [m_pendingAcl EXCEPT ![c] = <<>>]
                /\ Route(c, acl[1])
                /\ GoOn("events", <<Call("drain", m_connection[c].peer)>>)
    /\ UNCHANGED <<medium, links, flow, m_pendingCommandResponse, m_deferredWake, tx, rx, host>>

\* Events go before commands, but not before a response that is already there.
PumpEvents ==
    /\ In("events")
    /\ IF m_pendingCommandResponse[Top.of] = <<>>
       THEN GoOn("check", <<Call("drain", Top.of)>>)
       ELSE GoOn("loop", <<>>)
    /\ UNCHANGED <<medium, links, flow, credits, m_pendingCommandResponse, m_pendingAcl, m_pendingEvents,
                   pumps, tx, rx, host>>

\* The thread is at the top of the loop, with a frame in the ring or without.
AtLoop == \/ In("loop")
          \/ In("check") /\ m_pendingEvents[Top.of] = <<>>

\* goto done: nothing more to read, or events that do not fit.
Leave ==
    /\ \/ AtLoop /\ tx[Top.of] = <<>>
       \/ In("check") /\ m_pendingEvents[Top.of] # <<>>
       \/ /\ AtLoop /\ tx[Top.of] # <<>> /\ m_pendingCommandResponse[Top.of] = <<>>
          /\ Head(tx[Top.of]).type = "acl" /\ m_pendingAcl[Top.of] # <<>>
          /\ Live(Top.of, Head(tx[Top.of])) /\ Blocked(Top.of)
    /\ GoOn("done", <<>>)
    /\ UNCHANGED <<medium, links, flow, credits, m_pendingCommandResponse, m_pendingAcl, m_pendingEvents,
                   pumps, tx, rx, host>>

\* handleAclFrame, for a frame in the ring.
PumpAcl ==
    /\ AtLoop /\ tx[Top.of] # <<>> /\ m_pendingCommandResponse[Top.of] = <<>>
    /\ LET c == Top.of
           frame == Head(tx[c])
       IN
       /\ frame.type = "acl"
       /\ \/ /\ ~ Live(c, frame)
             /\ GoOn("read", <<>>)
             /\ UNCHANGED <<m_pendingAcl, m_pendingEvents, credits>>
          \/ /\ Live(c, frame) /\ Blocked(c) /\ m_pendingAcl[c] = <<>>
             /\ m_pendingAcl' = [m_pendingAcl EXCEPT ![c] = <<frame>>]
             /\ GoOn("read", <<>>)
             /\ UNCHANGED <<m_pendingEvents, credits>>
          \/ /\ Live(c, frame) /\ ~ Blocked(c)
             /\ Route(c, frame)
             /\ GoOn("read", <<Call("drain", m_connection[c].peer)>>)
             /\ UNCHANGED m_pendingAcl
    /\ UNCHANGED <<medium, links, flow, m_pendingCommandResponse, pumps, tx, rx, host>>

\* The frame has been dealt with: ring->head moves on, and events go out.
PumpRead ==
    /\ In("read")
    /\ tx' = [tx EXCEPT ![Top.of] = Tail(@)]
    /\ GoOn("check", <<Call("drain", Top.of)>>)
    /\ UNCHANGED <<medium, links, flow, credits, m_pendingCommandResponse, m_pendingAcl, m_pendingEvents,
                   pumps, rx, host>>

\* MUTANT of HostCompletedPackets: the last packet is not taken back.
HostCompletedPacketsOffByOne ==
    /\ AtLoop /\ tx[Top.of] # <<>> /\ m_pendingCommandResponse[Top.of] = <<>>
    /\ LET c == Top.of
           frame == Head(tx[c])
           h == frame.handle
       IN
       /\ frame.type = "returned"
       /\ IF /\ frame.n < m_hostAclOutstanding[c][h]
             /\ frame.n <= hostAclPackets[c] - hostAclCredits[c]
          THEN /\ hostAclCredits' = [hostAclCredits EXCEPT ![c] = @ + frame.n]
               /\ m_hostAclOutstanding' = [m_hostAclOutstanding EXCEPT ![c][h] = @ - frame.n]
               /\ m_deferredWake' = [m_deferredWake EXCEPT
                      ![c] = IF frame.n > 0 /\ Connected(c) THEN m_connection[c].peer ELSE @]
          ELSE UNCHANGED <<credits, m_deferredWake>>
       /\ tx' = [tx EXCEPT ![c] = Tail(@)]
       /\ GoOn("loop", <<>>)
    /\ UNCHANGED <<medium, links, flow, m_pendingCommandResponse, m_pendingAcl, m_pendingEvents,
                   m_pumping, m_pumpRequested, rx, host>>

\* handleHostCompletedPackets, for one handle and a count that may be wrong.
HostCompletedPackets ==
    /\ AtLoop /\ tx[Top.of] # <<>> /\ m_pendingCommandResponse[Top.of] = <<>>
    /\ LET c == Top.of
           frame == Head(tx[c])
           h == frame.handle
       IN
       /\ frame.type = "returned"
       /\ IF /\ frame.n <= m_hostAclOutstanding[c][h]
             /\ frame.n <= hostAclPackets[c] - hostAclCredits[c]
          THEN /\ hostAclCredits' = [hostAclCredits EXCEPT ![c] = @ + frame.n]
               /\ m_hostAclOutstanding' = [m_hostAclOutstanding EXCEPT ![c][h] = @ - frame.n]
               /\ m_deferredWake' = [m_deferredWake EXCEPT
                      ![c] = IF frame.n > 0 /\ Connected(c) THEN m_connection[c].peer ELSE @]
          ELSE UNCHANGED <<credits, m_deferredWake>>
       /\ tx' = [tx EXCEPT ![c] = Tail(@)]
       /\ GoOn("loop", <<>>)
    /\ UNCHANGED <<medium, links, flow, m_pendingCommandResponse, m_pendingAcl, m_pendingEvents,
                   m_pumping, m_pumpRequested, rx, host>>

(***************************************************************************)
(* Commands.                                                               *)
(***************************************************************************)

\* The status dispatchCommand finds, HCI_SUCCESS or not.
Accepted(c, command) ==
    CASE command.op = "HostBufferSize" -> m_hostAclOutstanding[c] = NothingOutstanding /\ ~ Connected(c)
      [] command.op = "AdvertiseOn" -> ~ advertising[c]
      [] command.op = "ScanOn" -> ~ scanning[c]
      [] command.op = "Create" -> ~ Connected(c) /\ m_initiation[c] = NoOne
      [] command.op = "Cancel" -> m_initiation[c] # NoOne
      [] command.op \in {"Disconnect", "ReadRemote"} -> Live(c, [handle |-> command.arg])
      [] OTHER -> TRUE

DispatchCommand ==
    /\ AtLoop /\ tx[Top.of] # <<>> /\ m_pendingCommandResponse[Top.of] = <<>>
    /\ LET c == Top.of
           command == Head(tx[c])
       IN
       /\ command.type = "command"
       /\ m_pendingCommandResponse' = [m_pendingCommandResponse EXCEPT
             ![c] = <<[op |-> command.op, arg |-> command.arg, ok |-> Accepted(c, command)]>>]
    /\ GoOn("respond", <<>>)
    /\ UNCHANGED <<medium, links, flow, credits, m_pendingAcl, m_pendingEvents, pumps, tx, rx, host>>

\* The response is pushed, or waits for room in the ring; what it reports is committed only then.
Responding ==
    /\ \/ In("respond")
       \/ AtLoop /\ tx[Top.of] # <<>> /\ m_pendingCommandResponse[Top.of] # <<>>

ResponseWaits ==
    /\ Responding /\ Full(rx[Top.of])
    /\ GoOn("done", <<>>)
    /\ UNCHANGED <<medium, links, flow, credits, m_pendingCommandResponse, m_pendingAcl, m_pendingEvents,
                   pumps, tx, rx, host>>

\* c pushes a response to one of the commands ops, which is then no longer pending.
Responds(c, ops, ok) ==
    /\ Responding /\ ~ Full(rx[c])
    /\ c = Top.of
    /\ LET response == m_pendingCommandResponse[c][1] IN
       /\ response.op \in ops
       /\ response.ok = ok
       /\ rx' = [rx EXCEPT ![c] = Append(@, [type |-> "response", op |-> response.op, ok |-> ok])]
    /\ UNCHANGED <<m_pumping, m_pumpRequested, m_deferredWake, host>>

Answered(c) == m_pendingCommandResponse' = [m_pendingCommandResponse EXCEPT ![c] = <<>>]

Refuse(c) ==
    /\ Responds(c, Ops, FALSE)
    /\ Answered(c)
    /\ tx' = [tx EXCEPT ![c] = Tail(@)]
    /\ GoOn("check", <<Call("drain", c)>>)
    /\ UNCHANGED <<medium, links, flow, credits, m_pendingAcl, m_pendingEvents>>

(***************************************************************************)
(* commitPendingAction, one action for each kind of command.               *)
(***************************************************************************)

Switch(op, on, off, old) == op = on \/ (op # off /\ old)

CommitState(c) ==
    /\ Responds(c, {"FlowOn", "FlowOff", "HostBufferSize", "AdvertiseOn", "AdvertiseOff", "ScanOn", "ScanOff"}, TRUE)
    /\ LET response == m_pendingCommandResponse[c][1] IN
       /\ controllerToHostFlow' = [controllerToHostFlow EXCEPT
              ![c] = Switch(response.op, "FlowOn", "FlowOff", @)]
       /\ IF response.op = "HostBufferSize"
          THEN /\ hostAclPackets' = [hostAclPackets EXCEPT ![c] = response.arg]
               /\ hostAclCredits' = [hostAclCredits EXCEPT ![c] = response.arg]
          ELSE UNCHANGED <<hostAclPackets, hostAclCredits>>
       /\ advertising' = [advertising EXCEPT
              ![c] = Switch(response.op, "AdvertiseOn", "AdvertiseOff", @)]
       /\ scanning' = [scanning EXCEPT ![c] = Switch(response.op, "ScanOn", "ScanOff", @)]
    /\ Answered(c)
    /\ GoOn("committed", <<>>)
    /\ UNCHANGED <<airControllers, airAdvertisements, airScanners, links, m_hostAclOutstanding,
                   m_pendingAcl, m_pendingEvents, tx>>

\* MUTANT of Detach: what is on the air stays there.
DetachOnAir(c, at) ==
    LET p == m_connection[c].peer IN
    /\ UNCHANGED <<airAdvertisements, airScanners>>
    /\ advertising' = [advertising EXCEPT ![c] = FALSE]
    /\ scanning' = [scanning EXCEPT ![c] = FALSE]
    /\ m_initiation' = [m_initiation EXCEPT ![c] = NoOne]
    /\ controllerToHostFlow' = [controllerToHostFlow EXCEPT ![c] = FALSE]
    /\ hostAclPackets' = [hostAclPackets EXCEPT ![c] = 0]
    /\ hostAclCredits' = [hostAclCredits EXCEPT ![c] = 0]
    /\ m_hostAclOutstanding' = [m_hostAclOutstanding EXCEPT ![c] = NothingOutstanding]
    /\ m_pendingCommandResponse' = [m_pendingCommandResponse EXCEPT ![c] = <<>>]
    /\ m_pendingAcl' = [m_pendingAcl EXCEPT ![c] = <<>>]
    /\ m_connection' = [d \in Controllers |-> IF d \in {c, p} THEN NoConnection ELSE m_connection[d]]
    /\ LET cleared == [m_pendingEvents EXCEPT ![c] = <<>>] IN
       m_pendingEvents' = IF Connected(c) THEN queueReliable(cleared, p, Disconnected(p)) ELSE cleared
    /\ stack' = (IF Connected(c) THEN <<Call("drain", p)>> ELSE <<>>) \o at
    /\ UNCHANGED nextConnectionHandle

\* MUTANT of Detach: the peer keeps its end of the connection.
DetachOneSided(c, at) ==
    LET p == m_connection[c].peer IN
    /\ airAdvertisements' = airAdvertisements \ {c}
    /\ airScanners' = airScanners \ {c}
    /\ advertising' = [advertising EXCEPT ![c] = FALSE]
    /\ scanning' = [scanning EXCEPT ![c] = FALSE]
    /\ m_initiation' = [m_initiation EXCEPT ![c] = NoOne]
    /\ controllerToHostFlow' = [controllerToHostFlow EXCEPT ![c] = FALSE]
    /\ hostAclPackets' = [hostAclPackets EXCEPT ![c] = 0]
    /\ hostAclCredits' = [hostAclCredits EXCEPT ![c] = 0]
    /\ m_hostAclOutstanding' = [m_hostAclOutstanding EXCEPT ![c] = NothingOutstanding]
    /\ m_pendingCommandResponse' = [m_pendingCommandResponse EXCEPT ![c] = <<>>]
    /\ m_pendingAcl' = [m_pendingAcl EXCEPT ![c] = <<>>]
    /\ m_connection' = [d \in Controllers |-> IF d = c THEN NoConnection ELSE m_connection[d]]
    /\ LET cleared == [m_pendingEvents EXCEPT ![c] = <<>>] IN
       m_pendingEvents' = IF Connected(c) THEN queueReliable(cleared, p, Disconnected(p)) ELSE cleared
    /\ stack' = (IF Connected(c) THEN <<Call("drain", p)>> ELSE <<>>) \o at
    /\ UNCHANGED nextConnectionHandle

\* detachFromMedium and clearProcedureState; the peer is told.
Detach(c, at) ==
    LET p == m_connection[c].peer IN
    /\ airAdvertisements' = airAdvertisements \ {c}
    /\ airScanners' = airScanners \ {c}
    /\ advertising' = [advertising EXCEPT ![c] = FALSE]
    /\ scanning' = [scanning EXCEPT ![c] = FALSE]
    /\ m_initiation' = [m_initiation EXCEPT ![c] = NoOne]
    /\ controllerToHostFlow' = [controllerToHostFlow EXCEPT ![c] = FALSE]
    /\ hostAclPackets' = [hostAclPackets EXCEPT ![c] = 0]
    /\ hostAclCredits' = [hostAclCredits EXCEPT ![c] = 0]
    /\ m_hostAclOutstanding' = [m_hostAclOutstanding EXCEPT ![c] = NothingOutstanding]
    /\ m_pendingCommandResponse' = [m_pendingCommandResponse EXCEPT ![c] = <<>>]
    /\ m_pendingAcl' = [m_pendingAcl EXCEPT ![c] = <<>>]
    /\ m_connection' = [d \in Controllers |-> IF d \in {c, p} THEN NoConnection ELSE m_connection[d]]
    /\ LET cleared == [m_pendingEvents EXCEPT ![c] = <<>>] IN
       m_pendingEvents' = IF Connected(c) THEN queueReliable(cleared, p, Disconnected(p)) ELSE cleared
    /\ stack' = (IF Connected(c) THEN <<Call("drain", p)>> ELSE <<>>) \o at
    /\ UNCHANGED nextConnectionHandle

CommitReset(c) ==
    /\ Responds(c, {"Reset"}, TRUE)
    /\ Detach(c, <<[Top EXCEPT !.at = "committed"]>> \o Tail(stack))
    /\ UNCHANGED <<airControllers, tx>>

\* MUTANT of CommitCreate: the advertisements that are there already are not looked at.
CommitCreateWaiting(c) ==
    /\ Responds(c, {"Create"}, TRUE)
    /\ Answered(c)
    /\ m_initiation' = [m_initiation EXCEPT ![c] = m_pendingCommandResponse[c][1].arg]
    /\ GoOn("committed", <<>>)
    /\ UNCHANGED <<medium, nextConnectionHandle, m_connection, flow, credits, m_pendingAcl, m_pendingEvents, tx>>

\* StartInitiation: the advertiser may be there already.
CommitCreate(c) ==
    /\ Responds(c, {"Create"}, TRUE)
    /\ Answered(c)
    /\ LET p == m_pendingCommandResponse[c][1].arg IN
       IF p \in airAdvertisements \ {c} /\ ~ Connected(c) /\ ~ Connected(p)
       THEN completeConnection(c, p, [Top EXCEPT !.at = "committed"])
       ELSE /\ m_initiation' = [m_initiation EXCEPT ![c] = p]
            /\ GoOn("committed", <<>>)
            /\ UNCHANGED <<nextConnectionHandle, m_connection, advertising, airAdvertisements, m_pendingEvents>>
    /\ UNCHANGED <<airControllers, airScanners, scanning, flow, credits, m_pendingAcl, tx>>

\* CancelInitiation: Connection Complete with an error ends the procedure.
CommitCancel(c) ==
    /\ Responds(c, {"Cancel"}, TRUE)
    /\ Answered(c)
    /\ m_initiation' = [m_initiation EXCEPT ![c] = NoOne]
    /\ m_pendingEvents' = queueReliable(m_pendingEvents, c, Event("connected", 0, 0))
    /\ GoOn("committed", <<>>)
    /\ UNCHANGED <<medium, nextConnectionHandle, m_connection, flow, credits, m_pendingAcl, tx>>

\* MUTANT of CommitDisconnect: only the peer is told.
CommitDisconnectSilent(c) ==
    /\ Responds(c, {"Disconnect"}, TRUE)
    /\ Answered(c)
    /\ LET p == m_connection[c].peer IN
       IF Connected(c)
       THEN /\ m_connection' = [m_connection EXCEPT ![c] = NoConnection, ![p] = NoConnection]
            /\ m_pendingEvents' = queueReliable(m_pendingEvents, p, Disconnected(p))
            /\ GoOn("committed", <<Call("drain", p)>>)
       ELSE /\ GoOn("committed", <<>>)
            /\ UNCHANGED <<m_connection, m_pendingEvents>>
    /\ UNCHANGED <<medium, nextConnectionHandle, m_initiation, flow, credits, m_pendingAcl, tx>>

\* DisconnectConnection ends the connection there is by now.
CommitDisconnect(c) ==
    /\ Responds(c, {"Disconnect"}, TRUE)
    /\ Answered(c)
    /\ LET p == m_connection[c].peer IN
       IF Connected(c)
       THEN /\ m_connection' = [m_connection EXCEPT ![c] = NoConnection, ![p] = NoConnection]
            /\ m_pendingEvents' =
                  queueReliable(queueReliable(m_pendingEvents, c, Disconnected(c)), p, Disconnected(p))
            /\ GoOn("committed", <<Call("drain", p)>>)
       ELSE /\ GoOn("committed", <<>>)
            /\ UNCHANGED <<m_connection, m_pendingEvents>>
    /\ UNCHANGED <<medium, nextConnectionHandle, m_initiation, flow, credits, m_pendingAcl, tx>>

CommitReadRemote(c) ==
    /\ Responds(c, {"ReadRemote"}, TRUE)
    /\ Answered(c)
    /\ m_pendingEvents' =
          queueReliable(m_pendingEvents, c, Event("remote", m_pendingCommandResponse[c][1].arg, 0))
    /\ GoOn("committed", <<>>)
    /\ UNCHANGED <<medium, links, flow, credits, m_pendingAcl, tx>>

(***************************************************************************)
(* pumpTx after the commit: the medium hears of it.                        *)
(***************************************************************************)

Report == Event("report", 0, 0)

\* queueAdvertisingReport for each of n advertisements.
queueReports(q, c, n) ==
    LET fit == Min({n, Max({0, BEST_EFFORT_EVENT_MAX - Len(q[c])})})
    IN  [q EXCEPT ![c] = @ \o [i \in 1 .. fit |-> Report]]

\* What is left of a queue without its reports.
withoutReports(queue) ==
    LET left[n \in 0 .. Len(queue)] ==
            IF n = 0 THEN <<>>
            ELSE IF queue[n].type = "report" THEN left[n - 1]
            ELSE Append(left[n - 1], queue[n])
    IN  left[Len(queue)]

dropBestEffortEvents(q, c) == [q EXCEPT ![c] = withoutReports(@)]

PumpCommitted ==
    /\ In("committed")
    /\ LET c == Top.of
           op == Head(tx[c]).op
       IN
       /\ tx' = [tx EXCEPT ![c] = Tail(@)]
       /\ \/ /\ op \in {"AdvertiseOn", "AdvertiseOff"} /\ advertising[c]
             /\ airAdvertisements' = airAdvertisements \union {c}
             /\ Continue([at |-> "scanners", of |-> c, todo |-> airScanners \ {c}], <<>>)
             /\ UNCHANGED <<airScanners, m_pendingEvents>>
          \/ /\ op \in {"AdvertiseOn", "AdvertiseOff"} /\ ~ advertising[c]
             /\ airAdvertisements' = airAdvertisements \ {c}
             /\ GoOn("check", <<Call("drain", c)>>)
             /\ UNCHANGED <<airScanners, m_pendingEvents>>
          \/ /\ op \in {"ScanOn", "ScanOff"} /\ scanning[c]
             /\ airScanners' = airScanners \union {c}
             /\ m_pendingEvents' = queueReports(m_pendingEvents, c, Cardinality(airAdvertisements \ {c}))
             /\ GoOn("check", <<Call("drain", c)>>)
             /\ UNCHANGED airAdvertisements
          \/ /\ op \in {"ScanOn", "ScanOff"} /\ ~ scanning[c]
             /\ airScanners' = airScanners \ {c}
             /\ m_pendingEvents' = dropBestEffortEvents(m_pendingEvents, c)
             /\ GoOn("check", <<Call("drain", c)>>)
             /\ UNCHANGED airAdvertisements
          \/ /\ op \notin {"AdvertiseOn", "AdvertiseOff", "ScanOn", "ScanOff"}
             /\ GoOn("check", <<Call("drain", c)>>)
             /\ UNCHANGED <<airAdvertisements, airScanners, m_pendingEvents>>
    /\ UNCHANGED <<airControllers, advertising, scanning, links, flow, credits, m_pendingCommandResponse,
                   m_pendingAcl, pumps, rx, host>>

\* publishAdvertisement: each scanner gets a report, in some order.
PublishToScanners ==
    /\ In("scanners")
    /\ \/ \E s \in Top.todo :
             /\ m_pendingEvents' = queueReports(m_pendingEvents, s, IF scanning[s] THEN 1 ELSE 0)
             /\ Continue([Top EXCEPT !.todo = @ \ {s}], <<Call("drain", s)>>)
       \/ /\ Top.todo = {}
          /\ Continue([at |-> "initiators", of |-> Top.of, todo |-> airControllers \ {Top.of}], <<>>)
          /\ UNCHANGED m_pendingEvents
    /\ UNCHANGED <<medium, links, flow, credits, m_pendingCommandResponse, m_pendingAcl, pumps, tx, rx, host>>

\* publishAdvertisement: each other controller tries to connect.
PublishToInitiators ==
    /\ In("initiators")
    /\ \/ \E d \in Top.todo :
             LET next == [Top EXCEPT !.todo = @ \ {d}] IN
             IF MayConnect(d, m_initiation[d])
             THEN completeConnection(d, m_initiation[d], next)
             ELSE /\ Continue(next, <<>>)
                  /\ UNCHANGED <<links, advertising, airAdvertisements, m_pendingEvents>>
       \/ /\ Top.todo = {}
          /\ GoOn("check", <<Call("drain", Top.of)>>)
          /\ UNCHANGED <<links, advertising, airAdvertisements, m_pendingEvents>>
    /\ UNCHANGED <<airControllers, airScanners, scanning, flow, credits, m_pendingCommandResponse,
                   m_pendingAcl, pumps, tx, rx, host>>

\* done: the deferred wake, then the pump that was asked for meanwhile.
Done ==
    /\ In("done")
    /\ LET c == Top.of
           w == m_deferredWake[c]
       IN
       /\ m_pumping' = [m_pumping EXCEPT ![c] = FALSE]
       /\ m_deferredWake' = [m_deferredWake EXCEPT ![c] = NoOne]
       /\ GoOn("again", IF w \in airControllers THEN <<Call("pump", w)>> ELSE <<>>)
    /\ UNCHANGED <<medium, links, flow, credits, m_pendingCommandResponse, m_pendingAcl, m_pendingEvents,
                   m_pumpRequested, tx, rx, host>>

PumpAgain ==
    /\ In("again")
    /\ m_pumpRequested' = [m_pumpRequested EXCEPT ![Top.of] = FALSE]
    /\ IF m_pumpRequested[Top.of] THEN GoOn("pump", <<>>) ELSE Return
    /\ UNCHANGED <<medium, links, flow, credits, m_pendingCommandResponse, m_pendingAcl, m_pendingEvents,
                   m_pumping, m_deferredWake, tx, rx, host>>

(***************************************************************************)
(* pumpPendingEvents: "drain" is its start, "draining" the rest of it.     *)
(***************************************************************************)

Draining == In("drain") \/ In("draining")

PushEvent ==
    /\ Draining
    /\ LET c == Top.of IN
       /\ m_pendingEvents[c] # <<>>
       /\ ~ Full(rx[c])
       /\ rx' = [rx EXCEPT ![c] = Append(@, Head(m_pendingEvents[c]))]
       /\ m_pendingEvents' = [m_pendingEvents EXCEPT ![c] = Tail(@)]
    /\ GoOn("draining", <<>>)
    /\ UNCHANGED <<medium, links, flow, credits, m_pendingCommandResponse, m_pendingAcl, pumps, tx, host>>

\* No event, or no room for it.
EndDrain ==
    /\ Draining
    /\ \/ m_pendingEvents[Top.of] = <<>> /\ In("drain")
       \/ m_pendingEvents[Top.of] # <<>> /\ Full(rx[Top.of])
    /\ Return
    /\ UNCHANGED <<medium, links, flow, credits, m_pendingCommandResponse, m_pendingAcl, m_pendingEvents,
                   pumps, tx, rx, host>>

\* All events have gone out: the peer may be waiting for that with a packet.
Drained ==
    /\ In("draining")
    /\ m_pendingEvents[Top.of] = <<>>
    /\ LET p == m_connection[Top.of].peer IN
       IF p \in airControllers /\ m_pendingAcl[p] # <<>>
       THEN Continue(Call("pump", p), <<>>)
       ELSE Return
    /\ UNCHANGED <<medium, links, flow, credits, m_pendingCommandResponse, m_pendingAcl, m_pendingEvents,
                   pumps, tx, rx, host>>

(***************************************************************************)
(* The thread is called, and controllers come and go.                      *)
(***************************************************************************)

\* With nothing to do runTick comes back without a change.
HasWork(c) == tx[c] # <<>> \/ m_pendingEvents[c] # <<>> \/ m_pendingAcl[c] # <<>>

RunTick(c) ==
    /\ stack = <<>>
    /\ c \in airControllers
    /\ HasWork(c)
    /\ stack' = <<Call("pump", c)>>
    /\ UNCHANGED <<medium, links, flow, credits, m_pendingCommandResponse, m_pendingAcl, m_pendingEvents,
                   pumps, tx, rx, host>>

Destroy(c) ==
    /\ stack = <<>>
    /\ c \in airControllers \intersect Removable
    /\ Detach(c, <<>>)
    /\ airControllers' = airControllers \ {c}
    /\ tx' = [tx EXCEPT ![c] = <<>>]
    /\ rx' = [rx EXCEPT ![c] = <<>>]
    /\ host' = [host EXCEPT ![c] = [NewHost EXCEPT !.commands = host[c].commands, !.acls = host[c].acls]]
    /\ UNCHANGED pumps

Construct(c) ==
    /\ stack = <<>>
    /\ c \notin airControllers
    /\ airControllers' = airControllers \union {c}
    /\ UNCHANGED <<airAdvertisements, airScanners, advertising, scanning, links, flow, credits,
                   m_pendingCommandResponse, m_pendingAcl, m_pendingEvents, pumps, tx, rx, stack, host>>

-----------------------------------------------------------------------------
(***************************************************************************)
(* The hosts.  A host waits for the response to a command before the next  *)
(* command, uses the handle it has been told, sends one packet and waits   *)
(* for its completion (handleLeReadBufferSize), and gives back every       *)
(* packet it was sent.                                                     *)
(***************************************************************************)

HostPuts(c, frame) ==
    /\ c \in airControllers
    /\ host[c].waiting # "Reset"
    /\ ~ Full(tx[c])
    /\ tx' = [tx EXCEPT ![c] = Append(@, frame)]
    /\ UNCHANGED <<medium, links, flow, credits, m_pendingCommandResponse, m_pendingAcl, m_pendingEvents,
                   pumps, rx, stack>>

Arguments(c, op) ==
    CASE op = "Create" -> Controllers \ {c}
      [] op \in {"Disconnect", "ReadRemote"} -> {host[c].handle} \ {0}
      [] op = "HostBufferSize" -> {AclPackets}
      [] OTHER -> {0}

HostCommand(c) ==
    /\ host[c].waiting = "nothing"
    /\ host[c].commands < Len(Programs[c])
    /\ \E op \in Programs[c][host[c].commands + 1] : \E arg \in Arguments(c, op) :
          /\ HostPuts(c, [type |-> "command", op |-> op, arg |-> arg])
          /\ host' = [host EXCEPT ![c].waiting = op, ![c].commands = @ + 1]

HostAcl(c) ==
    /\ host[c].handle # 0
    /\ host[c].sent = host[c].completed
    /\ host[c].acls < MaxAcl[c]
    /\ HostPuts(c, [type |-> "acl", handle |-> host[c].handle, n |-> host[c].sent + 1])
    /\ host' = [host EXCEPT ![c].sent = @ + 1, ![c].acls = @ + 1]

HostReturns(c) ==
    \E h \in Handles :
        /\ host[c].held[h] > 0
        /\ HostPuts(c, [type |-> "returned", handle |-> h, n |-> 1])
        /\ host' = [host EXCEPT ![c].held[h] = @ - 1]

HostReads(c) ==
    /\ rx[c] # <<>>
    /\ rx' = [rx EXCEPT ![c] = Tail(@)]
    /\ LET frame == Head(rx[c])
           NewLink(h) == [host[c] EXCEPT !.handle = h, !.sent = 0, !.completed = 0, !.heard = 0]
       IN
       host' = [host EXCEPT ![c] =
          CASE frame.type = "response" /\ (frame.op # "Reset" \/ ~ frame.ok) -> [host[c] EXCEPT !.waiting = "nothing"]
            [] frame.type = "response" /\ frame.op = "Reset" /\ frame.ok ->
                  [NewHost EXCEPT !.commands = host[c].commands, !.acls = host[c].acls]
            [] frame.type = "connected" /\ frame.n = 1 -> NewLink(frame.handle)
            [] frame.type = "disconnected" -> NewLink(0)
            [] frame.type = "completed" -> [host[c] EXCEPT !.completed = @ + 1]
            [] frame.type = "acl" ->
                  [host[c] EXCEPT !.heard = frame.n, !.held[frame.handle] = @ + (IF c \in Flow THEN 1 ELSE 0)]
            [] OTHER -> host[c]]
    /\ UNCHANGED <<medium, links, flow, credits, m_pendingCommandResponse, m_pendingAcl, m_pendingEvents,
                   pumps, tx, stack>>

-----------------------------------------------------------------------------
Commit(c) ==
    \/ Refuse(c) \/ CommitState(c) \/ CommitReset(c) \/ CommitCreate(c) \/ CommitCancel(c)
    \/ CommitDisconnect(c) \/ CommitReadRemote(c)

Thread ==
    \/ PumpTx \/ PumpEvents \/ Leave \/ PumpAcl \/ PumpRead \/ HostCompletedPackets
    \/ DispatchCommand \/ ResponseWaits \/ (\E c \in Controllers : Commit(c))
    \/ PumpCommitted \/ PublishToScanners \/ PublishToInitiators \/ Done \/ PumpAgain
    \/ PushEvent \/ EndDrain \/ Drained

Next ==
    \/ Thread
    \/ \E c \in Controllers :
          \/ RunTick(c) \/ Destroy(c) \/ Construct(c)
          \/ HostCommand(c) \/ HostAcl(c) \/ HostReturns(c) \/ HostReads(c)

Spec == Init /\ [][Next]_vars

FairSpec ==
    /\ Spec
    /\ WF_vars(Thread)
    /\ \A c \in Controllers :
          SF_vars(RunTick(c)) /\ WF_vars(HostReads(c)) /\ SF_vars(HostReturns(c))

-----------------------------------------------------------------------------
Frame ==
    [type : {"connected", "disconnected", "acl", "completed", "remote", "report", "returned"},
     handle : 0 .. MAX_HANDLE, n : Nat]
    \union [type : {"command"}, op : Ops, arg : Nat \union Controllers]
    \union [type : {"response"}, op : Ops, ok : BOOLEAN]

Connection == [peer : Controllers \union {NoOne}, localHandle : 0 .. MAX_HANDLE, peerHandle : 0 .. MAX_HANDLE]

Labels == {"pump", "events", "check", "loop", "read", "respond", "committed", "scanners", "initiators",
           "done", "again", "drain", "draining"}

\* Every queue and ring is within its bound, of one of the frames that belong there, and the
\* thread calls a controller's pump at most once at a time (m_pumping).
TypeOK ==
    /\ airControllers \subseteq Controllers
    /\ airAdvertisements \union airScanners \subseteq airControllers
    /\ nextConnectionHandle \in Handles
    /\ m_connection \in [Controllers -> Connection]
    /\ m_initiation \in [Controllers -> Controllers \union {NoOne}]
    /\ advertising \in [Controllers -> BOOLEAN]
    /\ scanning \in [Controllers -> BOOLEAN]
    /\ controllerToHostFlow \in [Controllers -> BOOLEAN]
    /\ hostAclPackets \in [Controllers -> 0 .. AclPackets]
    /\ hostAclCredits \in [Controllers -> 0 .. AclPackets]
    /\ m_hostAclOutstanding \in [Controllers -> [Handles -> Nat]]
    /\ m_pumping \in [Controllers -> BOOLEAN]
    /\ m_pumpRequested \in [Controllers -> BOOLEAN]
    /\ m_deferredWake \in [Controllers -> Controllers \union {NoOne}]
    /\ \A c \in Controllers :
          /\ \A q \in {tx[c], rx[c], m_pendingEvents[c], m_pendingAcl[c]} :
                \A i \in DOMAIN q : q[i] \in Frame
          /\ Len(tx[c]) < RING_FRAMES /\ Len(rx[c]) < RING_FRAMES
          /\ Len(m_pendingEvents[c]) <= PENDING_EVENT_MAX
          /\ Len(m_pendingAcl[c]) <= 1 /\ Len(m_pendingCommandResponse[c]) <= 1
          /\ m_pumping[c] =
                (Cardinality({i \in DOMAIN stack :
                    stack[i].of = c /\ stack[i].at \notin {"pump", "again", "drain", "draining"}}) = 1)
    /\ \A i \in DOMAIN stack : stack[i].at \in Labels /\ stack[i].of \in airControllers

\* What c's host will have been told when it has read everything that is under way to it.
News(c) == rx[c] \o m_pendingEvents[c]

Told(h, event) ==
    CASE event.type = "connected" /\ event.n = 1 -> IF h = 0 THEN event.handle ELSE -1
      [] event.type = "disconnected" -> IF event.handle = h THEN 0 ELSE -1
      [] event.type = "response" -> IF event.op = "Reset" /\ event.ok THEN 0 ELSE h
      [] OTHER -> h

\* A connection has two ends, each of which knows the other, with handles nobody else has,
\* whoever resets, leaves, disconnects or connects in whatever callback (completeConnection,
\* teardownConnection, detachFromMedium).
Mutual ==
    \A c \in Controllers :
        LET p == m_connection[c].peer IN
        \/ m_connection[c] = NoConnection
        \/ /\ p \in airControllers \ {c}
           /\ c \in airControllers
           /\ m_connection[p].peer = c
           /\ m_connection[p].localHandle = m_connection[c].peerHandle
           /\ m_connection[c].localHandle \in Handles
           /\ \A d \in Controllers \ {c} : m_connection[d].localHandle # m_connection[c].localHandle

\* A host that has read its news knows of the connection its controller has, and of no other;
\* connections and disconnections reach it in turn, under their own handles (queueFrame of
\* connectionCompleteEvent and disconnectionCompleteEvent, which is not looked at whether it failed).
HostKnowsLink ==
    \A c \in airControllers : FoldLeft(Told, host[c].handle, News(c)) = m_connection[c].localHandle

\* The result of queueFrame may be ignored for a reliable frame: the queue never is full, since a
\* controller with events takes no command, and no more data than up to RELIABLE_DATA_EVENT_MAX.
\* One that advertises while it initiates can use up what is left above that, when its host does
\* not read: its peers, or its only one, can then connect to it and disconnect twice.
ReliableKept == \A c \in Controllers : Len(m_pendingEvents[c]) < PENDING_EVENT_MAX

\* p is going to look for initiators, c among them.
WillTry(c, p) ==
    \E i \in DOMAIN stack :
        /\ stack[i].of = p
        /\ stack[i].at = "scanners" \/ (stack[i].at = "initiators" /\ c \in stack[i].todo)

Missed(c, p) == MayConnect(c, p) /\ ~ WillTry(c, p)

\* An initiator finds the advertiser it waits for, whichever of the two commands comes first
\* (CommitCreate, publishAdvertisement).  Only the end of a connection can bring about that one
\* waits for an advertiser that it could connect to: what was passed over since one of them was
\* connected is not tried again (teardownConnection).  There is room for the news (ReliableKept).
NoMissed ==
    [][\A c, p \in Controllers :
          Missed(c, p)' =>
              \/ Missed(c, p)
              \/ Connected(c) /\ ~ Connected(c)'
              \/ Connected(p) /\ ~ Connected(p)']_vars

\* The frames of c's ring that it has not yet taken over.
Unread(c) ==
    IF \E i \in DOMAIN stack : stack[i].at = "read" /\ stack[i].of = c THEN Tail(tx[c]) ELSE tx[c]

AclNumbers(q, h) == LET its == SelectSeq(q, LAMBDA f : f.type = "acl" /\ f.handle = h)
                    IN  [i \in 1 .. Len(its) |-> its[i].n]

\* What one host has sent over a connection and the other has not yet heard is on its way,
\* once and in order: in the ring, in m_pendingAcl, in the peer's m_pendingEvents or its ring.
AclInOrder ==
    \A c \in airControllers :
        Connected(c) =>
            LET p == m_connection[c].peer
                h == m_connection[c].localHandle
                g == m_connection[c].peerHandle
                heard == IF host[p].handle = g THEN host[p].heard ELSE 0
                sent == IF host[c].handle = h THEN host[c].sent ELSE 0
            IN  AclNumbers(News(p), g) \o AclNumbers(m_pendingAcl[c], h) \o AclNumbers(Unread(c), h)
                = [i \in 1 .. sent - heard |-> heard + i]

Count(q, type, h) == Cardinality({i \in DOMAIN q : q[i].type = type /\ q[i].handle = h})

\* No credit is lost or made: what is not there is a packet on its way to the host, with the
\* host, or on its way back, also over a disconnect (handleAclFrame, handleHostCompletedPackets).
CreditsAccounted ==
    \A c \in airControllers :
        controllerToHostFlow[c] =>
            /\ hostAclCredits[c] + SumFunction(m_hostAclOutstanding[c]) = hostAclPackets[c]
            /\ \A h \in Handles :
                 m_hostAclOutstanding[c][h] =
                    Count(News(c), "acl", h) + host[c].held[h] + Count(tx[c], "returned", h)

\* Every command is answered and every packet completed, unless its connection ends: neither
\* full rings and queues nor the controllers' waiting for each other stop them for good.
HostsServed ==
    \A c \in Controllers :
        /\ host[c].waiting # "nothing" ~> host[c].waiting = "nothing"
        /\ host[c].sent > host[c].completed ~> host[c].sent = host[c].completed
=============================================================================
