------------------------------ MODULE Mailbox ------------------------------
(***************************************************************************)
(* What a QEMU process is promised by the simulator it shares memory with. *)
(*                                                                         *)
(* The process asks for one thing at a time: to read or to write a         *)
(* register of a simulated peripheral, to let the peripherals do their     *)
(* periodic work, or only to be let go on at a later time.  A request is   *)
(* executed once, and completed after that.  One that was made while       *)
(* nobody waited for it, or for a register that no peripheral has, may be  *)
(* dropped instead.  One that is left from a process that ended is         *)
(* forgotten when the next process is started, and not before.             *)
(***************************************************************************)
CONSTANTS
    Values,         \* of a register
    NoRequest

\* What a process may ask for.
Addresses == {"register", "nowhere"}

Requests == [op : {"event", "time"}, value : {0}, address : {"nowhere"}]
            \cup [op : {"read"}, value : {0}, address : Addresses]
            \cup [op : {"write"}, value : Values, address : Addresses]

VARIABLES
    process,        \* off, being started, or up
    request,        \* the one that is not completed, or NoRequest
    watched,        \* it was made while the simulator waited for it
    executed,
    register,
    answer          \* of a read that is executed and not completed, else 0

vars == <<process, request, watched, executed, register, answer>>

Init ==
    /\ process = "up"
    /\ request = NoRequest
    /\ watched = FALSE
    /\ executed = FALSE
    /\ register = 0
    /\ answer = 0

\* There is something to execute.
Served == request.op \in {"read", "write"} => request.address = "register"

Post(r) ==
    /\ process = "up"
    /\ request = NoRequest
    /\ request' = r
    /\ watched' \in BOOLEAN
    /\ executed' = FALSE
    /\ UNCHANGED <<process, register, answer>>

Execute ==
    /\ request # NoRequest
    /\ ~executed
    /\ Served
    /\ executed' = TRUE
    /\ register' = IF request.op = "write" THEN request.value ELSE register
    /\ answer' = IF request.op = "read" THEN register ELSE 0
    /\ UNCHANGED <<process, request, watched>>

Complete ==
    /\ process = "up"
    /\ executed
    /\ request' = NoRequest
    /\ answer' = 0
    /\ UNCHANGED <<process, watched, executed, register>>

\* A read is never taken for done without an answer.
Drop ==
    /\ process = "up"
    /\ request # NoRequest /\ request.op # "read"
    /\ ~executed
    /\ ~watched \/ ~Served
    /\ request' = NoRequest
    /\ UNCHANGED <<process, watched, executed, register, answer>>

Exit ==
    /\ process # "off"
    /\ process' = "off"
    /\ UNCHANGED <<request, watched, executed, register, answer>>

\* What may still run of the process is ended first.
Restart ==
    /\ process' = "boot"
    /\ request' = NoRequest
    /\ answer' = 0
    /\ UNCHANGED <<watched, executed, register>>

Boot ==
    /\ process = "boot"
    /\ process' = "up"
    /\ UNCHANGED <<request, watched, executed, register, answer>>

Next ==
    \/ \E r \in Requests : Post(r)
    \/ Execute \/ Complete \/ Drop
    \/ Exit \/ Restart \/ Boot

Spec == Init /\ [][Next]_vars

============================================================================
