---------------------------- MODULE QemuBtProofs ----------------------------
(***************************************************************************)
(* The Bluetooth controllers keep their types, and a connection has two    *)
(* ends that know each other, for any number of controllers, any programs  *)
(* of their hosts and any sizes of the rings and queues.                   *)
(*                                                                         *)
(* Both rest on the discipline of the calls.  A controller's pump is       *)
(* entered only while m_pumping is down, so at most one call works on the  *)
(* controller's commands, however the controllers call each other; what    *)
(* that call has found in the ring is still there when the calls it makes  *)
(* come back, and a peer that is called is still there to be called.       *)
(*                                                                         *)
(* The credits of host flow control are accounted for: one that is not     *)
(* there is a packet on its way to the host, with the host, or on its way  *)
(* back, however the connections end in between.                           *)
(***************************************************************************)
EXTENDS QemuBt, FiniteSetTheorems, FunctionTheorems, NaturalsInduction, SequenceTheorems,
        WellFoundedInduction, TLAPS

\* Argument a belongs to command op.
Fits(op, a) ==
    /\ op = "Create" => a \in Controllers
    /\ op = "HostBufferSize" => a \in 0 .. AclPackets
    /\ op = "ReadRemote" => a \in Handles

Command == {f \in [type : {"command"}, op : Ops, arg : Nat \union Controllers] : Fits(f.op, f.arg)}
Response == {r \in [op : Ops, arg : Nat \union Controllers, ok : BOOLEAN] : Fits(r.op, r.arg)}
Packet == [type : {"acl"}, handle : Handles, n : Nat]
Returned == [type : {"returned"}, handle : Handles, n : Nat]
Notice == [type : {"connected", "disconnected", "acl", "completed", "remote", "report"},
          handle : 0 .. MAX_HANDLE, n : Nat]
Answer == [type : {"response"}, op : Ops, ok : BOOLEAN]
Host == [handle : 0 .. MAX_HANDLE, waiting : Ops \union {"nothing"}, sent : Nat, completed : Nat,
         heard : Nat, held : [Handles -> Nat], commands : Nat, acls : Nat]

\* Who is there, and who advertises and scans.
MediumTyped ==
    /\ airControllers \subseteq Controllers
    /\ airAdvertisements \subseteq airControllers
    /\ airScanners \subseteq airControllers
    /\ advertising \in [Controllers -> BOOLEAN]
    /\ scanning \in [Controllers -> BOOLEAN]

FlowTyped ==
    /\ controllerToHostFlow \in [Controllers -> BOOLEAN]
    /\ hostAclPackets \in [Controllers -> 0 .. AclPackets]

CreditsTyped ==
    /\ hostAclCredits \in [Controllers -> 0 .. AclPackets]
    /\ m_hostAclOutstanding \in [Controllers -> [Handles -> Nat]]

ResponseTyped ==
    /\ m_pendingCommandResponse \in [Controllers -> Seq(Response)]
    /\ \A c \in Controllers : Len(m_pendingCommandResponse[c]) <= 1

AclTyped ==
    /\ m_pendingAcl \in [Controllers -> Seq(Packet)]
    /\ \A c \in Controllers : Len(m_pendingAcl[c]) <= 1

Queues(q) ==
    /\ q \in [Controllers -> Seq(Notice)]
    /\ \A c \in Controllers : Len(q[c]) <= PENDING_EVENT_MAX

EventsTyped == Queues(m_pendingEvents)

TxTyped ==
    /\ tx \in [Controllers -> Seq(Command \union Packet \union Returned)]
    /\ \A c \in Controllers : Len(tx[c]) < RING_FRAMES

RxTyped ==
    /\ rx \in [Controllers -> Seq(Notice \union Answer)]
    /\ \A c \in Controllers : Len(rx[c]) < RING_FRAMES

PumpsTyped ==
    /\ m_pumping \in [Controllers -> BOOLEAN]
    /\ m_pumpRequested \in [Controllers -> BOOLEAN]
    /\ m_deferredWake \in [Controllers -> Controllers \union {NoOne}]

HostTyped == host \in [Controllers -> Host]

LinksTyped ==
    /\ nextConnectionHandle \in Handles
    /\ m_initiation \in [Controllers -> Controllers \union {NoOne}]
    /\ m_connection \in [Controllers -> Connection]

\* A call of pumpTx that has set m_pumping and not yet cleared it.
Working(call) == call.at \notin {"pump", "again", "drain", "draining"}

\* What a call of the thread s is found to be.
Calls == [at : Labels, of : Controllers, todo : SUBSET Controllers]

\* m_pumping says which controllers' pumps are in s, and none is twice.
Alone(s, pumping) ==
    /\ \A i \in DOMAIN s : Working(s[i]) => pumping[s[i].of]
    /\ \A i, j \in DOMAIN s : Working(s[i]) /\ Working(s[j]) /\ s[i].of = s[j].of => i = j
    /\ \A c \in Controllers : pumping[c] => \E i \in DOMAIN s : Working(s[i]) /\ s[i].of = c

\* The first frame in ring is of this type.
First(ring, type) == ring # <<>> /\ Head(ring).type = type

\* A response that waits is for the command that is the first frame in the ring.
Answering(r, p) == \A c \in Controllers : p[c] # <<>> => First(r[c], "command")

\* What a call relies on when it goes on: its controller is there, a, and what
\* it has found in the ring, r, and the response it has made, p, are too.
Sure(call, a, r, p) ==
    /\ call.of \in a /\ call.todo \subseteq a
    /\ call.at = "read" => First(r[call.of], "acl")
    /\ call.at \in {"respond", "committed"} => First(r[call.of], "command")
    /\ call.at = "respond" => p[call.of] # <<>>
    /\ call.at = "committed" => p[call.of] = <<>>

Right(s, pumping, a, r, p) ==
    /\ s \in Seq(Calls)
    /\ Alone(s, pumping)
    /\ \A i \in DOMAIN s : Sure(s[i], a, r, p)
    /\ Answering(r, p)

StackRight == Right(stack, m_pumping, airControllers, tx, m_pendingCommandResponse)

\* What is not about the calls or the connections.
DataTyped ==
    /\ MediumTyped /\ FlowTyped /\ CreditsTyped /\ ResponseTyped /\ AclTyped /\ EventsTyped
    /\ TxTyped /\ RxTyped /\ PumpsTyped /\ HostTyped

IInv == DataTyped /\ LinksTyped /\ StackRight /\ Mutual

-----------------------------------------------------------------------------
(***************************************************************************)
(* Sequences.                                                              *)
(***************************************************************************)

\* Taking the first away, and appending one.
LEMMA TailFacts ==
    ASSUME NEW S, NEW q \in Seq(S), q # <<>>
    PROVE  /\ Len(q) >= 1 /\ Head(q) = q[1] /\ q[1] \in S
           /\ Tail(q) \in Seq(S) /\ Len(Tail(q)) = Len(q) - 1
  BY HeadTailProperties

\* One element more.
LEMMA AppendFacts ==
    ASSUME NEW S, NEW q \in Seq(S), NEW x \in S
    PROVE  /\ Append(q, x) \in Seq(S) /\ Len(Append(q, x)) = Len(q) + 1
           /\ Append(q, x) # <<>>
  BY AppendProperties

\* A call goes on as x, after the calls b before it: what stands where.
LEMMA Continued ==
    ASSUME NEW S, NEW s \in Seq(S), s # <<>>, NEW b \in Seq(S), NEW x \in S,
           NEW t, t = b \o <<x>> \o Tail(s)
    PROVE  /\ t \in Seq(S)
           /\ Len(t) = Len(b) + Len(s)
           /\ \A i \in 1 .. Len(b) : t[i] = b[i]
           /\ t[Len(b) + 1] = x
           /\ \A i \in 2 .. Len(s) : t[Len(b) + i] = s[i]
           /\ \A i \in Len(b) + 2 .. Len(t) : t[i] = s[i - Len(b)]
<1>1. Tail(s) \in Seq(S) /\ Len(Tail(s)) = Len(s) - 1 /\ Len(s) \in Nat /\ Len(s) >= 1
  OBVIOUS
<1>2. \A i \in 1 .. Len(s) - 1 : Tail(s)[i] = s[i + 1]
  OBVIOUS
<1>3. b \o <<x>> \in Seq(S) /\ Len(b \o <<x>>) = Len(b) + 1 /\ Len(b) \in Nat
  OBVIOUS
<1>4. /\ \A i \in 1 .. Len(b) : (b \o <<x>>)[i] = b[i]
      /\ (b \o <<x>>)[Len(b) + 1] = x
  OBVIOUS
<1> DEFINE bx == b \o <<x>>
           r == Tail(s)
<1>5. t = bx \o r /\ bx \in Seq(S) /\ r \in Seq(S)
  BY <1>1, <1>3
<1> HIDE DEF bx, r
<1>6. /\ t \in Seq(S) /\ Len(t) = Len(bx) + Len(r)
      /\ \A i \in 1 .. Len(bx) : t[i] = bx[i]
      /\ \A i \in Len(bx) + 1 .. Len(t) : t[i] = r[i - Len(bx)]
  <2>1. /\ t \in Seq(S) /\ Len(t) = Len(bx) + Len(r)
        /\ \A i \in 1 .. Len(bx) + Len(r) : t[i] = IF i <= Len(bx) THEN bx[i] ELSE r[i - Len(bx)]
    <3>1. /\ bx \o r \in Seq(S) /\ Len(bx \o r) = Len(bx) + Len(r)
          /\ \A i \in 1 .. Len(bx) + Len(r) :
                (bx \o r)[i] = IF i <= Len(bx) THEN bx[i] ELSE r[i - Len(bx)]
      BY <1>5, ConcatProperties, ZenonT(30)
    <3> QED BY <1>5, <3>1
  <2>2. Len(bx) \in Nat /\ Len(r) \in Nat
    BY <1>5
  <2>3. ASSUME NEW i \in 1 .. Len(bx) PROVE t[i] = bx[i]
    <3>1. i \in 1 .. Len(bx) + Len(r) /\ i <= Len(bx)
      BY <2>2
    <3> QED BY <2>1, <3>1
  <2>4. ASSUME NEW i \in Len(bx) + 1 .. Len(t) PROVE t[i] = r[i - Len(bx)]
    <3>1. i \in 1 .. Len(bx) + Len(r) /\ ~(i <= Len(bx))
      BY <2>1, <2>2
    <3> QED BY <2>1, <3>1
  <2> QED BY <2>1, <2>3, <2>4
<1>7. Len(bx) = Len(b) + 1 /\ Len(r) = Len(s) - 1
  BY <1>1, <1>3 DEF bx, r
<1>8. /\ \A i \in 1 .. Len(b) : t[i] = b[i]
      /\ t[Len(b) + 1] = x
  BY <1>3, <1>4, <1>6, <1>7 DEF bx
<1>9. ASSUME NEW i \in Len(b) + 2 .. Len(t)
      PROVE  t[i] = s[i - Len(b)]
  <2>1. t[i] = r[i - Len(bx)] /\ i - Len(bx) \in 1 .. Len(s) - 1
    BY <1>1, <1>3, <1>6, <1>7
  <2>2. r[i - Len(bx)] = s[(i - Len(bx)) + 1]
    BY <1>2, <2>1 DEF r
  <2>3. (i - Len(bx)) + 1 = i - Len(b)
    BY <1>3, <1>7
  <2> QED BY <2>1, <2>2, <2>3
<1>10. ASSUME NEW i \in 2 .. Len(s)
       PROVE  t[Len(b) + i] = s[i]
  <2>1. Len(b) + i \in Len(b) + 2 .. Len(t) /\ (Len(b) + i) - Len(b) = i
    BY <1>1, <1>3, <1>6, <1>7
  <2> QED BY <1>9, <2>1
<1> QED BY <1>1, <1>3, <1>6, <1>7, <1>8, <1>9, <1>10

\* Every nonempty set of natural numbers has a least element.
LEMMA LeastNatural ==
    ASSUME NEW T, T \subseteq Nat, T # {}
    PROVE  \E m \in T : \A k \in T : m <= k
<1>1. PICK x \in T : \A y \in T : ~ (<<y, x>> \in OpToRel(<,Nat))
  BY NatLessThanWellFounded, WFMin
<1>2. \A y \in T : ~(y < x)
  BY <1>1 DEF OpToRel
<1> QED BY <1>2

\* What withoutReports has left of q after its first n elements, given that
\* it is v after the one before.
Left(q, n, v) ==
    IF n = 0 THEN <<>> ELSE IF q[n].type = "report" THEN v ELSE Append(v, q[n])

LeftIn(q, w, m) == w = [n \in 0 .. m |-> Left(q, n, w[n - 1])]

\* The function exists, by taking the least number it would not exist for ...
LEMMA LeftExists ==
    ASSUME NEW q, NEW l \in Nat
    PROVE  \E w : LeftIn(q, w, l)
<1> DEFINE T == {m \in Nat : ~ \E w : LeftIn(q, w, m)}
<1> SUFFICES ASSUME T # {} PROVE FALSE
  OBVIOUS
<1>1. PICK m \in T : \A k \in T : m <= k
  <2> HIDE DEF T
  <2>1. T \subseteq Nat
    BY DEF T
  <2> QED BY <2>1, LeastNatural
<1>2. CASE m = 0
  <2> DEFINE w == [n \in 0 .. 0 |-> <<>>]
  <2>1. w = [n \in 0 .. 0 |-> Left(q, n, w[n - 1])]
    BY DEF Left
  <2> HIDE DEF w
  <2>2. LeftIn(q, w, m)
    BY <2>1, <1>2 DEF LeftIn
  <2> QED BY <2>2
<1>3. CASE m # 0
  <2>1. m - 1 \in Nat /\ m - 1 \notin T
    BY <1>1, <1>3
  <2>2. PICK v : LeftIn(q, v, m - 1)
    BY <2>1
  <2> DEFINE w == [n \in 0 .. m |-> Left(q, n, v[n - 1])]
  <2>3. \A n \in 0 .. m - 1 : w[n] = v[n]
    BY <2>1, <2>2 DEF LeftIn
  <2>4. \A n \in 0 .. m : Left(q, n, v[n - 1]) = Left(q, n, w[n - 1])
    <3> TAKE n \in 0 .. m
    <3>1. CASE n = 0
      BY <3>1 DEF Left
    <3>2. CASE n # 0
      <4>1. n - 1 \in 0 .. m - 1
        BY <3>2
      <4>2. v[n - 1] = w[n - 1]
        BY <4>1, <2>3
      <4> HIDE DEF w
      <4> QED BY <4>2
    <3> QED BY <3>1, <3>2
  <2>5. w = [n \in 0 .. m |-> Left(q, n, w[n - 1])]
    BY <2>4
  <2> HIDE DEF w
  <2>6. LeftIn(q, w, m)
    BY <2>5 DEF LeftIn
  <2> QED BY <2>6
<1> QED BY <1>2, <1>3

\* ... and its values are no longer than what they are made from.
LEMMA LeftBounded ==
    ASSUME NEW S, NEW q \in Seq(S), NEW w, LeftIn(q, w, Len(q))
    PROVE  w[Len(q)] \in Seq(S) /\ Len(w[Len(q)]) <= Len(q)
<1> DEFINE Good(n) == w[n] \in Seq(S) /\ Len(w[n]) <= n
           T == {n \in 0 .. Len(q) : ~ Good(n)}
<1>0. Len(q) \in Nat
  OBVIOUS
<1>1. T = {}
  <2> SUFFICES ASSUME T # {} PROVE FALSE
    OBVIOUS
  <2>1. PICK m \in T : \A k \in T : m <= k
    <3>1. T \subseteq Nat
      BY <1>0
    <3> HIDE DEF T
    <3> QED BY <3>1, LeastNatural
  <2>2. w[m] = Left(q, m, w[m - 1])
    BY <1>0 DEF LeftIn
  <2>3. CASE m = 0
    <3>1. w[m] = <<>>
      BY <2>2, <2>3 DEF Left
    <3>2. w[m] \in Seq(S) /\ Len(w[m]) = 0
      BY <3>1, EmptySeq
    <3> QED BY <2>1, <2>3, <3>2
  <2>4. CASE m # 0
    <3>1. m - 1 \in 0 .. Len(q) /\ m - 1 \notin T /\ m \in 1 .. Len(q)
      BY <1>0, <2>1, <2>4
    <3>2. w[m - 1] \in Seq(S) /\ Len(w[m - 1]) <= m - 1
      BY <3>1
    <3>3. q[m] \in S
      BY <3>1, ElementOfSeq
    <3>4. Append(w[m - 1], q[m]) \in Seq(S) /\ Len(Append(w[m - 1], q[m])) = Len(w[m - 1]) + 1
      BY <3>2, <3>3, AppendFacts
    <3>5. w[m] = w[m - 1] \/ w[m] = Append(w[m - 1], q[m])
      BY <2>2, <2>4 DEF Left
    <3>6. w[m] \in Seq(S) /\ Len(w[m]) <= m
      <4>1. Len(w[m - 1]) \in Nat /\ m \in Nat
        BY <3>1, <3>2, LenProperties
      <4>2. CASE w[m] = w[m - 1]
        BY <3>2, <4>1, <4>2
      <4>3. CASE w[m] = Append(w[m - 1], q[m])
        BY <3>2, <3>4, <4>1, <4>3
      <4> QED BY <3>5, <4>2, <4>3
    <3> QED BY <2>1, <3>6
  <2> QED BY <2>3, <2>4
<1> QED BY <1>0, <1>1

\* withoutReports is a queue of the same things that is not longer.
LEMMA Filtered ==
    ASSUME NEW S, NEW q \in Seq(S)
    PROVE  withoutReports(q) \in Seq(S) /\ Len(withoutReports(q)) <= Len(q)
<1>1. PICK w : w = CHOOSE v : LeftIn(q, v, Len(q))
  OBVIOUS
<1>2. withoutReports(q) = w[Len(q)]
  BY <1>1 DEF withoutReports, LeftIn, Left
<1>3. LeftIn(q, w, Len(q))
  BY <1>1, LeftExists
<1> QED BY <1>2, <1>3, LeftBounded

-----------------------------------------------------------------------------
(***************************************************************************)
(* The calls.                                                              *)
(***************************************************************************)

\* Where the calls of the longer stack come from.
LEMMA Origin ==
    ASSUME NEW S, NEW s \in Seq(S), s # <<>>, NEW b \in Seq(S), NEW x \in S,
           NEW t, t = b \o <<x>> \o Tail(s), NEW i \in DOMAIN t
    PROVE  \/ i \in DOMAIN b /\ t[i] = b[i]
           \/ i = Len(b) + 1 /\ t[i] = x
           \/ i - Len(b) \in DOMAIN s /\ i - Len(b) >= 2 /\ t[i] = s[i - Len(b)]
<1>1. /\ t \in Seq(S)
      /\ Len(t) = Len(b) + Len(s)
      /\ \A j \in 1 .. Len(b) : t[j] = b[j]
      /\ t[Len(b) + 1] = x
      /\ \A j \in Len(b) + 2 .. Len(t) : t[j] = s[j - Len(b)]
  BY Continued
<1>2. /\ DOMAIN t = 1 .. Len(t) /\ DOMAIN b = 1 .. Len(b) /\ DOMAIN s = 1 .. Len(s)
      /\ Len(b) \in Nat /\ Len(s) \in Nat /\ Len(t) \in Nat
  BY <1>1, LenProperties
<1>3. i \in 1 .. Len(b) \/ i = Len(b) + 1 \/ i \in Len(b) + 2 .. Len(t)
  BY <1>2
<1>4. CASE i \in 1 .. Len(b)
  BY <1>1, <1>2, <1>4
<1>5. CASE i = Len(b) + 1
  BY <1>1, <1>5
<1>6. CASE i \in Len(b) + 2 .. Len(t)
  <2>1. i - Len(b) \in 1 .. Len(s) /\ i - Len(b) >= 2
    BY <1>1, <1>2, <1>6
  <2> QED BY <1>1, <1>2, <1>6, <2>1
<1> QED BY <1>3, <1>4, <1>5, <1>6

\* If the innermost call works, no other call works on the same controller.
LEMMA Innermost ==
    ASSUME NEW s \in Seq(Calls), s # <<>>, NEW pumping, Alone(s, pumping), Working(s[1]),
           NEW i \in DOMAIN s, i >= 2, Working(s[i])
    PROVE  s[i].of # s[1].of
<1>1. 1 \in DOMAIN s
  BY EmptySeq, LenProperties
<1> QED BY <1>1 DEF Alone

\* The new calls do not work; the innermost call goes on as x.  If x does what
\* the call did, for the same controller, or neither works, m_pumping stays.
LEMMA AloneContinue ==
    ASSUME NEW s \in Seq(Calls), s # <<>>, NEW b \in Seq(Calls), NEW x \in Calls,
           NEW t, t = b \o <<x>> \o Tail(s),
           \A i \in DOMAIN b : ~ Working(b[i]),
           NEW pumping, Alone(s, pumping),
           Working(x) => Working(s[1]) /\ x.of = s[1].of, Working(s[1]) => Working(x)
    PROVE  Alone(t, pumping)
<1>9. \A i, j \in DOMAIN s : Working(s[i]) /\ Working(s[j]) /\ s[i].of = s[j].of => i = j
  BY DEF Alone
<1>1. /\ 1 \in DOMAIN s /\ Len(b) \in Nat /\ DOMAIN s = 1 .. Len(s) /\ Len(s) \in Nat
  BY EmptySeq, LenProperties
<1>2. ASSUME NEW i \in DOMAIN t, Working(t[i])
      PROVE  /\ i - Len(b) \in DOMAIN s /\ i \in Int
             /\ Working(s[i - Len(b)]) /\ t[i].of = s[i - Len(b)].of
  <2>1. \/ i = Len(b) + 1 /\ t[i] = x
        \/ i - Len(b) \in DOMAIN s /\ i - Len(b) >= 2 /\ t[i] = s[i - Len(b)]
    BY <1>2, Origin
  <2>2. i \in Int
    <3>1. t \in Seq(Calls)
      BY Continued
    <3> QED BY <3>1, LenProperties
  <2>3. CASE i = Len(b) + 1 /\ t[i] = x
    <3>1. i - Len(b) = 1
      BY <1>1, <2>3
    <3> QED BY <1>1, <1>2, <2>2, <2>3, <3>1
  <2> QED BY <1>2, <2>1, <2>2, <2>3
<1>3. ASSUME NEW c \in Controllers, pumping[c]
      PROVE  \E i \in DOMAIN t : Working(t[i]) /\ t[i].of = c
  <2>1. PICK j \in DOMAIN s : Working(s[j]) /\ s[j].of = c
    BY <1>3 DEF Alone
  <2>2. /\ DOMAIN t = 1 .. Len(t) /\ Len(t) = Len(b) + Len(s)
        /\ t[Len(b) + 1] = x /\ \A i \in 2 .. Len(s) : t[Len(b) + i] = s[i]
    BY Continued, LenProperties
  <2>3. Len(b) + j \in DOMAIN t
    BY <1>1, <2>2
  <2>4. CASE j = 1
    BY <2>1, <2>2, <2>3, <2>4
  <2>5. CASE j # 1
    <3>1. j \in 2 .. Len(s)
      BY <1>1, <2>5
    <3> QED BY <2>1, <2>2, <2>3, <3>1
  <2> QED BY <2>4, <2>5
<1>4. ASSUME NEW i \in DOMAIN t, Working(t[i]) PROVE pumping[t[i].of]
  BY <1>2, <1>4 DEF Alone
<1>5. ASSUME NEW i \in DOMAIN t, NEW j \in DOMAIN t, Working(t[i]), Working(t[j]), t[i].of = t[j].of
      PROVE  i = j
  <2>1. /\ i - Len(b) \in DOMAIN s /\ i \in Int
        /\ Working(s[i - Len(b)]) /\ t[i].of = s[i - Len(b)].of
    BY <1>2, <1>5
  <2>2. /\ j - Len(b) \in DOMAIN s /\ j \in Int
        /\ Working(s[j - Len(b)]) /\ t[j].of = s[j - Len(b)].of
    BY <1>2, <1>5
  <2>3. i - Len(b) = j - Len(b)
    BY <1>5, <1>9, <2>1, <2>2
  <2> QED BY <1>1, <2>1, <2>2, <2>3
<1> QED BY <1>3, <1>4, <1>5 DEF Alone

\* The call x begins to work on a controller that no call works on.
LEMMA AloneBegin ==
    ASSUME NEW s \in Seq(Calls), s # <<>>, NEW b \in Seq(Calls), NEW x \in Calls,
           NEW t, t = b \o <<x>> \o Tail(s),
           \A i \in DOMAIN b : ~ Working(b[i]),
           NEW pumping \in [Controllers -> BOOLEAN], Alone(s, pumping),
           ~ Working(s[1]), ~ pumping[x.of], Working(x)
    PROVE  Alone(t, [pumping EXCEPT ![x.of] = TRUE])
<1> DEFINE down == [pumping EXCEPT ![x.of] = TRUE]
<1>9. \A i, j \in DOMAIN s : Working(s[i]) /\ Working(s[j]) /\ s[i].of = s[j].of => i = j
  BY DEF Alone
<1>1. /\ 1 \in DOMAIN s /\ Len(b) \in Nat /\ DOMAIN s = 1 .. Len(s) /\ Len(s) \in Nat
  BY EmptySeq, LenProperties
<1>0. x.of \in Controllers
  BY DEF Calls
<1>2. ASSUME NEW i \in DOMAIN t, Working(t[i])
      PROVE  \/ i = Len(b) + 1 /\ t[i] = x
             \/ /\ i - Len(b) \in DOMAIN s /\ i \in Int
                /\ t[i] = s[i - Len(b)] /\ t[i].of # x.of /\ pumping[t[i].of]
  <2>1. \/ i = Len(b) + 1 /\ t[i] = x
        \/ i - Len(b) \in DOMAIN s /\ i - Len(b) >= 2 /\ t[i] = s[i - Len(b)]
    BY <1>2, Origin
  <2>2. i \in Int
    <3>1. t \in Seq(Calls)
      BY Continued
    <3> QED BY <3>1, LenProperties
  <2> QED BY <1>2, <2>1, <2>2 DEF Alone
<1>3. ASSUME NEW c \in Controllers, down[c]
      PROVE  \E i \in DOMAIN t : Working(t[i]) /\ t[i].of = c
  <2>2. /\ DOMAIN t = 1 .. Len(t) /\ Len(t) = Len(b) + Len(s)
        /\ t[Len(b) + 1] = x /\ \A i \in 2 .. Len(s) : t[Len(b) + i] = s[i]
    BY Continued, LenProperties
  <2>3. CASE c = x.of
    <3>1. Len(b) + 1 \in DOMAIN t
      BY <1>1, <2>2
    <3> QED BY <2>2, <2>3, <3>1
  <2>4. CASE c # x.of
    <3>1. pumping[c]
      BY <1>3, <2>4
    <3>2. PICK j \in DOMAIN s : Working(s[j]) /\ s[j].of = c
      BY <3>1 DEF Alone
    <3>3. j \in 2 .. Len(s)
      BY <1>1, <3>2
    <3>4. Len(b) + j \in DOMAIN t
      BY <1>1, <2>2, <3>3
    <3> QED BY <2>2, <3>2, <3>3, <3>4
  <2> QED BY <2>3, <2>4
<1>4. ASSUME NEW i \in DOMAIN t, Working(t[i]) PROVE down[t[i].of]
  <2>1. t \in Seq(Calls)
    BY Continued
  <2>2. t[i].of \in Controllers
    <3>1. i \in 1 .. Len(t)
      BY <2>1, LenProperties
    <3>2. t[i] \in Calls
      BY <2>1, <3>1, ElementOfSeq
    <3> QED BY <3>2 DEF Calls
  <2> QED BY <1>0, <1>2, <1>4, <2>2
<1>5. ASSUME NEW i \in DOMAIN t, NEW j \in DOMAIN t, Working(t[i]), Working(t[j]), t[i].of = t[j].of
      PROVE  i = j
  <2>1. \/ i = Len(b) + 1 /\ t[i] = x
        \/ /\ i - Len(b) \in DOMAIN s /\ i \in Int
           /\ t[i] = s[i - Len(b)] /\ t[i].of # x.of
    BY <1>2, <1>5
  <2>2. \/ j = Len(b) + 1 /\ t[j] = x
        \/ /\ j - Len(b) \in DOMAIN s /\ j \in Int
           /\ t[j] = s[j - Len(b)] /\ t[j].of # x.of
    BY <1>2, <1>5
  <2>3. CASE t[i].of = x.of
    BY <1>5, <2>1, <2>2, <2>3
  <2>4. CASE t[i].of # x.of
    <3>1. i - Len(b) = j - Len(b)
      BY <1>5, <1>9, <2>1, <2>2, <2>4
    <3>2. i \in Int /\ j \in Int
      BY <1>5, <2>1, <2>2, <2>4
    <3> QED BY <1>1, <3>1, <3>2
  <2> QED BY <2>3, <2>4
<1> HIDE DEF down
<1>6. Alone(t, down)
  BY <1>3, <1>4, <1>5 DEF Alone
<1> QED BY <1>6 DEF down

\* The innermost call has done its work and goes on as x.
LEMMA AloneEnd ==
    ASSUME NEW s \in Seq(Calls), s # <<>>, NEW b \in Seq(Calls), NEW x \in Calls,
           NEW t, t = b \o <<x>> \o Tail(s),
           \A i \in DOMAIN b : ~ Working(b[i]),
           NEW pumping \in [Controllers -> BOOLEAN], Alone(s, pumping),
           Working(s[1]), ~ Working(x)
    PROVE  Alone(t, [pumping EXCEPT ![s[1].of] = FALSE])
<1> DEFINE down == [pumping EXCEPT ![s[1].of] = FALSE]
<1>9. \A i, j \in DOMAIN s : Working(s[i]) /\ Working(s[j]) /\ s[i].of = s[j].of => i = j
  BY DEF Alone
<1>1. /\ 1 \in DOMAIN s /\ Len(b) \in Nat /\ DOMAIN s = 1 .. Len(s) /\ Len(s) \in Nat
  BY EmptySeq, LenProperties
<1>2. ASSUME NEW i \in DOMAIN t, Working(t[i])
      PROVE  /\ i - Len(b) \in DOMAIN s /\ i \in Int
             /\ t[i] = s[i - Len(b)] /\ t[i].of # s[1].of /\ pumping[t[i].of]
  <2>1. i - Len(b) \in DOMAIN s /\ i - Len(b) >= 2 /\ t[i] = s[i - Len(b)]
    BY <1>2, Origin
  <2>2. i \in Int
    <3>1. t \in Seq(Calls)
      BY Continued
    <3> QED BY <3>1, LenProperties
  <2>3. t[i].of # s[1].of
    BY <1>2, <2>1, Innermost
  <2> QED BY <1>2, <2>1, <2>2, <2>3 DEF Alone
<1>3. ASSUME NEW c \in Controllers, down[c]
      PROVE  \E i \in DOMAIN t : Working(t[i]) /\ t[i].of = c
  <2>1. pumping[c] /\ c # s[1].of
    BY <1>3
  <2>2. PICK j \in DOMAIN s : Working(s[j]) /\ s[j].of = c
    BY <2>1 DEF Alone
  <2>3. /\ DOMAIN t = 1 .. Len(t) /\ Len(t) = Len(b) + Len(s)
        /\ \A i \in 2 .. Len(s) : t[Len(b) + i] = s[i]
    BY Continued, LenProperties
  <2>4. j \in 2 .. Len(s)
    BY <1>1, <2>1, <2>2
  <2>5. Len(b) + j \in DOMAIN t
    BY <1>1, <2>3, <2>4
  <2> QED BY <2>2, <2>3, <2>4, <2>5
<1>4. ASSUME NEW i \in DOMAIN t, Working(t[i]) PROVE down[t[i].of]
  <2>1. t \in Seq(Calls)
    BY Continued
  <2>2. t[i].of \in Controllers
    <3>1. i \in 1 .. Len(t)
      BY <2>1, LenProperties
    <3>2. t[i] \in Calls
      BY <2>1, <3>1, ElementOfSeq
    <3> QED BY <3>2 DEF Calls
  <2> QED BY <1>2, <1>4, <2>2
<1>5. ASSUME NEW i \in DOMAIN t, NEW j \in DOMAIN t, Working(t[i]), Working(t[j]), t[i].of = t[j].of
      PROVE  i = j
  <2>1. i - Len(b) \in DOMAIN s /\ i \in Int /\ t[i] = s[i - Len(b)]
    BY <1>2, <1>5
  <2>2. j - Len(b) \in DOMAIN s /\ j \in Int /\ t[j] = s[j - Len(b)]
    BY <1>2, <1>5
  <2>3. i - Len(b) = j - Len(b)
    BY <1>5, <1>9, <2>1, <2>2
  <2> QED BY <1>1, <2>1, <2>2, <2>3
<1> HIDE DEF down
<1>6. Alone(t, down)
  BY <1>3, <1>4, <1>5 DEF Alone
<1> QED BY <1>6 DEF down

\* A call that does not work returns.
LEMMA AloneReturn ==
    ASSUME NEW s \in Seq(Calls), s # <<>>, NEW pumping, Alone(s, pumping), ~ Working(s[1])
    PROVE  /\ Tail(s) \in Seq(Calls) /\ Alone(Tail(s), pumping)
           /\ \A i \in DOMAIN Tail(s) : i + 1 \in DOMAIN s /\ Tail(s)[i] = s[i + 1]
<1>1. /\ Tail(s) \in Seq(Calls) /\ Len(Tail(s)) = Len(s) - 1
      /\ \A i \in 1 .. Len(Tail(s)) : Tail(s)[i] = s[i + 1]
  BY HeadTailProperties
<1>2. /\ DOMAIN s = 1 .. Len(s) /\ Len(s) \in Nat
      /\ DOMAIN Tail(s) = 1 .. Len(Tail(s)) /\ Len(Tail(s)) \in Nat
  BY <1>1, LenProperties
<1>3. \A i \in DOMAIN Tail(s) : i \in Int /\ i + 1 \in DOMAIN s /\ Tail(s)[i] = s[i + 1]
  BY <1>1, <1>2
<1>4. ASSUME NEW c \in Controllers, pumping[c]
      PROVE  \E i \in DOMAIN Tail(s) : Working(Tail(s)[i]) /\ Tail(s)[i].of = c
  <2>1. PICK j \in DOMAIN s : Working(s[j]) /\ s[j].of = c
    BY <1>4 DEF Alone
  <2>2. j - 1 \in DOMAIN Tail(s) /\ (j - 1) + 1 = j
    BY <1>1, <1>2, <2>1
  <2> QED BY <1>3, <2>1, <2>2
<1>5. ASSUME NEW i \in DOMAIN Tail(s), NEW j \in DOMAIN Tail(s), Working(Tail(s)[i]), Working(Tail(s)[j]),
             Tail(s)[i].of = Tail(s)[j].of
      PROVE  i = j
  <2>1. i + 1 = j + 1
    BY <1>3, <1>5 DEF Alone
  <2> QED BY <1>3, <2>1
<1>6. \A i \in DOMAIN Tail(s) : Working(Tail(s)[i]) => pumping[Tail(s)[i].of]
  BY <1>3 DEF Alone
<1>7. Alone(Tail(s), pumping)
  BY <1>4, <1>5, <1>6 DEF Alone
<1> QED BY <1>1, <1>3, <1>7

\* New calls that do not work, of controllers that are there.
Quiet(b, a) ==
    /\ b \in Seq(Calls)
    /\ \A i \in DOMAIN b : ~ Working(b[i]) /\ b[i].of \in a /\ b[i].todo \subseteq a

\* The calls a step adds are quiet.
LEMMA QuietCalls ==
    ASSUME NEW a, a \subseteq Controllers, NEW p \in a, NEW q \in a
    PROVE  /\ Quiet(<<>>, a)
           /\ Quiet(<<Call("drain", p)>>, a) /\ Quiet(<<Call("pump", p)>>, a)
           /\ Quiet(<<Call("drain", p), Call("drain", q)>>, a)
<1>1. \A d \in a : \A at \in {"drain", "pump"} :
         /\ Call(at, d) \in Calls /\ ~ Working(Call(at, d))
         /\ Call(at, d).of = d /\ Call(at, d).todo = {}
  BY DEF Call, Calls, Labels, Working
<1>2. Quiet(<<>>, a)
  BY EmptySeq DEF Quiet
<1>3. ASSUME NEW k \in Calls, ~ Working(k), k.of \in a, k.todo = {}
      PROVE  Quiet(<<k>>, a)
  BY <1>3 DEF Quiet
<1>4. ASSUME NEW k \in Calls, ~ Working(k), k.of \in a, k.todo = {},
             NEW l \in Calls, ~ Working(l), l.of \in a, l.todo = {}
      PROVE  Quiet(<<k, l>>, a)
  BY <1>4 DEF Quiet
<1> QED BY <1>1, <1>2, <1>3, <1>4

\* So is adding none.
LEMMA NothingQuiet == \A a : Quiet(<<>>, a)
  BY EmptySeq DEF Quiet

\* What stands first in a ring stays there.
StaysFirst(q, q2) == \A type \in {"acl", "command"} : First(q, type) => First(q2, type)

\* The old calls are as sure of the new rings and responses as of the old ones,
\* where only for the innermost call's controller something has changed.
Kept(s, r, p, r2, p2) ==
    \A c \in Controllers :
        \/ Working(Head(s)) /\ c = Head(s).of
        \/ StaysFirst(r[c], r2[c]) /\ p2[c] = p[c]

\* The innermost call goes on as x, which is sure of what it needs: so are all.
LEMMA SureContinue ==
    ASSUME NEW s, NEW pumping, NEW a, NEW r, NEW p, NEW r2, NEW p2,
           Right(s, pumping, a, r, p), s # <<>>, NEW b, Quiet(b, a),
           NEW x \in Calls, Sure(x, a, r2, p2), Kept(s, r, p, r2, p2),
           NEW t, t = b \o <<x>> \o Tail(s)
    PROVE  t \in Seq(Calls) /\ \A i \in DOMAIN t : Sure(t[i], a, r2, p2)
<1>1. s \in Seq(Calls) /\ b \in Seq(Calls)
  BY DEF Right, Quiet
<1>2. t \in Seq(Calls)
  BY <1>1, Continued
<1>3. ASSUME NEW i \in DOMAIN t
      PROVE  Sure(t[i], a, r2, p2)
  <2>1. \/ i \in DOMAIN b /\ t[i] = b[i]
        \/ i = Len(b) + 1 /\ t[i] = x
        \/ i - Len(b) \in DOMAIN s /\ i - Len(b) >= 2 /\ t[i] = s[i - Len(b)]
    BY <1>1, Origin
  <2>2. CASE i \in DOMAIN b /\ t[i] = b[i]
    BY <2>2 DEF Quiet, Sure, Working
  <2>3. CASE i = Len(b) + 1 /\ t[i] = x
    BY <2>3
  <2>4. CASE i - Len(b) \in DOMAIN s /\ i - Len(b) >= 2 /\ t[i] = s[i - Len(b)]
    <3>1. PICK j : j = i - Len(b)
      OBVIOUS
    <3>2. j \in DOMAIN s /\ j >= 2 /\ t[i] = s[j]
      BY <2>4, <3>1
    <3>3. Sure(s[j], a, r, p) /\ Head(s) = s[1] /\ Alone(s, pumping)
      BY <1>1, <3>2, TailFacts DEF Right
    <3>4. Working(Head(s)) /\ Working(s[j]) => s[j].of # Head(s).of
      BY <1>1, <3>2, <3>3, Innermost
    <3>5. s[j] \in Calls
      BY <1>1, <3>2, LenProperties, ElementOfSeq
    <3>6. s[j].of \in Controllers
      BY <3>5 DEF Calls
    <3> QED BY <3>2, <3>3, <3>4, <3>6 DEF Sure, Kept, Working, StaysFirst
  <2> QED BY <2>1, <2>2, <2>3, <2>4
<1> QED BY <1>2, <1>3

\* A call goes on as x, at work as before or not at work as before.
LEMMA KeepsOn ==
    ASSUME NEW s, NEW pumping, NEW a, NEW r, NEW p, NEW r2, NEW p2,
           Right(s, pumping, a, r, p), s # <<>>, NEW b, Quiet(b, a),
           NEW x \in Calls, Sure(x, a, r2, p2), Kept(s, r, p, r2, p2),
           Answering(r2, p2), NEW t, t = b \o <<x>> \o Tail(s),
           Working(x) <=> Working(Head(s)), Working(x) => x.of = Head(s).of
    PROVE  Right(t, pumping, a, r2, p2)
<1>1. s \in Seq(Calls) /\ b \in Seq(Calls) /\ \A i \in DOMAIN b : ~ Working(b[i])
  BY DEF Right, Quiet
<1>2. Head(s) = s[1] /\ Alone(s, pumping)
  BY <1>1, TailFacts DEF Right
<1>5. Working(x) => Working(s[1]) /\ x.of = s[1].of
  BY <1>2
<1>6. Working(s[1]) => Working(x)
  BY <1>2
<1>3. Alone(t, pumping)
  BY <1>1, <1>2, <1>5, <1>6, AloneContinue, ZenonT(60)
<1>4. t \in Seq(Calls) /\ \A i \in DOMAIN t : Sure(t[i], a, r2, p2)
  BY SureContinue
<1> QED BY <1>3, <1>4 DEF Right

\* A call begins to work.
LEMMA Begins ==
    ASSUME NEW s, NEW pumping \in [Controllers -> BOOLEAN], NEW a, NEW r, NEW p,
           Right(s, pumping, a, r, p), s # <<>>, NEW b, Quiet(b, a),
           NEW x \in Calls, Sure(x, a, r, p),
           NEW t, t = b \o <<x>> \o Tail(s),
           ~ Working(Head(s)), Working(x), ~ pumping[x.of]
    PROVE  Right(t, [pumping EXCEPT ![x.of] = TRUE], a, r, p)
<1>1. s \in Seq(Calls) /\ b \in Seq(Calls) /\ \A i \in DOMAIN b : ~ Working(b[i])
  BY DEF Right, Quiet
<1>2. Head(s) = s[1] /\ Alone(s, pumping)
  BY <1>1, TailFacts DEF Right
<1>3. Alone(t, [pumping EXCEPT ![x.of] = TRUE])
  BY <1>1, <1>2, AloneBegin
<1>4. t \in Seq(Calls) /\ \A i \in DOMAIN t : Sure(t[i], a, r, p)
  <2>1. Kept(s, r, p, r, p)
    BY DEF Kept, StaysFirst
  <2> QED BY <2>1, SureContinue
<1> QED BY <1>3, <1>4 DEF Right

\* A call has done its work.
LEMMA Ends ==
    ASSUME NEW s, NEW pumping \in [Controllers -> BOOLEAN], NEW a, NEW r, NEW p,
           Right(s, pumping, a, r, p), s # <<>>, NEW b, Quiet(b, a),
           NEW x \in Calls, Sure(x, a, r, p),
           NEW t, t = b \o <<x>> \o Tail(s),
           Working(Head(s)), ~ Working(x)
    PROVE  Right(t, [pumping EXCEPT ![Head(s).of] = FALSE], a, r, p)
<1>1. s \in Seq(Calls) /\ b \in Seq(Calls) /\ \A i \in DOMAIN b : ~ Working(b[i])
  BY DEF Right, Quiet
<1>2. Head(s) = s[1] /\ Alone(s, pumping)
  BY <1>1, TailFacts DEF Right
<1>3. Alone(t, [pumping EXCEPT ![s[1].of] = FALSE])
  BY <1>1, <1>2, AloneEnd
<1>4. t \in Seq(Calls) /\ \A i \in DOMAIN t : Sure(t[i], a, r, p)
  <2>1. Kept(s, r, p, r, p)
    BY DEF Kept, StaysFirst
  <2> QED BY <2>1, SureContinue
<1> QED BY <1>2, <1>3, <1>4 DEF Right

\* A call that does not work returns.
LEMMA Returns ==
    ASSUME NEW s, NEW pumping, NEW a, NEW r, NEW p,
           Right(s, pumping, a, r, p), s # <<>>, ~ Working(Head(s))
    PROVE  Right(Tail(s), pumping, a, r, p)
<1>1. s \in Seq(Calls) /\ Alone(s, pumping)
  BY DEF Right
<1>2. Head(s) = s[1]
  BY <1>1, TailFacts
<1>3. /\ Tail(s) \in Seq(Calls) /\ Alone(Tail(s), pumping)
      /\ \A i \in DOMAIN Tail(s) : i + 1 \in DOMAIN s /\ Tail(s)[i] = s[i + 1]
  BY <1>1, <1>2, AloneReturn
<1>4. \A i \in DOMAIN Tail(s) : Sure(Tail(s)[i], a, r, p)
  BY <1>3 DEF Right
<1> QED BY <1>3, <1>4 DEF Right

\* The ring of a controller is longer than it was.
LEMMA StaysRight ==
    ASSUME NEW s, NEW pumping, NEW a, NEW r, NEW p, NEW r2, Right(s, pumping, a, r, p),
           \A c \in Controllers : StaysFirst(r[c], r2[c])
    PROVE  Right(s, pumping, a, r2, p)
<1>1. ASSUME NEW i \in DOMAIN s PROVE Sure(s[i], a, r2, p)
  <2>1. s \in Seq(Calls) /\ Sure(s[i], a, r, p)
    BY DEF Right
  <2>2. s[i] \in Calls
    BY <2>1, LenProperties, ElementOfSeq
  <2> QED BY <2>1, <2>2 DEF Sure, Calls, StaysFirst
<1>2. Answering(r2, p)
  BY DEF Right, Answering, StaysFirst
<1> QED BY <1>1, <1>2 DEF Right

-----------------------------------------------------------------------------
(***************************************************************************)
(* Queues of events.                                                       *)
(***************************************************************************)

\* What the assumptions say of the constants, where proofs need it.
LEMMA Constants ==
    /\ NoOne \notin Controllers
    /\ RING_FRAMES \in Nat /\ RING_FRAMES >= 2
    /\ BEST_EFFORT_EVENT_MAX \in Nat /\ BEST_EFFORT_EVENT_MAX <= PENDING_EVENT_MAX
    /\ PENDING_EVENT_MAX \in Nat /\ MAX_HANDLE \in Nat /\ MAX_HANDLE >= 1 /\ AclPackets \in Nat
  <1>1. Cardinality(Controllers) \in Nat
    BY FS_CardinalityType, QemuBtAssumption
  <1> QED BY <1>1, QemuBtAssumption

\* queueReliable keeps a queue within its bound.
LEMMA Queued ==
    ASSUME NEW q, Queues(q), NEW d \in Controllers, NEW f \in Notice
    PROVE  Queues(queueReliable(q, d, f))
<1>1. q[d] \in Seq(Notice) /\ Len(q[d]) \in Nat
  BY LenProperties DEF Queues
<1>2. CASE Len(q[d]) < PENDING_EVENT_MAX
  <2>1. queueReliable(q, d, f) = [q EXCEPT ![d] = Append(q[d], f)]
    BY <1>2 DEF queueReliable, queueFrame
  <2>2. Append(q[d], f) \in Seq(Notice) /\ Len(Append(q[d], f)) <= PENDING_EVENT_MAX
    BY <1>1, <1>2, AppendFacts, Constants
  <2> QED BY <2>1, <2>2 DEF Queues
<1>3. CASE ~(Len(q[d]) < PENDING_EVENT_MAX)
  BY <1>3 DEF Queues, queueReliable, queueFrame
<1> QED BY <1>2, <1>3

\* A queue that is replaced by another one within the bound.
LEMMA Requeued ==
    ASSUME NEW q, Queues(q), NEW d \in Controllers, NEW s \in Seq(Notice), Len(s) <= PENDING_EVENT_MAX
    PROVE  Queues([q EXCEPT ![d] = s])
  BY DEF Queues

\* So many reports.
Reports(fit) == [i \in 1 .. fit |-> Report]

\* queueAdvertisingReport goes up to a bound of its own ...
LEMMA Fitting ==
    ASSUME NEW q, Queues(q), NEW d \in Controllers, NEW n \in Nat
    PROVE  \E fit \in Nat :
               /\ queueReports(q, d, n) = [q EXCEPT ![d] = q[d] \o Reports(fit)]
               /\ Len(q[d]) + fit <= PENDING_EVENT_MAX
<1>1. q[d] \in Seq(Notice) /\ Len(q[d]) \in Nat /\ Len(q[d]) <= PENDING_EVENT_MAX
  BY LenProperties DEF Queues
<1> DEFINE room == Max({0, BEST_EFFORT_EVENT_MAX - Len(q[d])})
           fit == Min({n, room})
<1>2. /\ room \in Nat
      /\ room = 0 \/ room = BEST_EFFORT_EVENT_MAX - Len(q[d])
  <2>1. \E x \in {0, BEST_EFFORT_EVENT_MAX - Len(q[d])} :
            \A y \in {0, BEST_EFFORT_EVENT_MAX - Len(q[d])} : x >= y
    BY <1>1, Constants
  <2>2. /\ room \in {0, BEST_EFFORT_EVENT_MAX - Len(q[d])}
        /\ \A y \in {0, BEST_EFFORT_EVENT_MAX - Len(q[d])} : room >= y
    BY <2>1 DEF Max
  <2> HIDE DEF room
  <2> QED BY <2>2, <1>1, Constants
<1> HIDE DEF room
<1>3. fit \in Nat /\ fit <= room
  <2>1. \E x \in {n, room} : \A y \in {n, room} : x <= y
    BY <1>2
  <2>2. fit \in {n, room} /\ \A y \in {n, room} : fit <= y
    BY <2>1 DEF Min
  <2> HIDE DEF fit
  <2> QED BY <2>2, <1>2
<1>4. queueReports(q, d, n) = [q EXCEPT ![d] = q[d] \o Reports(fit)]
  BY DEF queueReports, Reports, room
<1> HIDE DEF fit
<1>5. Len(q[d]) + fit <= PENDING_EVENT_MAX
  BY <1>1, <1>2, <1>3, Constants
<1> QED BY <1>3, <1>4, <1>5

\* ... by events like any other.
LEMMA ReportsTyped ==
    ASSUME NEW fit \in Nat
    PROVE  /\ Reports(fit) \in Seq(Notice) /\ Len(Reports(fit)) = fit
           /\ \A i \in DOMAIN Reports(fit) : Reports(fit)[i].type = "report"
<1>1. Report \in Notice /\ Report.type = "report"
  BY Constants DEF Report, Event, Notice
<1> QED BY <1>1 DEF Reports

\* A queue with its reports stays within its bound.
LEMMA Reported ==
    ASSUME NEW q, Queues(q), NEW d \in Controllers, NEW n \in Nat
    PROVE  Queues(queueReports(q, d, n))
<1>1. q[d] \in Seq(Notice)
  BY DEF Queues
<1>2. PICK fit \in Nat :
          /\ queueReports(q, d, n) = [q EXCEPT ![d] = q[d] \o Reports(fit)]
          /\ Len(q[d]) + fit <= PENDING_EVENT_MAX
  BY Fitting
<1>3. PICK reports : reports = Reports(fit)
  OBVIOUS
<1>4. reports \in Seq(Notice) /\ Len(reports) = fit
  BY <1>3, ReportsTyped
<1>5. q[d] \o reports \in Seq(Notice) /\ Len(q[d] \o reports) = Len(q[d]) + fit
  BY <1>1, <1>4, ConcatProperties
<1>6. Queues([q EXCEPT ![d] = q[d] \o reports])
  BY <1>2, <1>5, Requeued
<1> QED BY <1>2, <1>3, <1>6

\* dropBestEffortEvents only takes away.
LEMMA Dropped ==
    ASSUME NEW q, Queues(q), NEW d \in Controllers
    PROVE  Queues(dropBestEffortEvents(q, d))
<1>1. q[d] \in Seq(Notice) /\ Len(q[d]) \in Nat /\ Len(q[d]) <= PENDING_EVENT_MAX
  BY LenProperties DEF Queues
<1>2. withoutReports(q[d]) \in Seq(Notice) /\ Len(withoutReports(q[d])) <= Len(q[d])
  BY <1>1, Filtered
<1>3. Len(withoutReports(q[d])) \in Nat
  BY <1>2, LenProperties
<1>4. Queues([q EXCEPT ![d] = withoutReports(q[d])])
  BY <1>1, <1>2, <1>3, Constants, Requeued
<1> QED BY <1>4 DEF dropBestEffortEvents

-----------------------------------------------------------------------------
(***************************************************************************)
(* Connections.                                                            *)
(***************************************************************************)

\* A connection has its other end, or there is none.
LEMMA OtherEnd ==
    ASSUME MediumTyped, LinksTyped, Mutual, NEW c \in Controllers
    PROVE  IF Connected(c)
           THEN /\ c \in airControllers
                /\ m_connection[c].peer \in airControllers
                /\ m_connection[c].peer \in Controllers \ {c}
                /\ m_connection[m_connection[c].peer].peer = c
                /\ Connected(m_connection[c].peer)
                /\ m_connection[c].localHandle \in Handles
                /\ m_connection[c].peerHandle \in Handles
                /\ m_connection[c].peerHandle = m_connection[m_connection[c].peer].localHandle
                /\ m_connection[m_connection[c].peer].localHandle \in Handles
           ELSE m_connection[c] = NoConnection
<1>1. \A d \in Controllers : m_connection[d] # NoConnection =>
         /\ m_connection[d].peer \in airControllers \ {d} /\ d \in airControllers
         /\ m_connection[m_connection[d].peer].peer = d
         /\ m_connection[m_connection[d].peer].localHandle = m_connection[d].peerHandle
         /\ m_connection[d].localHandle \in Handles
  BY DEF Mutual
<1>2. NoConnection.peer = NoOne
  BY DEF NoConnection
<1>3. CASE Connected(c)
  <2>1. m_connection[c] # NoConnection
    BY <1>2, <1>3 DEF Connected
  <2>2. /\ m_connection[c].peer \in Controllers \ {c}
        /\ m_connection[m_connection[c].peer].peer = c
        /\ m_connection[m_connection[c].peer].localHandle = m_connection[c].peerHandle
    BY <1>1, <2>1 DEF MediumTyped
  <2>3. c # NoOne
    BY Constants
  <2>4. m_connection[m_connection[c].peer] # NoConnection
    BY <1>2, <2>2, <2>3
  <2>5. m_connection[m_connection[c].peer].localHandle \in Handles
    BY <1>1, <2>2, <2>4
  <2> QED BY <1>1, <1>3, <2>1, <2>2, <2>3, <2>5 DEF Connected
<1>4. CASE ~ Connected(c)
  <2>1. m_connection[c].peer = NoOne
    BY <1>4 DEF Connected
  <2> QED BY <1>1, <1>4, <2>1, Constants DEF MediumTyped
<1> QED BY <1>3, <1>4

\* While a controller is not connected, two handles are free at least.
LEMMA FreeHandle ==
    ASSUME MediumTyped, NEW c \in airControllers, m_connection[c] = NoConnection, NEW h
    PROVE  \E g \in Handles \ used : g # h
<1> SUFFICES ASSUME \A g \in Handles \ used : g = h
             PROVE  FALSE
  OBVIOUS
<1> DEFINE others == airControllers \ {c}
           f == [d \in others |-> m_connection[d].localHandle]
           R == {f[d] : d \in others}
<1>1. /\ IsFiniteSet(others) /\ Cardinality(others) \in Nat
      /\ Cardinality(others) <= Cardinality(Controllers) - 1
      /\ Cardinality(Controllers) \in Nat
  <2>1. IsFiniteSet(airControllers) /\ Cardinality(airControllers) <= Cardinality(Controllers)
    BY FS_Subset, QemuBtAssumption DEF MediumTyped
  <2>2. IsFiniteSet(others) /\ Cardinality(others) = Cardinality(airControllers) - 1
    BY <2>1, FS_RemoveElement
  <2>3. Cardinality(airControllers) \in Nat /\ Cardinality(Controllers) \in Nat /\ Cardinality(others) \in Nat
    BY <2>1, <2>2, FS_CardinalityType, QemuBtAssumption
  <2> QED BY <2>1, <2>2, <2>3
<1>2. IsFiniteSet(R) /\ Cardinality(R) <= Cardinality(others) /\ Cardinality(R) \in Nat
  <2>1. f \in Surjection(others, R)
    BY DEF Surjection
  <2> HIDE DEF R, f, others
  <2>3. IsFiniteSet(R) /\ Cardinality(R) <= Cardinality(others)
    BY <1>1, <2>1, FS_Surjection
  <2> QED BY <2>3, FS_CardinalityType
<1>3. used \subseteq R \union {0}
  BY DEF used, NoConnection
<1>4. Handles \subseteq R \union {h}
  BY <1>3 DEF Handles
<1> HIDE DEF R, others
<1>5. IsFiniteSet(R \union {h}) /\ Cardinality(R \union {h}) <= Cardinality(R) + 1
  <2>1. /\ IsFiniteSet(R \union {h})
        /\ Cardinality(R \union {h}) = IF h \in R THEN Cardinality(R) ELSE Cardinality(R) + 1
    BY <1>2, FS_AddElement
  <2> QED BY <1>2, <2>1
<1>6. Cardinality(Handles) <= Cardinality(R \union {h})
  BY <1>4, <1>5, FS_Subset
<1>7. Cardinality(Handles) = MAX_HANDLE
  BY FS_Interval, Constants DEF Handles
<1>8. Cardinality(R \union {h}) \in Nat
  BY <1>5, FS_CardinalityType
<1> QED BY <1>1, <1>2, <1>5, <1>6, <1>7, <1>8, Constants, QemuBtAssumption

\* The least of some handles.
LEMMA LeastHandle ==
    ASSUME NEW T, T \subseteq Handles, T # {}
    PROVE  Min(T) \in T /\ \A k \in T : Min(T) <= k
<1>1. T \subseteq Nat
  BY Constants DEF Handles
<1>2. \E m \in T : \A k \in T : m <= k
  BY <1>1, LeastNatural
<1> QED BY <1>2 DEF Min

\* allocateHandle finds one that nobody has, and then another one.
LEMMA Allocated ==
    ASSUME MediumTyped, NEW c \in airControllers, m_connection[c] = NoConnection,
           NEW n \in Handles, NEW h, h = allocateHandle(n), NEW g, g = allocateHandle(after(h))
    PROVE  h \in Handles \ used /\ g \in Handles \ used /\ h # g
<1> DEFINE free == Handles \ used
           ahead(m) == {k \in free : k >= m}
<1>1. free # {} /\ \E k \in free : k # h
  BY FreeHandle
<1>2. ASSUME NEW m
      PROVE  /\ allocateHandle(m) \in free
             /\ IF ahead(m) # {} THEN allocateHandle(m) \in ahead(m)
                ELSE \A k \in free : allocateHandle(m) <= k
  <2>1. allocateHandle(m) = Min(IF ahead(m) # {} THEN ahead(m) ELSE free)
    BY DEF allocateHandle
  <2>2. CASE ahead(m) # {}
    <3>1. allocateHandle(m) = Min(ahead(m))
      BY <2>1, <2>2
    <3>2. ahead(m) \subseteq Handles
      OBVIOUS
    <3> HIDE DEF ahead
    <3>3. allocateHandle(m) \in ahead(m)
      BY <2>2, <3>1, <3>2, LeastHandle
    <3> QED BY <2>2, <3>3 DEF ahead
  <2>3. CASE ahead(m) = {}
    <3>1. allocateHandle(m) = Min(free)
      BY <2>1, <2>3
    <3>2. free \subseteq Handles
      OBVIOUS
    <3> HIDE DEF free
    <3>3. allocateHandle(m) \in free /\ \A k \in free : allocateHandle(m) <= k
      BY <1>1, <3>1, <3>2, LeastHandle
    <3> QED BY <2>3, <3>3
  <2> QED BY <2>2, <2>3
<1>3. h \in free /\ g \in free
  BY <1>2
<1>4. PICK k \in free : k # h
  BY <1>1
<1>5. h \in Nat /\ k \in Nat /\ MAX_HANDLE \in Nat /\ 1 <= h /\ h <= MAX_HANDLE /\ 1 <= k /\ k <= MAX_HANDLE
  BY <1>3, <1>4, Constants DEF Handles
<1>6. CASE h = MAX_HANDLE
  <2>1. after(h) = 1
    BY <1>6 DEF after
  <2>2. ahead(1) = free
    BY Constants DEF Handles
  <2>3. ASSUME g = h PROVE FALSE
    <3>1. g = Min(ahead(1))
      BY <1>1, <2>1, <2>2 DEF allocateHandle
    <3>2. free \subseteq Handles
      OBVIOUS
    <3> HIDE DEF free, ahead
    <3>3. g <= k
      BY <1>4, <2>2, <3>1, <3>2, LeastHandle
    <3> QED BY <1>4, <1>5, <1>6, <2>3, <3>3
  <2> QED BY <1>3, <2>3
<1>7. CASE h # MAX_HANDLE
  <2>1. after(h) = h + 1
    BY <1>7 DEF after
  <2>2. CASE ahead(h + 1) # {}
    <3>1. g >= h + 1
      BY <1>2, <2>1, <2>2
    <3> QED BY <1>3, <1>5, <3>1
  <2>3. CASE ahead(h + 1) = {}
    <3>1. g <= k
      BY <1>2, <1>4, <2>1, <2>3
    <3>2. ~(k >= h + 1)
      BY <1>4, <2>3
    <3>3. k < h
      BY <1>4, <1>5, <3>2
    <3>4. g \in Nat
      BY <1>3, Constants DEF Handles
    <3> QED BY <1>3, <1>5, <3>1, <3>3, <3>4
  <2> QED BY <2>2, <2>3
<1> QED BY <1>3, <1>6, <1>7

-----------------------------------------------------------------------------
(***************************************************************************)
(* What the steps have in common.                                          *)
(***************************************************************************)

USE DEF medium, links, flow, credits, pumps

\* What is left alone keeps its part of the invariant.
LEMMA Same ==
    ASSUME IInv
    PROVE  /\ UNCHANGED medium => MediumTyped'
           /\ UNCHANGED flow => FlowTyped'
           /\ UNCHANGED credits => CreditsTyped'
           /\ UNCHANGED m_pendingCommandResponse => ResponseTyped'
           /\ UNCHANGED m_pendingAcl => AclTyped'
           /\ UNCHANGED m_pendingEvents => EventsTyped'
           /\ UNCHANGED tx => TxTyped'
           /\ UNCHANGED rx => RxTyped'
           /\ UNCHANGED pumps => PumpsTyped'
           /\ UNCHANGED host => HostTyped'
           /\ UNCHANGED links => LinksTyped'
           /\ UNCHANGED <<airControllers, m_connection>> => Mutual'
<1>1. UNCHANGED medium => MediumTyped'
  BY DEF IInv, DataTyped, MediumTyped
<1>2. UNCHANGED flow => FlowTyped'
  BY DEF IInv, DataTyped, FlowTyped
<1>3. UNCHANGED credits => CreditsTyped'
  BY DEF IInv, DataTyped, CreditsTyped
<1>4. UNCHANGED m_pendingCommandResponse => ResponseTyped'
  BY DEF IInv, DataTyped, ResponseTyped
<1>5. UNCHANGED m_pendingAcl => AclTyped'
  BY DEF IInv, DataTyped, AclTyped
<1>6. UNCHANGED m_pendingEvents => EventsTyped'
  BY DEF IInv, DataTyped, EventsTyped
<1>7. UNCHANGED tx => TxTyped'
  BY DEF IInv, DataTyped, TxTyped
<1>8. UNCHANGED rx => RxTyped'
  BY DEF IInv, DataTyped, RxTyped
<1>9. UNCHANGED pumps => PumpsTyped'
  BY DEF IInv, DataTyped, PumpsTyped
<1>10. UNCHANGED host => HostTyped'
  BY DEF IInv, DataTyped, HostTyped
<1>11. UNCHANGED links => LinksTyped'
  BY DEF IInv, LinksTyped
<1>12. UNCHANGED <<airControllers, m_connection>> => Mutual'
  BY DEF IInv, Mutual
<1> QED BY <1>1, <1>2, <1>3, <1>4, <1>5, <1>6, <1>7, <1>8, <1>9, <1>10, <1>11, <1>12

\* The innermost call.
LEMMA TopFacts ==
    ASSUME IInv, stack # <<>>
    PROVE  /\ Top \in Calls /\ Top.at \in Labels /\ Top.of \in Controllers
           /\ Top.of \in airControllers /\ Top.todo \subseteq airControllers
           /\ Sure(Top, airControllers, tx, m_pendingCommandResponse)
           /\ Working(Top) => m_pumping[Top.of]
<1>1. stack \in Seq(Calls) /\ Alone(stack, m_pumping)
      /\ \A i \in DOMAIN stack : Sure(stack[i], airControllers, tx, m_pendingCommandResponse)
  BY DEF IInv, StackRight, Right
<1>2. Top = stack[1] /\ 1 \in DOMAIN stack /\ Top \in Calls
  BY <1>1, TailFacts, LenProperties DEF Top
<1>3. Sure(Top, airControllers, tx, m_pendingCommandResponse)
  BY <1>1, <1>2
<1>4. Working(Top) => m_pumping[Top.of]
  BY <1>1, <1>2 DEF Alone
<1> QED BY <1>2, <1>3, <1>4 DEF Calls, Sure

\* A call at another place.
LEMMA At ==
    ASSUME NEW k \in Calls, NEW at \in Labels
    PROVE  /\ [k EXCEPT !.at = at] \in Calls
           /\ [k EXCEPT !.at = at].at = at
           /\ [k EXCEPT !.at = at].of = k.of
           /\ [k EXCEPT !.at = at].todo = k.todo
  BY DEF Calls

\* A call that works goes on working as x, with the rings r and the responses p.
LEMMA Works ==
    ASSUME IInv, stack # <<>>, Working(Top),
           NEW x \in Calls, Working(x), x.of = Top.of, x.todo \subseteq airControllers,
           NEW b, Quiet(b, airControllers),
           NEW r, NEW p,
           \A c \in Controllers \ {Top.of} :
               StaysFirst(tx[c], r[c]) /\ p[c] = m_pendingCommandResponse[c],
           p[Top.of] # <<>> => First(r[Top.of], "command"),
           x.at = "read" => First(r[x.of], "acl"),
           x.at \in {"respond", "committed"} => First(r[x.of], "command"),
           x.at = "respond" => p[x.of] # <<>>,
           x.at = "committed" => p[x.of] = <<>>,
           NEW t, t = b \o <<x>> \o Tail(stack)
    PROVE  Right(t, m_pumping, airControllers, r, p)
<1>1. Right(stack, m_pumping, airControllers, tx, m_pendingCommandResponse) /\ Top = Head(stack)
  BY DEF IInv, StackRight, Top
<1>2. Sure(x, airControllers, r, p)
  BY TopFacts DEF Sure
<1>3. Kept(stack, tx, m_pendingCommandResponse, r, p)
  BY <1>1 DEF Kept
<1>4. Working(Head(stack)) /\ x.of = Head(stack).of
  BY <1>1
<1>5. Answering(r, p)
  BY <1>1 DEF Right, Answering, StaysFirst
<1> QED BY <1>1, <1>2, <1>3, <1>4, <1>5, KeepsOn

\* Nothing changes in rings and responses that stay as they are.
LEMMA SameRings ==
    ASSUME IInv
    PROVE  /\ Answering(tx, m_pendingCommandResponse)
           /\ \A c \in Controllers : StaysFirst(tx[c], tx[c])
  BY DEF IInv, StackRight, Right, StaysFirst

\* The same, when only the place changes and nothing else.
LEMMA WorksOn ==
    ASSUME IInv, stack # <<>>, Working(Top),
           NEW at \in Labels \ {"pump", "again", "drain", "draining", "read", "respond", "committed"},
           NEW b, Quiet(b, airControllers),
           UNCHANGED <<m_pumping, airControllers, tx, m_pendingCommandResponse>>,
           GoOn(at, b)
    PROVE  StackRight'
<1> DEFINE x == [Top EXCEPT !.at = at]
<1>1. Top \in Calls /\ Top.todo \subseteq airControllers
  BY TopFacts
<1>2. x \in Calls /\ x.at = at /\ x.of = Top.of /\ x.todo = Top.todo
  BY <1>1, At
<1>3. stack' = b \o <<x>> \o Tail(stack)
  BY DEF GoOn, Continue
<1> HIDE DEF x
<1>4. PICK y : y = x
  OBVIOUS
<1>5. Working(y) /\ y \in Calls /\ y.of = Top.of /\ y.todo \subseteq airControllers
      /\ y.at \notin {"read", "respond", "committed"}
  BY <1>1, <1>2, <1>4 DEF Working
<1>6. Answering(tx, m_pendingCommandResponse) /\ \A c \in Controllers : StaysFirst(tx[c], tx[c])
  BY SameRings
<1>7. Right(stack', m_pumping, airControllers, tx, m_pendingCommandResponse)
  <2>1. m_pendingCommandResponse[Top.of] # <<>> => First(tx[Top.of], "command")
    BY <1>6, TopFacts DEF Answering
  <2> QED BY <1>3, <1>4, <1>5, <1>6, <2>1, Works
<1> QED BY <1>7 DEF StackRight

\* Frames of a ring by their types.
LEMMA FrameKinds ==
    ASSUME IInv, NEW c \in Controllers, tx[c] # <<>>
    PROVE  /\ Head(tx[c]) \in Command \union Packet \union Returned
           /\ Head(tx[c]).type = "acl" => Head(tx[c]) \in Packet
           /\ Head(tx[c]).type = "returned" => Head(tx[c]) \in Returned
           /\ Head(tx[c]).type = "command" => Head(tx[c]) \in Command
<1>1. tx[c] \in Seq(Command \union Packet \union Returned)
  BY DEF IInv, DataTyped, TxTyped
<1>2. Head(tx[c]) \in Command \union Packet \union Returned
  BY <1>1, HeadTailProperties
<1> QED BY <1>2 DEF Command, Packet, Returned

\* One frame less in a ring.
LEMMA TxTail ==
    ASSUME IInv, NEW c \in Controllers, tx[c] # <<>>, tx' = [tx EXCEPT ![c] = Tail(@)]
    PROVE  TxTyped'
<1>1. tx[c] \in Seq(Command \union Packet \union Returned) /\ Len(tx[c]) < RING_FRAMES
  BY DEF IInv, DataTyped, TxTyped
<1>2. /\ Tail(tx[c]) \in Seq(Command \union Packet \union Returned)
      /\ Len(Tail(tx[c])) = Len(tx[c]) - 1 /\ Len(tx[c]) \in Nat
  BY <1>1, HeadTailProperties, LenProperties
<1>3. Len(Tail(tx[c])) < RING_FRAMES
  BY <1>1, <1>2, Constants
<1> QED BY <1>2, <1>3 DEF IInv, DataTyped, TxTyped

\* A packet is forwarded: the peer is there, and its credits and both queues
\* stay in their bounds.
LEMMA RouteStep ==
    ASSUME IInv, NEW c \in Controllers, NEW frame \in Packet,
           Live(c, frame), ~ Blocked(c), Route(c, frame)
    PROVE  CreditsTyped' /\ EventsTyped' /\ m_connection[c].peer \in airControllers
<1> DEFINE p == m_connection[c].peer
           h == m_connection[c].peerHandle
<1>1. MediumTyped /\ LinksTyped /\ Mutual /\ CreditsTyped /\ FlowTyped /\ EventsTyped
  BY DEF IInv, DataTyped
<1>2. /\ p \in Controllers /\ p \in airControllers /\ h \in Handles
      /\ m_connection[p].localHandle \in Handles
  BY <1>1, OtherEnd DEF Live
<1>3. CreditsTyped'
  <2>1. CASE controllerToHostFlow[p]
    <3>1. hostAclCredits[p] # 0
      BY <2>1 DEF Blocked
    <3>2. hostAclCredits[p] \in Nat /\ hostAclCredits[p] <= AclPackets /\ AclPackets \in Nat
      BY <1>1, <1>2, Constants DEF CreditsTyped
    <3>3. hostAclCredits[p] - 1 \in 0 .. AclPackets
      BY <3>1, <3>2
    <3>4. hostAclCredits' \in [Controllers -> 0 .. AclPackets]
      BY <1>1, <2>1, <3>3 DEF Route, CreditsTyped
    <3>5. m_hostAclOutstanding' = [m_hostAclOutstanding EXCEPT ![p][m_connection[p].localHandle] = @ + 1]
      BY <2>1 DEF Route
    <3>6. m_hostAclOutstanding' \in [Controllers -> [Handles -> Nat]]
      BY <1>1, <1>2, <3>5 DEF CreditsTyped
    <3> QED BY <3>4, <3>6 DEF CreditsTyped
  <2>2. CASE ~ controllerToHostFlow[p]
    BY <1>1, <2>2 DEF Route, CreditsTyped
  <2> QED BY <2>1, <2>2
<1>4. EventsTyped'
  <2>1. Event("acl", h, frame.n) \in Notice /\ Event("completed", frame.handle, 1) \in Notice
    BY <1>2, Constants DEF Event, Notice, Packet, Handles
  <2>2. Queues(queueReliable(m_pendingEvents, p, Event("acl", h, frame.n)))
    BY <1>1, <1>2, <2>1, Queued DEF EventsTyped
  <2>3. Queues(queueReliable(queueReliable(m_pendingEvents, p, Event("acl", h, frame.n)),
                             c, Event("completed", frame.handle, 1)))
    BY <2>1, <2>2, Queued
  <2> QED BY <2>3 DEF Route, EventsTyped
<1> QED BY <1>2, <1>3, <1>4

-----------------------------------------------------------------------------
(***************************************************************************)
(* The steps of pumpTx.                                                    *)
(***************************************************************************)

\* pumpTx is entered, or notes that it has been asked for; a waiting packet goes or is dropped.
LEMMA PumpTxStep ==
    ASSUME IInv, PumpTx
    PROVE  IInv'
<1>1. stack # <<>> /\ Top.at = "pump" /\ ~ Working(Top) /\ Top = Head(stack)
  BY DEF PumpTx, In, Working, Top
<1>2. /\ Top \in Calls /\ Top.of \in Controllers /\ Top.of \in airControllers
      /\ Top.todo \subseteq airControllers
  BY <1>1, TopFacts
<1>3. /\ MediumTyped' /\ FlowTyped' /\ ResponseTyped' /\ TxTyped' /\ RxTyped' /\ HostTyped'
      /\ LinksTyped' /\ Mutual'
  BY Same DEF PumpTx
<1>4. UNCHANGED <<airControllers, tx, m_pendingCommandResponse>>
  BY DEF PumpTx
<1>5. /\ Right(stack, m_pumping, airControllers, tx, m_pendingCommandResponse)
      /\ m_pumping \in [Controllers -> BOOLEAN] /\ AclTyped /\ PumpsTyped
  BY DEF IInv, DataTyped, StackRight, PumpsTyped
<1>6. CASE /\ m_pumping[Top.of]
           /\ m_pumpRequested' = [m_pumpRequested EXCEPT ![Top.of] = TRUE]
           /\ Return
           /\ UNCHANGED <<m_pumping, m_pendingAcl, m_pendingEvents, credits>>
  <2>1. CreditsTyped' /\ AclTyped' /\ EventsTyped'
    BY <1>6, Same
  <2>2. PumpsTyped'
    BY <1>4, <1>5, <1>6 DEF PumpsTyped, PumpTx
  <2>3. Right(Tail(stack), m_pumping, airControllers, tx, m_pendingCommandResponse)
    BY <1>1, <1>5, Returns
  <2>4. StackRight'
    BY <1>4, <1>6, <2>3 DEF StackRight, Return
  <2> QED BY <1>3, <2>1, <2>2, <2>4 DEF IInv, DataTyped
<1>7. ASSUME ~ m_pumping[Top.of],
             m_pumping' = [m_pumping EXCEPT ![Top.of] = TRUE],
             NEW b, Quiet(b, airControllers), GoOn("events", b)
      PROVE  StackRight'
  <2> DEFINE x == [Top EXCEPT !.at = "events"]
  <2>1. x \in Calls /\ x.at = "events" /\ x.of = Top.of /\ x.todo = Top.todo
    BY <1>2, At DEF Labels
  <2>2. stack' = b \o <<x>> \o Tail(stack)
    BY <1>7 DEF GoOn, Continue
  <2> HIDE DEF x
  <2>3. PICK y : y = x
    OBVIOUS
  <2>4. Working(y) /\ y \in Calls /\ y.of = Top.of
    BY <2>1, <2>3 DEF Working
  <2>5. Sure(y, airControllers, tx, m_pendingCommandResponse)
    BY <1>2, <2>1, <2>3 DEF Sure
  <2>6. stack' = b \o <<y>> \o Tail(stack) /\ ~ Working(Head(stack)) /\ ~ m_pumping[y.of]
    BY <1>1, <1>7, <2>2, <2>3, <2>4
  <2>7. Right(stack', [m_pumping EXCEPT ![y.of] = TRUE], airControllers, tx, m_pendingCommandResponse)
    BY <1>1, <1>5, <1>7, <2>4, <2>5, <2>6, Begins
  <2> QED BY <1>4, <1>7, <2>4, <2>7 DEF StackRight
<1>8. CASE ~ m_pumping[Top.of] /\ m_pumping' = [m_pumping EXCEPT ![Top.of] = TRUE]
           /\ UNCHANGED m_pumpRequested
  <2> DEFINE c == Top.of
             acl == m_pendingAcl[c]
  <2>1. PumpsTyped'
    BY <1>2, <1>5, <1>8 DEF PumpsTyped, PumpTx
  <2>2. CASE /\ GoOn("events", <<>>)
             /\ UNCHANGED <<m_pendingEvents, credits>>
             /\ m_pendingAcl' = m_pendingAcl \/ m_pendingAcl' = [m_pendingAcl EXCEPT ![c] = <<>>]
    <3>1. CreditsTyped' /\ EventsTyped'
      BY <2>2, Same
    <3>2. AclTyped'
      <4>1. CASE m_pendingAcl' = m_pendingAcl
        BY <4>1, Same
      <4>2. CASE m_pendingAcl' = [m_pendingAcl EXCEPT ![c] = <<>>]
        BY <1>2, <1>5, <4>2, EmptySeq DEF AclTyped
      <4> QED BY <2>2, <4>1, <4>2
    <3>3. StackRight'
      BY <1>7, <1>8, <2>2, NothingQuiet
    <3> QED BY <1>3, <2>1, <3>1, <3>2, <3>3 DEF IInv, DataTyped
  <2>3. CASE /\ acl # <<>> /\ Live(c, acl[1]) /\ ~ Blocked(c)
             /\ m_pendingAcl' = [m_pendingAcl EXCEPT ![c] = <<>>]
             /\ Route(c, acl[1])
             /\ GoOn("events", <<Call("drain", m_connection[c].peer)>>)
    <3>1. acl[1] \in Packet
      BY <1>2, <1>5, <2>3, TailFacts DEF AclTyped
    <3>2. CreditsTyped' /\ EventsTyped' /\ m_connection[c].peer \in airControllers
      BY <1>2, <2>3, <3>1, RouteStep
    <3>3. AclTyped'
      BY <1>2, <1>5, <2>3, EmptySeq DEF AclTyped
    <3>4. airControllers \subseteq Controllers
      BY DEF IInv, DataTyped, MediumTyped
    <3>5. PICK b : b = <<Call("drain", m_connection[c].peer)>>
      OBVIOUS
    <3>6. Quiet(b, airControllers) /\ GoOn("events", b)
      BY <2>3, <3>2, <3>4, <3>5, QuietCalls
    <3>7. StackRight'
      BY <1>7, <1>8, <3>6
    <3> QED BY <1>3, <2>1, <3>2, <3>3, <3>7 DEF IInv, DataTyped
  <2> QED BY <1>8, <2>2, <2>3 DEF PumpTx
<1> QED BY <1>6, <1>8 DEF PumpTx

\* pumpTx calls pumpPendingEvents, or skips it.
LEMMA PumpEventsStep ==
    ASSUME IInv, PumpEvents
    PROVE  IInv'
<1>1. stack # <<>> /\ Top.at = "events" /\ Working(Top)
  BY DEF PumpEvents, In, Working
<1>2. Top.of \in airControllers /\ airControllers \subseteq Controllers
  BY <1>1, TopFacts DEF IInv, DataTyped, MediumTyped
<1>3. DataTyped' /\ LinksTyped' /\ Mutual'
  BY Same DEF PumpEvents, DataTyped
<1>4. \E at \in {"check", "loop"}, b \in {<<Call("drain", Top.of)>>, <<>>} : GoOn(at, b)
  BY DEF PumpEvents
<1>5. PICK at \in {"check", "loop"}, b \in {<<Call("drain", Top.of)>>, <<>>} : GoOn(at, b)
  BY <1>4
<1>6. Quiet(b, airControllers)
  BY <1>2, QuietCalls
<1>7. StackRight'
  BY <1>1, <1>5, <1>6, WorksOn DEF PumpEvents, Labels
<1> QED BY <1>3, <1>7 DEF IInv

\* pumpTx leaves its loop.
LEMMA LeaveStep ==
    ASSUME IInv, Leave
    PROVE  IInv'
<1>1. stack # <<>> /\ Working(Top)
  BY DEF Leave, AtLoop, In, Working
<1>2. DataTyped' /\ LinksTyped' /\ Mutual'
  BY Same DEF Leave, DataTyped
<1>3. StackRight'
  BY <1>1, WorksOn, NothingQuiet DEF Leave, Labels
<1> QED BY <1>2, <1>3 DEF IInv

\* A response waits for room in the ring.
LEMMA ResponseWaitsStep ==
    ASSUME IInv, ResponseWaits
    PROVE  IInv'
<1>1. stack # <<>> /\ Working(Top)
  BY DEF ResponseWaits, Responding, AtLoop, In, Working
<1>2. DataTyped' /\ LinksTyped' /\ Mutual'
  BY Same DEF ResponseWaits, DataTyped
<1>3. StackRight'
  BY <1>1, WorksOn, NothingQuiet DEF ResponseWaits, Labels
<1> QED BY <1>2, <1>3 DEF IInv

\* handleAclFrame drops, holds back or forwards a packet.
LEMMA PumpAclStep ==
    ASSUME IInv, PumpAcl
    PROVE  IInv'
<1> DEFINE c == Top.of
           frame == Head(tx[c])
<1>1. stack # <<>> /\ Working(Top) /\ tx[c] # <<>> /\ frame.type = "acl"
  BY DEF PumpAcl, AtLoop, In, Working
<1>2. /\ Top \in Calls /\ c \in Controllers /\ c \in airControllers /\ Top.todo \subseteq airControllers
      /\ airControllers \subseteq Controllers /\ AclTyped
  BY <1>1, TopFacts DEF IInv, DataTyped, MediumTyped
<1>3. /\ MediumTyped' /\ FlowTyped' /\ ResponseTyped' /\ TxTyped' /\ RxTyped' /\ HostTyped'
      /\ PumpsTyped' /\ LinksTyped' /\ Mutual'
  BY Same DEF PumpAcl
<1>4. UNCHANGED <<airControllers, tx, m_pendingCommandResponse, m_pumping>>
  BY DEF PumpAcl
<1>5. frame \in Packet
  BY <1>1, <1>2, FrameKinds
<1>6. ASSUME NEW b, Quiet(b, airControllers), GoOn("read", b)
      PROVE  StackRight'
  <2> DEFINE x == [Top EXCEPT !.at = "read"]
  <2>1. x \in Calls /\ x.at = "read" /\ x.of = Top.of /\ x.todo = Top.todo
    BY <1>2, At DEF Labels
  <2>2. stack' = b \o <<x>> \o Tail(stack)
    BY <1>6 DEF GoOn, Continue
  <2> HIDE DEF x
  <2>3. PICK y : y = x
    OBVIOUS
  <2>4. Working(y) /\ y \in Calls /\ y.of = Top.of /\ y.at = "read" /\ y.todo \subseteq airControllers
    BY <1>2, <2>1, <2>3 DEF Working
  <2>5. First(tx[c], "acl") /\ m_pendingCommandResponse[c] = <<>>
    BY <1>1 DEF First, PumpAcl
  <2>6. Right(stack', m_pumping, airControllers, tx, m_pendingCommandResponse)
    BY <1>1, <1>6, <2>2, <2>3, <2>4, <2>5, SameRings, Works
  <2> QED BY <1>4, <2>6 DEF StackRight
<1>7. CASE /\ GoOn("read", <<>>) /\ UNCHANGED <<m_pendingEvents, credits>>
           /\ m_pendingAcl' = m_pendingAcl \/ m_pendingAcl' = [m_pendingAcl EXCEPT ![c] = <<frame>>]
  <2>1. CreditsTyped' /\ EventsTyped'
    BY <1>7, Same
  <2>2. <<frame>> \in Seq(Packet) /\ Len(<<frame>>) = 1
    BY <1>5
  <2>3. AclTyped'
    <3>1. CASE m_pendingAcl' = m_pendingAcl
      BY <3>1, Same
    <3>2. CASE m_pendingAcl' = [m_pendingAcl EXCEPT ![c] = <<frame>>]
      BY <1>2, <2>2, <3>2 DEF AclTyped
    <3> QED BY <1>7, <3>1, <3>2
  <2>4. StackRight'
    BY <1>6, <1>7, NothingQuiet
  <2> QED BY <1>3, <2>1, <2>3, <2>4 DEF IInv, DataTyped
<1>8. CASE /\ Live(c, frame) /\ ~ Blocked(c) /\ Route(c, frame)
           /\ GoOn("read", <<Call("drain", m_connection[c].peer)>>)
           /\ UNCHANGED m_pendingAcl
  <2>1. CreditsTyped' /\ EventsTyped' /\ m_connection[c].peer \in airControllers
    BY <1>2, <1>5, <1>8, RouteStep
  <2>2. AclTyped'
    BY <1>8, Same
  <2>3. PICK b : b = <<Call("drain", m_connection[c].peer)>>
    OBVIOUS
  <2>4. Quiet(b, airControllers) /\ GoOn("read", b)
    BY <1>2, <1>8, <2>1, <2>3, QuietCalls
  <2>5. StackRight'
    BY <1>6, <2>4
  <2> QED BY <1>3, <2>1, <2>2, <2>5 DEF IInv, DataTyped
<1> QED BY <1>7, <1>8 DEF PumpAcl

\* The frame has been dealt with, and the call goes on.
LEMMA Taken ==
    ASSUME IInv, stack # <<>>, Working(Top), tx' = [tx EXCEPT ![Top.of] = Tail(@)],
           UNCHANGED <<airControllers, m_pumping>>,
           \A d \in Controllers \ {Top.of} : m_pendingCommandResponse'[d] = m_pendingCommandResponse[d],
           m_pendingCommandResponse'[Top.of] = <<>>,
           NEW x \in Calls, Working(x), x.of = Top.of, x.todo \subseteq airControllers,
           x.at \notin {"read", "respond", "committed"},
           NEW b, Quiet(b, airControllers), stack' = b \o <<x>> \o Tail(stack)
    PROVE  StackRight'
<1>1. tx \in [Controllers -> Seq(Command \union Packet \union Returned)]
  BY DEF IInv, DataTyped, TxTyped
<1>2. \A d \in Controllers \ {Top.of} : StaysFirst(tx[d], tx'[d])
  BY <1>1 DEF StaysFirst
<1>3. Right(stack', m_pumping, airControllers, tx', m_pendingCommandResponse')
  BY <1>2, Works
<1> QED BY <1>3 DEF StackRight

\* The same, when only the place changes.
LEMMA TakenOn ==
    ASSUME IInv, stack # <<>>, Working(Top), tx' = [tx EXCEPT ![Top.of] = Tail(@)],
           UNCHANGED <<airControllers, m_pumping>>,
           \A d \in Controllers \ {Top.of} : m_pendingCommandResponse'[d] = m_pendingCommandResponse[d],
           m_pendingCommandResponse'[Top.of] = <<>>,
           NEW at \in {"check", "loop"},
           NEW b, Quiet(b, airControllers), GoOn(at, b)
    PROVE  StackRight'
<1> DEFINE x == [Top EXCEPT !.at = at]
<1>1. Top \in Calls /\ Top.todo \subseteq airControllers
  BY TopFacts
<1>2. x \in Calls /\ x.at = at /\ x.of = Top.of /\ x.todo = Top.todo
  <2>1. at \in Labels
    BY DEF Labels
  <2> QED BY <1>1, <2>1, At
<1>3. stack' = b \o <<x>> \o Tail(stack)
  BY DEF GoOn, Continue
<1> HIDE DEF x
<1>4. PICK y : y = x
  OBVIOUS
<1>5. Working(y) /\ y \in Calls /\ y.of = Top.of /\ y.todo \subseteq airControllers
      /\ y.at \notin {"read", "respond", "committed"}
  BY <1>1, <1>2, <1>4 DEF Working
<1> QED BY <1>3, <1>4, <1>5, Taken

\* The packet is taken from the ring.
LEMMA PumpReadStep ==
    ASSUME IInv, PumpRead
    PROVE  IInv'
<1>1. stack # <<>> /\ Working(Top) /\ Top.at = "read"
  BY DEF PumpRead, In, Working
<1>2. /\ Top.of \in Controllers /\ Top.of \in airControllers /\ airControllers \subseteq Controllers
      /\ First(tx[Top.of], "acl")
  BY <1>1, TopFacts DEF IInv, DataTyped, MediumTyped, Sure
<1>3. /\ MediumTyped' /\ FlowTyped' /\ CreditsTyped' /\ ResponseTyped' /\ AclTyped' /\ EventsTyped'
      /\ RxTyped' /\ PumpsTyped' /\ HostTyped' /\ LinksTyped' /\ Mutual'
  BY Same DEF PumpRead
<1>4. TxTyped'
  BY <1>2, TxTail DEF PumpRead, First
<1>5. PICK b : b = <<Call("drain", Top.of)>>
  OBVIOUS
<1>6. Quiet(b, airControllers) /\ GoOn("check", b)
  BY <1>2, <1>5, QuietCalls DEF PumpRead
<1>7. m_pendingCommandResponse[Top.of] = <<>>
  BY <1>2, SameRings DEF Answering, First
<1>8. StackRight'
  BY <1>1, <1>6, <1>7, TakenOn DEF PumpRead
<1> QED BY <1>3, <1>4, <1>8 DEF IInv, DataTyped

\* Credits come back, no more than were out.
LEMMA HostCompletedPacketsStep ==
    ASSUME IInv, HostCompletedPackets
    PROVE  IInv'
<1> DEFINE c == Top.of
           frame == Head(tx[c])
           h == frame.handle
<1>1. stack # <<>> /\ Working(Top) /\ tx[c] # <<>> /\ frame.type = "returned"
  BY DEF HostCompletedPackets, AtLoop, In, Working
<1>2. c \in Controllers /\ CreditsTyped /\ FlowTyped /\ PumpsTyped /\ LinksTyped
  BY <1>1, TopFacts DEF IInv, DataTyped
<1>3. /\ MediumTyped' /\ FlowTyped' /\ ResponseTyped' /\ AclTyped' /\ EventsTyped'
      /\ RxTyped' /\ HostTyped' /\ LinksTyped' /\ Mutual'
  BY Same DEF HostCompletedPackets
<1>4. TxTyped'
  BY <1>1, <1>2, TxTail DEF HostCompletedPackets
<1>5. frame.handle \in Handles /\ frame.n \in Nat
  BY <1>1, <1>2, FrameKinds DEF Returned
<1>6. CreditsTyped' /\ PumpsTyped'
  <2>1. CASE UNCHANGED <<credits, m_deferredWake>>
    BY <1>2, <2>1 DEF CreditsTyped, PumpsTyped, HostCompletedPackets
  <2>2. CASE /\ frame.n <= m_hostAclOutstanding[c][h]
             /\ frame.n <= hostAclPackets[c] - hostAclCredits[c]
             /\ hostAclCredits' = [hostAclCredits EXCEPT ![c] = @ + frame.n]
             /\ m_hostAclOutstanding' = [m_hostAclOutstanding EXCEPT ![c][h] = @ - frame.n]
             /\ m_deferredWake' = [m_deferredWake EXCEPT
                    ![c] = IF frame.n > 0 /\ Connected(c) THEN m_connection[c].peer ELSE @]
    <3>1. /\ hostAclCredits[c] \in Nat /\ hostAclPackets[c] \in Nat /\ hostAclPackets[c] <= AclPackets
          /\ AclPackets \in Nat
      BY <1>2, Constants DEF CreditsTyped, FlowTyped
    <3>2. hostAclCredits[c] + frame.n \in 0 .. AclPackets
      BY <1>5, <2>2, <3>1
    <3>3. hostAclCredits' \in [Controllers -> 0 .. AclPackets]
      BY <1>2, <2>2, <3>2 DEF CreditsTyped
    <3>4. m_hostAclOutstanding[c][h] - frame.n \in Nat
      BY <1>2, <1>5, <2>2 DEF CreditsTyped
    <3>5. m_hostAclOutstanding' \in [Controllers -> [Handles -> Nat]]
      BY <1>2, <1>5, <2>2, <3>4 DEF CreditsTyped
    <3>6. m_connection[c].peer \in Controllers \union {NoOne}
      BY <1>2 DEF LinksTyped, Connection
    <3>7. m_deferredWake' \in [Controllers -> Controllers \union {NoOne}]
      BY <1>2, <2>2, <3>6 DEF PumpsTyped
    <3> QED BY <1>2, <3>3, <3>5, <3>7 DEF CreditsTyped, PumpsTyped, HostCompletedPackets
  <2> QED BY <2>1, <2>2 DEF HostCompletedPackets
<1>7. StackRight'
  BY <1>1, NothingQuiet, TakenOn DEF HostCompletedPackets
<1> QED BY <1>3, <1>4, <1>6, <1>7 DEF IInv, DataTyped

-----------------------------------------------------------------------------
(***************************************************************************)
(* Commands and their responses.                                           *)
(***************************************************************************)

\* A command is looked at, and its response made.
LEMMA DispatchCommandStep ==
    ASSUME IInv, DispatchCommand
    PROVE  IInv'
<1> DEFINE c == Top.of
           command == Head(tx[c])
           response == [op |-> command.op, arg |-> command.arg, ok |-> Accepted(c, command)]
<1>1. stack # <<>> /\ Working(Top) /\ tx[c] # <<>> /\ command.type = "command"
  BY DEF DispatchCommand, AtLoop, In, Working
<1>2. /\ Top \in Calls /\ c \in Controllers /\ Top.todo \subseteq airControllers
      /\ MediumTyped /\ ResponseTyped
  BY <1>1, TopFacts DEF IInv, DataTyped
<1>3. /\ MediumTyped' /\ FlowTyped' /\ CreditsTyped' /\ AclTyped' /\ EventsTyped'
      /\ TxTyped' /\ RxTyped' /\ PumpsTyped' /\ HostTyped' /\ LinksTyped' /\ Mutual'
  BY Same DEF DispatchCommand
<1>4. command \in Command
  BY <1>1, <1>2, FrameKinds
<1>5. Accepted(c, command) \in BOOLEAN
  <2>1. advertising[c] \in BOOLEAN /\ scanning[c] \in BOOLEAN
    BY <1>2 DEF MediumTyped
  <2> HIDE DEF c, command
  <2> QED BY <2>1 DEF Accepted, Live, Connected
<1>6. response \in Response
  BY <1>4, <1>5 DEF Command, Response
<1>7. m_pendingCommandResponse' = [m_pendingCommandResponse EXCEPT ![c] = <<response>>]
  BY DEF DispatchCommand
<1> HIDE DEF response
<1>8. ResponseTyped'
  <2>1. <<response>> \in Seq(Response) /\ Len(<<response>>) = 1
    BY <1>6
  <2> QED BY <1>2, <1>7, <2>1 DEF ResponseTyped
<1>9. StackRight'
  <2> DEFINE x == [Top EXCEPT !.at = "respond"]
  <2>1. x \in Calls /\ x.at = "respond" /\ x.of = Top.of /\ x.todo = Top.todo
    BY <1>2, At DEF Labels
  <2>2. stack' = <<>> \o <<x>> \o Tail(stack)
    BY DEF DispatchCommand, GoOn, Continue
  <2> HIDE DEF x
  <2>3. PICK y : y = x
    OBVIOUS
  <2>4. Working(y) /\ y \in Calls /\ y.of = Top.of /\ y.at = "respond" /\ y.todo \subseteq airControllers
    BY <1>2, <2>1, <2>3 DEF Working
  <2>5. \A d \in Controllers \ {c} : m_pendingCommandResponse'[d] = m_pendingCommandResponse[d]
    BY <1>2, <1>7 DEF ResponseTyped
  <2>8. First(tx[c], "command")
    BY <1>1 DEF First
  <2>6. m_pendingCommandResponse'[c] # <<>>
    BY <1>2, <1>7 DEF ResponseTyped
  <2>7. Right(stack', m_pumping, airControllers, tx, m_pendingCommandResponse')
    BY <1>1, <2>2, <2>3, <2>4, <2>5, <2>6, <2>8, NothingQuiet, SameRings, Works
  <2> QED BY <2>7 DEF StackRight, DispatchCommand
<1> QED BY <1>3, <1>8, <1>9 DEF IInv, DataTyped

\* A response goes out: it is there, and so is the command in the ring.
LEMMA Responded ==
    ASSUME IInv, NEW c, NEW ops, NEW ok \in BOOLEAN, Responds(c, ops, ok)
    PROVE  /\ stack # <<>> /\ Working(Top) /\ c = Top.of
           /\ Top \in Calls /\ c \in Controllers /\ c \in airControllers
           /\ Top.todo \subseteq airControllers /\ airControllers \subseteq Controllers
           /\ tx[c] # <<>> /\ First(tx[c], "command") /\ m_pendingCommandResponse[c] # <<>>
           /\ m_pendingCommandResponse[c][1] \in Response
           /\ m_pendingCommandResponse[c][1].op \in ops
           /\ RxTyped' /\ PumpsTyped' /\ HostTyped' /\ m_pumping' = m_pumping
<1>1. stack # <<>> /\ Working(Top) /\ c = Top.of
  BY DEF Responds, Responding, AtLoop, In, Working
<1>2. /\ Top \in Calls /\ c \in Controllers /\ c \in airControllers /\ Top.todo \subseteq airControllers
      /\ airControllers \subseteq Controllers
      /\ Sure(Top, airControllers, tx, m_pendingCommandResponse)
  BY <1>1, TopFacts DEF IInv, DataTyped, MediumTyped
<1>3. m_pendingCommandResponse[c] # <<>>
  BY <1>1, <1>2 DEF Responds, Responding, AtLoop, In, Sure
<1>7. First(tx[c], "command") /\ tx[c] # <<>>
  BY <1>2, <1>3, SameRings DEF Answering, First
<1>4. m_pendingCommandResponse[c][1] \in Response
  BY <1>2, <1>3, TailFacts DEF IInv, DataTyped, ResponseTyped
<1>5. RxTyped'
  <2> DEFINE frame == [type |-> "response", op |-> m_pendingCommandResponse[c][1].op, ok |-> ok]
  <2>1. frame \in Notice \union Answer
    BY <1>4 DEF Response, Answer
  <2>2. rx' = [rx EXCEPT ![c] = Append(rx[c], frame)] /\ Len(rx[c]) # RING_FRAMES - 1
    BY DEF Responds, Full
  <2> HIDE DEF frame
  <2>3. rx[c] \in Seq(Notice \union Answer) /\ Len(rx[c]) < RING_FRAMES /\ Len(rx[c]) \in Nat
    BY <1>2, LenProperties DEF IInv, DataTyped, RxTyped
  <2>4. /\ Append(rx[c], frame) \in Seq(Notice \union Answer)
        /\ Len(Append(rx[c], frame)) = Len(rx[c]) + 1
    BY <2>1, <2>3, AppendFacts
  <2>5. Len(Append(rx[c], frame)) < RING_FRAMES
    BY <2>2, <2>3, <2>4, Constants
  <2> QED BY <2>2, <2>4, <2>5 DEF IInv, DataTyped, RxTyped
<1>6. PumpsTyped' /\ HostTyped' /\ m_pumping' = m_pumping
  BY Same DEF Responds
<1> QED BY <1>1, <1>2, <1>3, <1>4, <1>5, <1>6, <1>7 DEF Responds

\* It is not pending any more.
LEMMA AnsweredOnce ==
    ASSUME IInv, NEW c \in Controllers,
           m_pendingCommandResponse' = [m_pendingCommandResponse EXCEPT ![c] = <<>>]
    PROVE  /\ ResponseTyped' /\ m_pendingCommandResponse'[c] = <<>>
           /\ \A d \in Controllers \ {c} : m_pendingCommandResponse'[d] = m_pendingCommandResponse[d]
<1>1. ResponseTyped
  BY DEF IInv, DataTyped
<1> QED BY <1>1, EmptySeq DEF ResponseTyped

\* The commit is over: the call goes on to take the command from the ring.
LEMMA Committed ==
    ASSUME IInv, stack # <<>>, Working(Top), First(tx[Top.of], "command"),
           UNCHANGED <<airControllers, m_pumping, tx>>,
           m_pendingCommandResponse'[Top.of] = <<>>,
           \A d \in Controllers \ {Top.of} : m_pendingCommandResponse'[d] = m_pendingCommandResponse[d],
           NEW b, Quiet(b, airControllers),
           stack' = b \o <<[Top EXCEPT !.at = "committed"]>> \o Tail(stack)
    PROVE  StackRight'
<1> DEFINE x == [Top EXCEPT !.at = "committed"]
<1>1. Top \in Calls /\ Top.todo \subseteq airControllers
  BY TopFacts
<1>2. x \in Calls /\ x.at = "committed" /\ x.of = Top.of /\ x.todo = Top.todo
  BY <1>1, At DEF Labels
<1>3. stack' = b \o <<x>> \o Tail(stack)
  OBVIOUS
<1> HIDE DEF x
<1>4. PICK y : y = x
  OBVIOUS
<1>5. Working(y) /\ y \in Calls /\ y.of = Top.of /\ y.todo \subseteq airControllers /\ y.at = "committed"
  BY <1>1, <1>2, <1>4 DEF Working
<1>6. Right(stack', m_pumping, airControllers, tx, m_pendingCommandResponse')
  BY <1>3, <1>4, <1>5, SameRings, Works
<1> QED BY <1>6 DEF StackRight

\* A refused command changes nothing else.
LEMMA RefuseStep ==
    ASSUME IInv, NEW c, Refuse(c)
    PROVE  IInv'
<1>1. /\ stack # <<>> /\ Working(Top) /\ c = Top.of /\ c \in Controllers /\ c \in airControllers
      /\ airControllers \subseteq Controllers /\ First(tx[c], "command")
      /\ RxTyped' /\ PumpsTyped' /\ HostTyped' /\ m_pumping' = m_pumping
  BY Responded DEF Refuse
<1>2. /\ ResponseTyped' /\ m_pendingCommandResponse'[c] = <<>>
      /\ \A d \in Controllers \ {c} : m_pendingCommandResponse'[d] = m_pendingCommandResponse[d]
  BY <1>1, AnsweredOnce DEF Refuse, Answered
<1>3. /\ MediumTyped' /\ FlowTyped' /\ CreditsTyped' /\ AclTyped' /\ EventsTyped' /\ LinksTyped' /\ Mutual'
  BY Same DEF Refuse
<1>4. TxTyped'
  BY <1>1, TxTail DEF Refuse, First
<1>5. PICK b : b = <<Call("drain", c)>>
  OBVIOUS
<1>6. Quiet(b, airControllers) /\ GoOn("check", b)
  BY <1>1, <1>5, QuietCalls DEF Refuse
<1>7. StackRight'
  BY <1>1, <1>2, <1>6, TakenOn DEF Refuse
<1> QED BY <1>1, <1>2, <1>3, <1>4, <1>7 DEF IInv, DataTyped

\* A command sets a state of its controller.
LEMMA CommitStateStep ==
    ASSUME IInv, NEW c, CommitState(c)
    PROVE  IInv'
<1> DEFINE response == m_pendingCommandResponse[c][1]
<1>1. /\ stack # <<>> /\ Working(Top) /\ c = Top.of /\ c \in Controllers /\ c \in airControllers
      /\ airControllers \subseteq Controllers /\ First(tx[c], "command") /\ response \in Response
      /\ RxTyped' /\ PumpsTyped' /\ HostTyped' /\ m_pumping' = m_pumping
  BY Responded DEF CommitState
<1>2. /\ ResponseTyped' /\ m_pendingCommandResponse'[c] = <<>>
      /\ \A d \in Controllers \ {c} : m_pendingCommandResponse'[d] = m_pendingCommandResponse[d]
  BY <1>1, AnsweredOnce DEF CommitState, Answered
<1>3. TxTyped' /\ AclTyped' /\ EventsTyped' /\ LinksTyped' /\ Mutual'
  BY Same DEF CommitState
<1>4. MediumTyped /\ FlowTyped /\ CreditsTyped
  BY DEF IInv, DataTyped
<1>5. ASSUME NEW op, NEW on, NEW off, NEW old \in BOOLEAN PROVE Switch(op, on, off, old) \in BOOLEAN
  BY DEF Switch
<1>6. MediumTyped'
  BY <1>1, <1>4, <1>5 DEF CommitState, MediumTyped
<1>7. controllerToHostFlow' \in [Controllers -> BOOLEAN]
  BY <1>1, <1>4, <1>5 DEF CommitState, FlowTyped
<1>8. FlowTyped' /\ CreditsTyped'
  <2>1. CASE response.op = "HostBufferSize"
    <3>1. response.arg \in 0 .. AclPackets
      BY <1>1, <2>1 DEF Response, Fits
    <3>2. /\ hostAclPackets' = [hostAclPackets EXCEPT ![c] = response.arg]
          /\ hostAclCredits' = [hostAclCredits EXCEPT ![c] = response.arg]
          /\ UNCHANGED m_hostAclOutstanding
      BY <2>1 DEF CommitState
    <3> HIDE DEF response
    <3> QED BY <1>1, <1>4, <1>7, <3>1, <3>2 DEF FlowTyped, CreditsTyped
  <2>2. CASE response.op # "HostBufferSize"
    BY <1>4, <1>7, <2>2 DEF CommitState, FlowTyped, CreditsTyped
  <2> QED BY <2>1, <2>2
<1>9. StackRight'
  BY <1>1, <1>2, NothingQuiet, Committed DEF CommitState, GoOn, Continue
<1> QED BY <1>1, <1>2, <1>3, <1>6, <1>8, <1>9 DEF IInv, DataTyped

\* CancelInitiation.
LEMMA CommitCancelStep ==
    ASSUME IInv, NEW c, CommitCancel(c)
    PROVE  IInv'
<1>1. /\ stack # <<>> /\ Working(Top) /\ c = Top.of /\ c \in Controllers /\ First(tx[c], "command")
      /\ RxTyped' /\ PumpsTyped' /\ HostTyped' /\ m_pumping' = m_pumping
  BY Responded DEF CommitCancel
<1>2. /\ ResponseTyped' /\ m_pendingCommandResponse'[c] = <<>>
      /\ \A d \in Controllers \ {c} : m_pendingCommandResponse'[d] = m_pendingCommandResponse[d]
  BY <1>1, AnsweredOnce DEF CommitCancel, Answered
<1>3. MediumTyped' /\ FlowTyped' /\ CreditsTyped' /\ TxTyped' /\ AclTyped' /\ Mutual'
  BY Same DEF CommitCancel
<1>4. LinksTyped'
  BY <1>1 DEF CommitCancel, IInv, LinksTyped
<1>5. EventsTyped'
  <2>1. Event("connected", 0, 0) \in Notice
    BY Constants DEF Event, Notice
  <2> QED BY <1>1, <2>1, Queued DEF CommitCancel, IInv, DataTyped, EventsTyped
<1>6. StackRight'
  BY <1>1, <1>2, NothingQuiet, Committed DEF CommitCancel, GoOn, Continue
<1> QED BY <1>1, <1>2, <1>3, <1>4, <1>5, <1>6 DEF IInv, DataTyped

\* The remote features are reported.
LEMMA CommitReadRemoteStep ==
    ASSUME IInv, NEW c, CommitReadRemote(c)
    PROVE  IInv'
<1>1. /\ stack # <<>> /\ Working(Top) /\ c = Top.of /\ c \in Controllers /\ First(tx[c], "command")
      /\ m_pendingCommandResponse[c][1] \in Response
      /\ m_pendingCommandResponse[c][1].op \in {"ReadRemote"}
      /\ RxTyped' /\ PumpsTyped' /\ HostTyped' /\ m_pumping' = m_pumping
  BY Responded DEF CommitReadRemote
<1>2. /\ ResponseTyped' /\ m_pendingCommandResponse'[c] = <<>>
      /\ \A d \in Controllers \ {c} : m_pendingCommandResponse'[d] = m_pendingCommandResponse[d]
  BY <1>1, AnsweredOnce DEF CommitReadRemote, Answered
<1>3. MediumTyped' /\ FlowTyped' /\ CreditsTyped' /\ TxTyped' /\ AclTyped' /\ LinksTyped' /\ Mutual'
  BY Same DEF CommitReadRemote
<1>4. EventsTyped'
  <2>1. m_pendingCommandResponse[c][1].arg \in Handles
    BY <1>1 DEF Response, Fits
  <2>2. Event("remote", m_pendingCommandResponse[c][1].arg, 0) \in Notice
    BY <2>1, Constants DEF Event, Notice, Handles
  <2> QED BY <1>1, <2>2, Queued DEF CommitReadRemote, IInv, DataTyped, EventsTyped
<1>5. StackRight'
  BY <1>1, <1>2, NothingQuiet, Committed DEF CommitReadRemote, GoOn, Continue
<1> QED BY <1>1, <1>2, <1>3, <1>4, <1>5 DEF IInv, DataTyped

-----------------------------------------------------------------------------
(***************************************************************************)
(* Connections begin and end.                                              *)
(***************************************************************************)

\* Two ends that had no other.
LEMMA Joined ==
    ASSUME MediumTyped, LinksTyped, Mutual,
           NEW c \in airControllers, NEW p \in airControllers, c # p, ~ Connected(c), ~ Connected(p),
           NEW h \in Handles \ used, NEW g \in Handles \ used, h # g,
           m_connection' = [m_connection EXCEPT
               ![c] = [peer |-> p, localHandle |-> h, peerHandle |-> g],
               ![p] = [peer |-> c, localHandle |-> g, peerHandle |-> h]],
           airControllers' = airControllers
    PROVE  m_connection' \in [Controllers -> Connection] /\ Mutual'
<1>1. /\ c \in Controllers /\ p \in Controllers /\ airControllers \subseteq Controllers
      /\ m_connection \in [Controllers -> Connection]
  BY DEF MediumTyped, LinksTyped
<1>2. Handles \subseteq 0 .. MAX_HANDLE
  BY DEF Handles
<1>3. m_connection[c] = NoConnection /\ m_connection[p] = NoConnection
  BY <1>1, OtherEnd
<1>4. /\ [peer |-> p, localHandle |-> h, peerHandle |-> g] \in Connection
      /\ [peer |-> c, localHandle |-> g, peerHandle |-> h] \in Connection
  BY <1>1, <1>2 DEF Connection
<1>5. m_connection' \in [Controllers -> Connection]
  BY <1>1, <1>4
<1>6. /\ m_connection'[c] = [peer |-> p, localHandle |-> h, peerHandle |-> g]
      /\ m_connection'[p] = [peer |-> c, localHandle |-> g, peerHandle |-> h]
      /\ \A d \in Controllers \ {c, p} : m_connection'[d] = m_connection[d]
  BY <1>1
<1>7. \A d \in Controllers : m_connection[d].localHandle \notin {h, g}
  <2> SUFFICES ASSUME NEW d \in Controllers PROVE m_connection[d].localHandle \notin {h, g}
    OBVIOUS
  <2>1. CASE d \in airControllers
    BY <2>1 DEF used
  <2>2. CASE d \notin airControllers
    <3>1. m_connection[d] = NoConnection
      BY <2>2 DEF Mutual
    <3>2. 0 \notin Handles
      BY Constants DEF Handles
    <3> QED BY <3>1, <3>2 DEF NoConnection
  <2> QED BY <2>1, <2>2
<1>8. ASSUME NEW d \in Controllers \ {c, p}, m_connection[d] # NoConnection
      PROVE  /\ d \in airControllers /\ m_connection[d].peer \in airControllers \ {d}
             /\ m_connection[d].peer \in Controllers \ {c, p}
             /\ m_connection[m_connection[d].peer].peer = d
             /\ m_connection[m_connection[d].peer].localHandle = m_connection[d].peerHandle
             /\ m_connection[d].localHandle \in Handles
             /\ \A e \in Controllers \ {d} : m_connection[e].localHandle # m_connection[d].localHandle
  <2>1. /\ d \in airControllers /\ m_connection[d].peer \in airControllers \ {d}
        /\ m_connection[m_connection[d].peer].peer = d
        /\ m_connection[m_connection[d].peer].localHandle = m_connection[d].peerHandle
        /\ m_connection[d].localHandle \in Handles
        /\ \A e \in Controllers \ {d} : m_connection[e].localHandle # m_connection[d].localHandle
    BY <1>8 DEF Mutual
  <2>2. m_connection[d].peer \notin {c, p}
    BY <1>1, <1>3, <2>1, Constants DEF NoConnection
  <2> QED BY <1>1, <2>1, <2>2
<1>9. Mutual'
  <2> SUFFICES ASSUME NEW d \in Controllers
               PROVE  \/ m_connection'[d] = NoConnection
                      \/ /\ m_connection'[d].peer \in airControllers \ {d}
                         /\ d \in airControllers
                         /\ m_connection'[m_connection'[d].peer].peer = d
                         /\ m_connection'[m_connection'[d].peer].localHandle = m_connection'[d].peerHandle
                         /\ m_connection'[d].localHandle \in Handles
                         /\ \A e \in Controllers \ {d} :
                               m_connection'[e].localHandle # m_connection'[d].localHandle
    BY DEF Mutual
  <2>0. /\ m_connection'[c].peer = p /\ m_connection'[c].localHandle = h /\ m_connection'[c].peerHandle = g
        /\ m_connection'[p].peer = c /\ m_connection'[p].localHandle = g /\ m_connection'[p].peerHandle = h
    BY <1>6
  <2>1. CASE d = c
    <3>1. ASSUME NEW e \in Controllers \ {c} PROVE m_connection'[e].localHandle # h
      <4>1. CASE e = p
        BY <2>0, <4>1
      <4>2. CASE e # p
        <5>1. m_connection'[e] = m_connection[e]
          BY <1>6, <4>2
        <5> QED BY <1>7, <5>1
      <4> QED BY <4>1, <4>2
    <3>2. /\ p \in airControllers \ {c} /\ c \in airControllers /\ m_connection'[p].peer = c
          /\ m_connection'[p].localHandle = g /\ h \in Handles
      BY <2>0
    <3> QED BY <2>0, <2>1, <3>1, <3>2
  <2>2. CASE d = p
    <3>1. ASSUME NEW e \in Controllers \ {p} PROVE m_connection'[e].localHandle # g
      <4>1. CASE e = c
        BY <2>0, <4>1
      <4>2. CASE e # c
        <5>1. m_connection'[e] = m_connection[e]
          BY <1>6, <4>2
        <5> QED BY <1>7, <5>1
      <4> QED BY <4>1, <4>2
    <3>2. /\ c \in airControllers \ {p} /\ p \in airControllers /\ m_connection'[c].peer = p
          /\ m_connection'[c].localHandle = h /\ g \in Handles
      BY <2>0
    <3> QED BY <2>0, <2>2, <3>1, <3>2
  <2>3. CASE d \notin {c, p}
    <3>1. m_connection'[d] = m_connection[d]
      BY <1>6, <2>3
    <3>2. CASE m_connection[d] # NoConnection
      <4> PICK q : q = m_connection[d].peer
        OBVIOUS
      <4>0. d \in Controllers \ {c, p}
        BY <2>3
      <4>1. /\ d \in airControllers /\ q \in airControllers \ {d} /\ q \in Controllers \ {c, p}
            /\ m_connection[q].peer = d
            /\ m_connection[q].localHandle = m_connection[d].peerHandle
            /\ m_connection[d].localHandle \in Handles
            /\ \A e \in Controllers \ {d} : m_connection[e].localHandle # m_connection[d].localHandle
        BY <1>8, <3>2, <4>0
      <4>2. m_connection'[q] = m_connection[q]
        BY <1>6, <4>1
      <4>3. m_connection[d].localHandle # h /\ m_connection[d].localHandle # g
        BY <1>7
      <4>4. ASSUME NEW e \in Controllers \ {d}
            PROVE  m_connection'[e].localHandle # m_connection[d].localHandle
        <5>1. CASE e \in {c, p}
          BY <2>0, <4>3, <5>1
        <5>2. CASE e \notin {c, p}
          <6>1. m_connection'[e] = m_connection[e]
            BY <1>6, <5>2
          <6> QED BY <4>1, <6>1
        <5> QED BY <5>1, <5>2
      <4> QED BY <3>1, <4>1, <4>2, <4>4
    <3> QED BY <3>1, <3>2
  <2> QED BY <2>1, <2>2, <2>3
<1> QED BY <1>5, <1>9

\* A connection ends for both; one of the two may leave.
LEMMA Parted ==
    ASSUME MediumTyped, LinksTyped, Mutual, NEW c \in Controllers,
           NEW p, p = m_connection[c].peer,
           m_connection' = [d \in Controllers |-> IF d \in {c, p} THEN NoConnection ELSE m_connection[d]],
           airControllers' \in {airControllers, airControllers \ {c}}
    PROVE  m_connection' \in [Controllers -> Connection] /\ Mutual'
<1>1. /\ airControllers \subseteq Controllers
      /\ m_connection \in [Controllers -> Connection]
  BY DEF MediumTyped, LinksTyped
<1>2. NoConnection \in Connection
  BY Constants DEF NoConnection, Connection
<1>3. m_connection' \in [Controllers -> Connection]
  BY <1>1, <1>2
<1>4. \A d \in Controllers : m_connection'[d] = IF d \in {c, p} THEN NoConnection ELSE m_connection[d]
  OBVIOUS
<1>5. ASSUME NEW d \in Controllers, m_connection'[d] # NoConnection
      PROVE  /\ m_connection'[d] = m_connection[d]
             /\ d \in airControllers' /\ m_connection[d].peer \in airControllers' \ {d}
             /\ m_connection[m_connection[d].peer].peer = d
             /\ m_connection'[m_connection[d].peer] = m_connection[m_connection[d].peer]
             /\ m_connection[m_connection[d].peer].localHandle = m_connection[d].peerHandle
             /\ m_connection[d].localHandle \in Handles
             /\ \A e \in Controllers \ {d} : m_connection[e].localHandle # m_connection[d].localHandle
  <2>1. d \notin {c, p} /\ m_connection'[d] = m_connection[d]
    BY <1>4, <1>5
  <2>2. /\ d \in airControllers /\ m_connection[d].peer \in airControllers \ {d}
        /\ m_connection[m_connection[d].peer].peer = d
        /\ m_connection[m_connection[d].peer].localHandle = m_connection[d].peerHandle
        /\ m_connection[d].localHandle \in Handles
        /\ \A e \in Controllers \ {d} : m_connection[e].localHandle # m_connection[d].localHandle
    BY <1>5, <2>1 DEF Mutual
  <2>3. m_connection[d].peer # c
    BY <2>1, <2>2
  <2>4. m_connection[d].peer # p
    <3>1. ASSUME m_connection[d].peer = p PROVE FALSE
      <4>1. p \in Controllers /\ m_connection[p].peer = d
        BY <1>1, <2>2, <3>1
      <4>2. Connected(c)
        BY <4>1, Constants DEF Connected
      <4>3. m_connection[p].peer = c
        BY <4>2, OtherEnd
      <4> QED BY <2>1, <4>1, <4>3
    <3> QED BY <3>1
  <2>5. m_connection'[m_connection[d].peer] = m_connection[m_connection[d].peer]
    BY <1>1, <1>4, <2>2, <2>3, <2>4
  <2> QED BY <2>1, <2>2, <2>3, <2>5
<1>6. \A e \in Controllers : m_connection'[e].localHandle \in {0, m_connection[e].localHandle}
  BY <1>4 DEF NoConnection
<1>7. 0 \notin Handles
  BY Constants DEF Handles
<1>8. Mutual'
  <2> SUFFICES ASSUME NEW d \in Controllers, m_connection'[d] # NoConnection
               PROVE  /\ m_connection'[d].peer \in airControllers' \ {d}
                      /\ d \in airControllers'
                      /\ m_connection'[m_connection'[d].peer].peer = d
                      /\ m_connection'[m_connection'[d].peer].localHandle = m_connection'[d].peerHandle
                      /\ m_connection'[d].localHandle \in Handles
                      /\ \A e \in Controllers \ {d} :
                            m_connection'[e].localHandle # m_connection'[d].localHandle
    BY DEF Mutual
  <2> QED BY <1>5, <1>6, <1>7
<1> QED BY <1>3, <1>8

\* completeConnection, by the initiator c, for a call that goes on as x.
LEMMA CompleteConnection ==
    ASSUME IInv, NEW c \in airControllers, NEW p \in airAdvertisements \ {c},
           ~ Connected(c), ~ Connected(p), NEW x, completeConnection(c, p, x),
           UNCHANGED <<airControllers, airScanners, scanning>>
    PROVE  /\ MediumTyped' /\ LinksTyped' /\ EventsTyped' /\ Mutual'
           /\ \E b : Quiet(b, airControllers) /\ stack' = b \o <<x>> \o Tail(stack)
<1> DEFINE h == allocateHandle(nextConnectionHandle)
           g == allocateHandle(after(h))
<1>1. MediumTyped /\ LinksTyped /\ Mutual /\ EventsTyped
  BY DEF IInv, DataTyped
<1>2. /\ c \in Controllers /\ p \in Controllers /\ p \in airControllers /\ c # p
      /\ airControllers \subseteq Controllers
  BY <1>1 DEF MediumTyped
<1>3. m_connection[c] = NoConnection
  BY <1>1, <1>2, OtherEnd
<1>4. h \in Handles \ used /\ g \in Handles \ used /\ h # g
  BY <1>1, <1>2, <1>3, Allocated DEF LinksTyped
<1>5. nextConnectionHandle' = after(g)
  BY DEF completeConnection
<1>6. after(g) \in Handles
  BY <1>4, Constants DEF after, Handles
<1> HIDE DEF h, g
<1>7. CASE /\ m_connection' = [m_connection EXCEPT
                  ![c] = [peer |-> p, localHandle |-> h, peerHandle |-> g],
                  ![p] = [peer |-> c, localHandle |-> g, peerHandle |-> h]]
           /\ m_initiation' = [m_initiation EXCEPT ![c] = NoOne]
           /\ advertising' = [advertising EXCEPT ![p] = FALSE]
           /\ airAdvertisements' = airAdvertisements \ {p}
           /\ Len(m_pendingEvents[c]) < PENDING_EVENT_MAX
           /\ Len(m_pendingEvents[p]) < PENDING_EVENT_MAX
           /\ m_pendingEvents' = [m_pendingEvents EXCEPT
                  ![c] = Append(@, Event("connected", h, 1)),
                  ![p] = Append(@, Event("connected", g, 1))]
           /\ Continue(x, <<Call("drain", c), Call("drain", p)>>)
  <2>1. m_connection' \in [Controllers -> Connection] /\ Mutual'
    BY <1>1, <1>2, <1>4, <1>7, Joined
  <2>2. MediumTyped'
    BY <1>1, <1>2, <1>7 DEF MediumTyped
  <2>3. LinksTyped'
    BY <1>1, <1>2, <1>5, <1>6, <1>7, <2>1 DEF LinksTyped
  <2>4. EventsTyped'
    <3>1. Event("connected", h, 1) \in Notice /\ Event("connected", g, 1) \in Notice
      BY <1>4, Constants DEF Event, Notice, Handles
    <3>2. /\ m_pendingEvents[c] \in Seq(Notice) /\ m_pendingEvents[p] \in Seq(Notice)
          /\ Len(m_pendingEvents[c]) \in Nat /\ Len(m_pendingEvents[p]) \in Nat
      BY <1>1, <1>2, LenProperties DEF EventsTyped, Queues
    <3>3. /\ Append(m_pendingEvents[c], Event("connected", h, 1)) \in Seq(Notice)
          /\ Len(Append(m_pendingEvents[c], Event("connected", h, 1))) <= PENDING_EVENT_MAX
      BY <1>7, <3>1, <3>2, AppendFacts, Constants
    <3>4. /\ Append(m_pendingEvents[p], Event("connected", g, 1)) \in Seq(Notice)
          /\ Len(Append(m_pendingEvents[p], Event("connected", g, 1))) <= PENDING_EVENT_MAX
      BY <1>7, <3>1, <3>2, AppendFacts, Constants
    <3>5. m_pendingEvents' = [m_pendingEvents EXCEPT
              ![c] = Append(m_pendingEvents[c], Event("connected", h, 1)),
              ![p] = Append(m_pendingEvents[p], Event("connected", g, 1))]
      BY <1>1, <1>2, <1>7 DEF EventsTyped, Queues
    <3> QED BY <1>1, <1>2, <3>3, <3>4, <3>5 DEF EventsTyped, Queues
  <2>5. Quiet(<<Call("drain", c), Call("drain", p)>>, airControllers)
    BY <1>2, QuietCalls
  <2> QED BY <1>7, <2>1, <2>2, <2>3, <2>4, <2>5 DEF Continue
<1>8. CASE /\ m_initiation' = [m_initiation EXCEPT ![c] = p]
           /\ Continue(x, <<>>)
           /\ UNCHANGED <<m_connection, advertising, airAdvertisements, m_pendingEvents>>
  <2>1. MediumTyped' /\ EventsTyped' /\ Mutual'
    BY <1>8, Same
  <2>2. LinksTyped'
    BY <1>1, <1>2, <1>5, <1>6, <1>8 DEF LinksTyped
  <2> QED BY <1>8, <2>1, <2>2, NothingQuiet DEF Continue
<1> QED BY <1>7, <1>8 DEF completeConnection, h, g

\* StartInitiation connects, or waits.
LEMMA CommitCreateStep ==
    ASSUME IInv, NEW c, CommitCreate(c)
    PROVE  IInv'
<1> DEFINE p == m_pendingCommandResponse[c][1].arg
<1>1. /\ stack # <<>> /\ Working(Top) /\ c = Top.of /\ c \in Controllers /\ c \in airControllers
      /\ First(tx[c], "command") /\ m_pendingCommandResponse[c][1] \in Response
      /\ m_pendingCommandResponse[c][1].op \in {"Create"}
      /\ RxTyped' /\ PumpsTyped' /\ HostTyped' /\ m_pumping' = m_pumping
  BY Responded DEF CommitCreate
<1>2. /\ ResponseTyped' /\ m_pendingCommandResponse'[c] = <<>>
      /\ \A d \in Controllers \ {c} : m_pendingCommandResponse'[d] = m_pendingCommandResponse[d]
  BY <1>1, AnsweredOnce DEF CommitCreate, Answered
<1>3. FlowTyped' /\ CreditsTyped' /\ TxTyped' /\ AclTyped'
  BY Same DEF CommitCreate
<1>4. p \in Controllers
  BY <1>1 DEF Response, Fits
<1>5. UNCHANGED <<airControllers, airScanners, scanning, tx>>
  BY DEF CommitCreate
<1>6. CASE /\ p \in airAdvertisements \ {c} /\ ~ Connected(c) /\ ~ Connected(p)
           /\ completeConnection(c, p, [Top EXCEPT !.at = "committed"])
  <2>1. PICK x : x = [Top EXCEPT !.at = "committed"]
    OBVIOUS
  <2>2. completeConnection(c, p, x)
    BY <1>6, <2>1
  <2>3. /\ MediumTyped' /\ LinksTyped' /\ EventsTyped' /\ Mutual'
        /\ \E b : Quiet(b, airControllers) /\ stack' = b \o <<x>> \o Tail(stack)
    BY <1>1, <1>5, <1>6, <2>2, CompleteConnection
  <2>4. PICK b : Quiet(b, airControllers) /\ stack' = b \o <<x>> \o Tail(stack)
    BY <2>3
  <2>5. StackRight'
    BY <1>1, <1>2, <1>5, <2>1, <2>4, Committed
  <2> QED BY <1>1, <1>2, <1>3, <2>3, <2>5 DEF IInv, DataTyped
<1>7. CASE /\ m_initiation' = [m_initiation EXCEPT ![c] = p]
           /\ GoOn("committed", <<>>)
           /\ UNCHANGED <<nextConnectionHandle, m_connection, advertising, airAdvertisements, m_pendingEvents>>
  <2>1. MediumTyped' /\ EventsTyped' /\ Mutual'
    BY <1>5, <1>7, Same
  <2>2. LinksTyped'
    BY <1>1, <1>4, <1>7 DEF IInv, LinksTyped
  <2>3. StackRight'
    BY <1>1, <1>2, <1>5, <1>7, NothingQuiet, Committed DEF GoOn, Continue
  <2> QED BY <1>1, <1>2, <1>3, <2>1, <2>2, <2>3 DEF IInv, DataTyped
<1> QED BY <1>6, <1>7 DEF CommitCreate

\* DisconnectConnection ends the connection for both.
LEMMA CommitDisconnectStep ==
    ASSUME IInv, NEW c, CommitDisconnect(c)
    PROVE  IInv'
<1> DEFINE p == m_connection[c].peer
<1>1. /\ stack # <<>> /\ Working(Top) /\ c = Top.of /\ c \in Controllers /\ c \in airControllers
      /\ airControllers \subseteq Controllers /\ First(tx[c], "command")
      /\ RxTyped' /\ PumpsTyped' /\ HostTyped' /\ m_pumping' = m_pumping
  BY Responded DEF CommitDisconnect
<1>2. /\ ResponseTyped' /\ m_pendingCommandResponse'[c] = <<>>
      /\ \A d \in Controllers \ {c} : m_pendingCommandResponse'[d] = m_pendingCommandResponse[d]
  BY <1>1, AnsweredOnce DEF CommitDisconnect, Answered
<1>3. MediumTyped' /\ FlowTyped' /\ CreditsTyped' /\ TxTyped' /\ AclTyped'
  BY Same DEF CommitDisconnect
<1>4. MediumTyped /\ LinksTyped /\ Mutual /\ EventsTyped
  BY DEF IInv, DataTyped
<1>5. CASE Connected(c)
  <2>1. /\ p \in airControllers /\ p \in Controllers /\ p # c
        /\ m_connection[c].localHandle \in Handles /\ m_connection[p].localHandle \in Handles
    BY <1>1, <1>4, <1>5, OtherEnd
  <2>2. m_connection' = [m_connection EXCEPT ![c] = NoConnection, ![p] = NoConnection]
    BY <1>5 DEF CommitDisconnect
  <2>3. m_connection' = [d \in Controllers |-> IF d \in {c, p} THEN NoConnection ELSE m_connection[d]]
    BY <1>4, <2>2 DEF LinksTyped
  <2>4. m_connection' \in [Controllers -> Connection] /\ Mutual'
    BY <1>1, <1>4, <2>3, Parted DEF CommitDisconnect
  <2>5. LinksTyped'
    BY <1>4, <2>4 DEF CommitDisconnect, LinksTyped
  <2>6. EventsTyped'
    <3>1. Disconnected(c) \in Notice /\ Disconnected(p) \in Notice
      BY <2>1, Constants DEF Disconnected, Event, Notice, Handles
    <3>2. Queues(queueReliable(m_pendingEvents, c, Disconnected(c)))
      BY <1>1, <1>4, <3>1, Queued DEF EventsTyped
    <3>3. Queues(queueReliable(queueReliable(m_pendingEvents, c, Disconnected(c)), p, Disconnected(p)))
      BY <2>1, <3>1, <3>2, Queued
    <3> QED BY <1>5, <3>3 DEF CommitDisconnect, EventsTyped
  <2>7. PICK b : b = <<Call("drain", p)>>
    OBVIOUS
  <2>8. Quiet(b, airControllers) /\ GoOn("committed", b)
    BY <1>1, <1>5, <2>1, <2>7, QuietCalls DEF CommitDisconnect
  <2>9. StackRight'
    BY <1>1, <1>2, <2>8, Committed DEF CommitDisconnect, GoOn, Continue
  <2> QED BY <1>1, <1>2, <1>3, <2>4, <2>5, <2>6, <2>9 DEF IInv, DataTyped
<1>6. CASE ~ Connected(c)
  <2>1. EventsTyped' /\ LinksTyped' /\ Mutual'
    BY <1>6, Same DEF CommitDisconnect
  <2>2. StackRight'
    BY <1>1, <1>2, <1>6, NothingQuiet, Committed DEF CommitDisconnect, GoOn, Continue
  <2> QED BY <1>1, <1>2, <1>3, <2>1, <2>2 DEF IInv, DataTyped
<1> QED BY <1>5, <1>6

\* A controller leaves the medium; the peer, if it had one, is told.
LEMMA Detached ==
    ASSUME IInv, NEW c \in airControllers, NEW rest, Detach(c, rest),
           airControllers' \in {airControllers, airControllers \ {c}}
    PROVE  /\ MediumTyped' /\ FlowTyped' /\ CreditsTyped' /\ ResponseTyped' /\ AclTyped'
           /\ EventsTyped' /\ LinksTyped' /\ Mutual'
           /\ m_pendingCommandResponse'[c] = <<>>
           /\ \A d \in Controllers \ {c} : m_pendingCommandResponse'[d] = m_pendingCommandResponse[d]
           /\ \E b : /\ Quiet(b, airControllers') /\ stack' = b \o rest
                     /\ b = <<>> \/ \E p \in airControllers' : b = <<Call("drain", p)>>
<1> DEFINE p == m_connection[c].peer
           cleared == [m_pendingEvents EXCEPT ![c] = <<>>]
<1>1. /\ MediumTyped /\ LinksTyped /\ Mutual /\ EventsTyped /\ FlowTyped /\ CreditsTyped
      /\ ResponseTyped /\ AclTyped
  BY DEF IInv, DataTyped
<1>2. c \in Controllers /\ airControllers \subseteq Controllers
  BY <1>1 DEF MediumTyped
<1>3. MediumTyped'
  BY <1>1, <1>2 DEF Detach, MediumTyped
<1>4. FlowTyped' /\ CreditsTyped'
  <2>1. NothingOutstanding \in [Handles -> Nat]
    BY DEF NothingOutstanding
  <2> QED BY <1>1, <1>2, <2>1, Constants DEF Detach, FlowTyped, CreditsTyped
<1>5. /\ ResponseTyped' /\ m_pendingCommandResponse'[c] = <<>>
      /\ \A d \in Controllers \ {c} : m_pendingCommandResponse'[d] = m_pendingCommandResponse[d]
  BY <1>2, AnsweredOnce DEF Detach
<1>6. AclTyped'
  BY <1>1, <1>2, EmptySeq DEF Detach, AclTyped
<1>7. m_connection' \in [Controllers -> Connection] /\ Mutual'
  BY <1>1, <1>2, Parted DEF Detach
<1>8. LinksTyped'
  BY <1>1, <1>2, <1>7 DEF Detach, LinksTyped
<1>9. Queues(cleared)
  <2>1. <<>> \in Seq(Notice) /\ Len(<<>>) <= PENDING_EVENT_MAX
    BY EmptySeq, Constants
  <2> QED BY <1>1, <1>2, <2>1, Requeued DEF EventsTyped
<1>10. CASE Connected(c)
  <2>1. /\ p \in airControllers \ {c} /\ p \in Controllers /\ m_connection[p].localHandle \in Handles
    BY <1>1, <1>2, <1>10, OtherEnd
  <2>2. Disconnected(p) \in Notice
    BY <2>1, Constants DEF Disconnected, Event, Notice, Handles
  <2>3. Queues(queueReliable(cleared, p, Disconnected(p)))
    BY <1>9, <2>1, <2>2, Queued
  <2>4. EventsTyped'
    BY <1>10, <2>3 DEF Detach, EventsTyped
  <2>5. p \in airControllers' /\ airControllers' \subseteq Controllers
    BY <1>2, <2>1
  <2>6. PICK b : b = <<Call("drain", p)>>
    OBVIOUS
  <2>7. Quiet(b, airControllers') /\ stack' = b \o rest
    BY <1>10, <2>5, <2>6, QuietCalls DEF Detach
  <2> QED BY <1>3, <1>4, <1>5, <1>6, <1>7, <1>8, <2>4, <2>5, <2>6, <2>7
<1>11. CASE ~ Connected(c)
  <2>1. EventsTyped'
    BY <1>9, <1>11 DEF Detach, EventsTyped
  <2>2. Quiet(<<>>, airControllers') /\ stack' = <<>> \o rest
    BY <1>11, NothingQuiet DEF Detach
  <2> QED BY <1>3, <1>4, <1>5, <1>6, <1>7, <1>8, <2>1, <2>2
<1> QED BY <1>10, <1>11

\* Reset leaves the medium; the peer is told before the call goes on.
LEMMA CommitResetStep ==
    ASSUME IInv, NEW c, CommitReset(c)
    PROVE  IInv'
<1>1. /\ stack # <<>> /\ Working(Top) /\ c = Top.of /\ c \in Controllers /\ c \in airControllers
      /\ Top \in Calls /\ First(tx[c], "command")
      /\ RxTyped' /\ PumpsTyped' /\ HostTyped' /\ m_pumping' = m_pumping
  BY Responded DEF CommitReset
<1>2. TxTyped' /\ UNCHANGED <<airControllers, tx>>
  BY Same DEF CommitReset
<1>3. PICK x : x = [Top EXCEPT !.at = "committed"]
  OBVIOUS
<1>4. PICK rest : rest = <<x>> \o Tail(stack)
  OBVIOUS
<1>5. Detach(c, rest)
  BY <1>3, <1>4 DEF CommitReset
<1>6. /\ MediumTyped' /\ FlowTyped' /\ CreditsTyped' /\ ResponseTyped' /\ AclTyped'
      /\ EventsTyped' /\ LinksTyped' /\ Mutual'
      /\ m_pendingCommandResponse'[c] = <<>>
      /\ \A d \in Controllers \ {c} : m_pendingCommandResponse'[d] = m_pendingCommandResponse[d]
      /\ \E b : Quiet(b, airControllers') /\ stack' = b \o rest
  BY <1>1, <1>2, <1>5, Detached
<1>7. PICK b : Quiet(b, airControllers) /\ stack' = b \o rest
  BY <1>2, <1>6
<1>8. stack' = b \o <<x>> \o Tail(stack)
  <2>1. stack \in Seq(Calls)
    BY DEF IInv, StackRight, Right
  <2>2. Tail(stack) \in Seq(Calls) /\ x \in Calls /\ b \in Seq(Calls)
    BY <1>1, <1>3, <1>7, <2>1, At, HeadTailProperties DEF Labels, Quiet
  <2>3. <<x>> \in Seq(Calls)
    BY <2>2
  <2> QED BY <1>4, <1>7, <2>2, <2>3, ConcatAssociative
<1>9. StackRight'
  BY <1>1, <1>2, <1>3, <1>6, <1>7, <1>8, Committed
<1> QED BY <1>1, <1>2, <1>6, <1>9 DEF IInv, DataTyped


-----------------------------------------------------------------------------
(***************************************************************************)
(* The medium hears of a commit, and the end of pumpTx.                    *)
(***************************************************************************)

\* A call that publishes an advertisement goes on doing so.
LEMMA Publishes ==
    ASSUME IInv, stack # <<>>, Working(Top),
           NEW x \in Calls, x.at \in {"scanners", "initiators"}, x.of = Top.of,
           x.todo \subseteq airControllers,
           NEW b, Quiet(b, airControllers), stack' = b \o <<x>> \o Tail(stack),
           UNCHANGED <<airControllers, m_pumping, tx, m_pendingCommandResponse>>
    PROVE  StackRight'
<1>1. Working(x) /\ x.at \notin {"read", "respond", "committed"}
  BY DEF Working
<1>2. m_pendingCommandResponse[Top.of] # <<>> => First(tx[Top.of], "command")
  BY SameRings, TopFacts DEF Answering
<1>3. Right(stack', m_pumping, airControllers, tx, m_pendingCommandResponse)
  BY <1>1, <1>2, SameRings, Works
<1> QED BY <1>3 DEF StackRight

\* Publishing begins, or the medium forgets, or there is nothing to tell it.
LEMMA PumpCommittedStep ==
    ASSUME IInv, PumpCommitted
    PROVE  IInv'
<1> DEFINE c == Top.of
<1>1. stack # <<>> /\ Top.at = "committed" /\ Working(Top)
  BY DEF PumpCommitted, In, Working
<1>2. /\ Top \in Calls /\ c \in Controllers /\ c \in airControllers /\ tx[c] # <<>>
      /\ m_pendingCommandResponse[c] = <<>>
      /\ airControllers \subseteq Controllers /\ airAdvertisements \subseteq airControllers
      /\ airScanners \subseteq airControllers /\ EventsTyped /\ MediumTyped
  BY <1>1, TopFacts DEF Sure, First, IInv, DataTyped, MediumTyped
<1>3. /\ FlowTyped' /\ CreditsTyped' /\ ResponseTyped' /\ AclTyped' /\ RxTyped' /\ PumpsTyped'
      /\ HostTyped' /\ LinksTyped' /\ Mutual'
  BY Same DEF PumpCommitted
<1>4. TxTyped'
  BY <1>2, TxTail DEF PumpCommitted
<1>5. /\ tx' = [tx EXCEPT ![Top.of] = Tail(@)]
      /\ UNCHANGED <<airControllers, m_pumping, m_pendingCommandResponse, advertising, scanning>>
  BY DEF PumpCommitted
<1>6. ASSUME GoOn("check", <<Call("drain", c)>>) PROVE StackRight'
  <2>1. PICK b : b = <<Call("drain", c)>>
    OBVIOUS
  <2>2. Quiet(b, airControllers) /\ GoOn("check", b)
    BY <1>2, <1>6, <2>1, QuietCalls
  <2> QED BY <1>1, <1>2, <1>5, <2>2, TakenOn
<1>7. CASE /\ airAdvertisements' = airAdvertisements \union {c}
           /\ Continue([at |-> "scanners", of |-> c, todo |-> airScanners \ {c}], <<>>)
           /\ UNCHANGED <<airScanners, m_pendingEvents>>
  <2>1. MediumTyped' /\ EventsTyped'
    BY <1>2, <1>5, <1>7 DEF MediumTyped, EventsTyped
  <2>2. PICK x : x = [at |-> "scanners", of |-> c, todo |-> airScanners \ {c}]
    OBVIOUS
  <2>3. x \in Calls /\ Working(x) /\ x.of = Top.of /\ x.todo \subseteq airControllers /\ x.at = "scanners"
    BY <1>2, <2>2 DEF Calls, Labels, Working
  <2>4. stack' = <<>> \o <<x>> \o Tail(stack)
    BY <1>7, <2>2 DEF Continue
  <2>5. StackRight'
    BY <1>1, <1>2, <1>5, <2>3, <2>4, NothingQuiet, Taken
  <2> QED BY <1>3, <1>4, <2>1, <2>5 DEF IInv, DataTyped
<1>8. CASE /\ airAdvertisements' = airAdvertisements \ {c}
           /\ GoOn("check", <<Call("drain", c)>>)
           /\ UNCHANGED <<airScanners, m_pendingEvents>>
  <2>1. MediumTyped' /\ EventsTyped'
    BY <1>2, <1>5, <1>8 DEF MediumTyped, EventsTyped
  <2> QED BY <1>3, <1>4, <1>6, <1>8, <2>1 DEF IInv, DataTyped
<1>9. CASE /\ airScanners' = airScanners \union {c}
           /\ m_pendingEvents' = queueReports(m_pendingEvents, c, Cardinality(airAdvertisements \ {c}))
           /\ GoOn("check", <<Call("drain", c)>>)
           /\ UNCHANGED airAdvertisements
  <2>1. MediumTyped'
    BY <1>2, <1>5, <1>9 DEF MediumTyped
  <2>2. Cardinality(airAdvertisements \ {c}) \in Nat
    <3>1. airAdvertisements \ {c} \subseteq Controllers /\ IsFiniteSet(Controllers)
      BY <1>2, QemuBtAssumption
    <3> QED BY <3>1, FS_Subset, FS_CardinalityType
  <2>3. EventsTyped'
    BY <1>2, <1>9, <2>2, Reported DEF EventsTyped
  <2> QED BY <1>3, <1>4, <1>6, <1>9, <2>1, <2>3 DEF IInv, DataTyped
<1>10. CASE /\ airScanners' = airScanners \ {c}
            /\ m_pendingEvents' = dropBestEffortEvents(m_pendingEvents, c)
            /\ GoOn("check", <<Call("drain", c)>>)
            /\ UNCHANGED airAdvertisements
  <2>1. MediumTyped'
    BY <1>2, <1>5, <1>10 DEF MediumTyped
  <2>2. EventsTyped'
    BY <1>2, <1>10, Dropped DEF EventsTyped
  <2> QED BY <1>3, <1>4, <1>6, <1>10, <2>1, <2>2 DEF IInv, DataTyped
<1>11. CASE /\ GoOn("check", <<Call("drain", c)>>)
            /\ UNCHANGED <<airAdvertisements, airScanners, m_pendingEvents>>
  <2>1. MediumTyped' /\ EventsTyped'
    BY <1>2, <1>5, <1>11 DEF MediumTyped, EventsTyped
  <2> QED BY <1>3, <1>4, <1>6, <1>11, <2>1 DEF IInv, DataTyped
<1> QED BY <1>7, <1>8, <1>9, <1>10, <1>11 DEF PumpCommitted

\* A scanner hears of an advertisement, or all have heard of it.
LEMMA PublishToScannersStep ==
    ASSUME IInv, PublishToScanners
    PROVE  IInv'
<1>1. stack # <<>> /\ Top.at = "scanners" /\ Working(Top)
  BY DEF PublishToScanners, In, Working
<1>2. /\ Top \in Calls /\ Top.of \in Controllers /\ Top.todo \subseteq airControllers
      /\ airControllers \subseteq Controllers /\ EventsTyped
  BY <1>1, TopFacts DEF IInv, DataTyped, MediumTyped
<1>3. /\ MediumTyped' /\ FlowTyped' /\ CreditsTyped' /\ ResponseTyped' /\ AclTyped' /\ TxTyped'
      /\ RxTyped' /\ PumpsTyped' /\ HostTyped' /\ LinksTyped' /\ Mutual'
  BY Same DEF PublishToScanners
<1>4. UNCHANGED <<airControllers, m_pumping, tx, m_pendingCommandResponse>>
  BY DEF PublishToScanners
<1>5. ASSUME NEW s \in Top.todo,
             m_pendingEvents' = queueReports(m_pendingEvents, s, IF scanning[s] THEN 1 ELSE 0),
             Continue([Top EXCEPT !.todo = @ \ {s}], <<Call("drain", s)>>)
      PROVE  IInv'
  <2>1. s \in Controllers /\ s \in airControllers
    BY <1>2
  <2>2. EventsTyped'
    <3>1. (IF scanning[s] THEN 1 ELSE 0) \in Nat
      OBVIOUS
    <3> QED BY <1>2, <1>5, <2>1, <3>1, Reported DEF EventsTyped
  <2>3. PICK x : x = [Top EXCEPT !.todo = @ \ {s}]
    OBVIOUS
  <2>4. x \in Calls /\ x.at = "scanners" /\ x.of = Top.of /\ x.todo \subseteq airControllers
    BY <1>1, <1>2, <2>3 DEF Calls
  <2>5. PICK b : b = <<Call("drain", s)>>
    OBVIOUS
  <2>6. Quiet(b, airControllers) /\ stack' = b \o <<x>> \o Tail(stack)
    BY <1>2, <1>5, <2>1, <2>3, <2>5, QuietCalls DEF Continue
  <2>7. StackRight'
    BY <1>1, <1>4, <2>4, <2>6, Publishes
  <2> QED BY <1>3, <2>2, <2>7 DEF IInv, DataTyped
<1>6. CASE /\ Continue([at |-> "initiators", of |-> Top.of, todo |-> airControllers \ {Top.of}], <<>>)
           /\ UNCHANGED m_pendingEvents
  <2>1. EventsTyped'
    BY <1>6, Same
  <2>2. PICK x : x = [at |-> "initiators", of |-> Top.of, todo |-> airControllers \ {Top.of}]
    OBVIOUS
  <2>3. x \in Calls /\ x.at = "initiators" /\ x.of = Top.of /\ x.todo \subseteq airControllers
    BY <1>2, <2>2 DEF Calls, Labels
  <2>4. stack' = <<>> \o <<x>> \o Tail(stack)
    BY <1>6, <2>2 DEF Continue
  <2>5. StackRight'
    BY <1>1, <1>4, <2>3, <2>4, NothingQuiet, Publishes
  <2> QED BY <1>3, <2>1, <2>5 DEF IInv, DataTyped
<1> QED BY <1>5, <1>6 DEF PublishToScanners

\* A waiting initiator connects, or it does not, or all have had their turn.
LEMMA PublishToInitiatorsStep ==
    ASSUME IInv, PublishToInitiators
    PROVE  IInv'
<1>1. stack # <<>> /\ Top.at = "initiators" /\ Working(Top)
  BY DEF PublishToInitiators, In, Working
<1>2. /\ Top \in Calls /\ Top.of \in airControllers /\ Top.todo \subseteq airControllers
      /\ airControllers \subseteq Controllers
  BY <1>1, TopFacts DEF IInv, DataTyped, MediumTyped
<1>3. /\ FlowTyped' /\ CreditsTyped' /\ ResponseTyped' /\ AclTyped' /\ TxTyped'
      /\ RxTyped' /\ PumpsTyped' /\ HostTyped'
  BY Same DEF PublishToInitiators
<1>4. UNCHANGED <<airControllers, airScanners, scanning, m_pumping, tx, m_pendingCommandResponse>>
  BY DEF PublishToInitiators
<1>5. ASSUME UNCHANGED <<links, advertising, airAdvertisements, m_pendingEvents>>
      PROVE  MediumTyped' /\ LinksTyped' /\ EventsTyped' /\ Mutual'
  BY <1>4, <1>5, Same
<1>6. ASSUME NEW d \in Top.todo, NEW x, x = [Top EXCEPT !.todo = @ \ {d}],
             IF MayConnect(d, m_initiation[d])
             THEN completeConnection(d, m_initiation[d], x)
             ELSE /\ Continue(x, <<>>)
                  /\ UNCHANGED <<links, advertising, airAdvertisements, m_pendingEvents>>
      PROVE  IInv'
  <2>1. x \in Calls /\ x.at = "initiators" /\ x.of = Top.of /\ x.todo \subseteq airControllers
    BY <1>1, <1>2, <1>6 DEF Calls
  <2>2. CASE MayConnect(d, m_initiation[d])
    <3>1. /\ d \in airControllers /\ m_initiation[d] \in airAdvertisements \ {d}
          /\ ~ Connected(d) /\ ~ Connected(m_initiation[d])
      BY <1>2, <2>2 DEF MayConnect
    <3>2. PICK p \in airAdvertisements \ {d} : p = m_initiation[d]
      BY <3>1
    <3>3. completeConnection(d, p, x) /\ ~ Connected(p)
      BY <1>6, <2>2, <3>1, <3>2
    <3>4. /\ MediumTyped' /\ LinksTyped' /\ EventsTyped' /\ Mutual'
          /\ \E b : Quiet(b, airControllers) /\ stack' = b \o <<x>> \o Tail(stack)
      BY <1>4, <3>1, <3>3, CompleteConnection
    <3>5. PICK b : Quiet(b, airControllers) /\ stack' = b \o <<x>> \o Tail(stack)
      BY <3>4
    <3>6. StackRight'
      BY <1>1, <1>4, <2>1, <3>5, Publishes
    <3> QED BY <1>3, <3>4, <3>6 DEF IInv, DataTyped
  <2>3. CASE ~ MayConnect(d, m_initiation[d])
    <3>1. /\ UNCHANGED <<links, advertising, airAdvertisements, m_pendingEvents>>
          /\ stack' = <<>> \o <<x>> \o Tail(stack)
      BY <1>6, <2>3 DEF Continue
    <3>2. StackRight'
      BY <1>1, <1>4, <2>1, <3>1, NothingQuiet, Publishes
    <3> QED BY <1>3, <1>5, <3>1, <3>2 DEF IInv, DataTyped
  <2> QED BY <2>2, <2>3
<1>7. CASE /\ GoOn("check", <<Call("drain", Top.of)>>)
           /\ UNCHANGED <<links, advertising, airAdvertisements, m_pendingEvents>>
  <2>1. PICK b : b = <<Call("drain", Top.of)>>
    OBVIOUS
  <2>2. Quiet(b, airControllers) /\ GoOn("check", b)
    BY <1>2, <1>7, <2>1, QuietCalls
  <2>3. StackRight'
    BY <1>1, <1>4, <2>2, WorksOn DEF Labels
  <2> QED BY <1>3, <1>5, <1>7, <2>3 DEF IInv, DataTyped
<1> QED BY <1>6, <1>7 DEF PublishToInitiators

\* done: the call no longer works, and the peer to be woken is called.
LEMMA DoneStep ==
    ASSUME IInv, Done
    PROVE  IInv'
<1> DEFINE w == m_deferredWake[Top.of]
<1>1. stack # <<>> /\ Top.at = "done" /\ Working(Top) /\ Top = Head(stack)
  BY DEF Done, In, Working, Top
<1>2. /\ Top \in Calls /\ Top.of \in airControllers /\ Top.todo \subseteq airControllers
      /\ Top.of \in Controllers /\ airControllers \subseteq Controllers /\ PumpsTyped
      /\ m_pumping \in [Controllers -> BOOLEAN]
      /\ Right(stack, m_pumping, airControllers, tx, m_pendingCommandResponse)
  BY <1>1, TopFacts DEF IInv, DataTyped, MediumTyped, PumpsTyped, StackRight
<1>3. /\ MediumTyped' /\ FlowTyped' /\ CreditsTyped' /\ ResponseTyped' /\ AclTyped' /\ EventsTyped'
      /\ TxTyped' /\ RxTyped' /\ HostTyped' /\ LinksTyped' /\ Mutual'
  BY Same DEF Done
<1>4. PumpsTyped'
  BY <1>2 DEF Done, PumpsTyped
<1>5. PICK b : b = IF w \in airControllers THEN <<Call("pump", w)>> ELSE <<>>
  OBVIOUS
<1>6. Quiet(b, airControllers)
  BY <1>2, <1>5, QuietCalls, NothingQuiet
<1>7. PICK x : x = [Top EXCEPT !.at = "again"]
  OBVIOUS
<1>8. x \in Calls /\ x.at = "again" /\ x.of = Top.of /\ x.todo \subseteq airControllers
  BY <1>2, <1>7, At DEF Labels
<1>9. ~ Working(x) /\ Sure(x, airControllers, tx, m_pendingCommandResponse) /\ Working(Head(stack))
  BY <1>1, <1>2, <1>8 DEF Working, Sure
<1>10. stack' = b \o <<x>> \o Tail(stack)
  BY <1>5, <1>7 DEF Done, GoOn, Continue
<1>11. Right(stack', [m_pumping EXCEPT ![Head(stack).of] = FALSE], airControllers, tx, m_pendingCommandResponse)
  BY <1>1, <1>2, <1>6, <1>8, <1>9, <1>10, Ends
<1>12. StackRight'
  BY <1>1, <1>11 DEF StackRight, Done
<1> QED BY <1>3, <1>4, <1>12 DEF IInv, DataTyped

-----------------------------------------------------------------------------
(***************************************************************************)
(* Calls that do not work.                                                 *)
(***************************************************************************)

\* One goes on as another that does not work either, or comes back.
LEMMA Idles ==
    ASSUME IInv, stack # <<>>, ~ Working(Top),
           UNCHANGED <<airControllers, m_pumping, tx, m_pendingCommandResponse>>
    PROVE  /\ Return => StackRight'
           /\ \A x \in Calls : ~ Working(x) /\ x.of \in airControllers /\ x.todo \subseteq airControllers
                               /\ Continue(x, <<>>) => StackRight'
<1>1. Right(stack, m_pumping, airControllers, tx, m_pendingCommandResponse) /\ Top = Head(stack)
  BY DEF IInv, StackRight, Top
<1>2. ASSUME Return PROVE StackRight'
  <2>1. Right(Tail(stack), m_pumping, airControllers, tx, m_pendingCommandResponse)
    BY <1>1, Returns
  <2> QED BY <1>2, <2>1 DEF Return, StackRight
<1>3. ASSUME NEW x \in Calls, ~ Working(x), x.of \in airControllers, x.todo \subseteq airControllers,
             Continue(x, <<>>)
      PROVE  StackRight'
  <2>1. Sure(x, airControllers, tx, m_pendingCommandResponse)
    BY <1>3 DEF Sure, Working
  <2>2. Kept(stack, tx, m_pendingCommandResponse, tx, m_pendingCommandResponse)
    BY SameRings DEF Kept
  <2>3. stack' = <<>> \o <<x>> \o Tail(stack)
    BY <1>3 DEF Continue
  <2>4. Working(x) <=> Working(Head(stack))
    BY <1>1, <1>3
  <2>5. Right(stack', m_pumping, airControllers, tx, m_pendingCommandResponse)
    BY <1>1, <1>3, <2>1, <2>2, <2>3, <2>4, NothingQuiet, SameRings, KeepsOn
  <2> QED BY <2>5 DEF StackRight
<1> QED BY <1>2, <1>3

\* The pump that was asked for meanwhile.
LEMMA PumpAgainStep ==
    ASSUME IInv, PumpAgain
    PROVE  IInv'
<1>1. stack # <<>> /\ ~ Working(Top)
  BY DEF PumpAgain, In, Working
<1>2. Top \in Calls /\ Top.of \in airControllers /\ Top.todo \subseteq airControllers
  BY <1>1, TopFacts
<1>3. /\ MediumTyped' /\ FlowTyped' /\ CreditsTyped' /\ ResponseTyped' /\ AclTyped' /\ EventsTyped'
      /\ TxTyped' /\ RxTyped' /\ HostTyped' /\ LinksTyped' /\ Mutual'
  BY Same DEF PumpAgain
<1>4. PumpsTyped'
  BY DEF IInv, DataTyped, PumpAgain, PumpsTyped
<1>5. UNCHANGED <<airControllers, m_pumping, tx, m_pendingCommandResponse>>
  BY DEF PumpAgain
<1>6. PICK x : x = [Top EXCEPT !.at = "pump"]
  OBVIOUS
<1>7. x \in Calls /\ x.at = "pump" /\ x.of \in airControllers /\ x.todo \subseteq airControllers
  BY <1>2, <1>6, At DEF Labels
<1>8. ~ Working(x)
  BY <1>7 DEF Working
<1>9. Continue(x, <<>>) \/ Return
  BY <1>6 DEF PumpAgain, GoOn
<1>10. StackRight'
  BY <1>1, <1>5, <1>7, <1>8, <1>9, Idles
<1> QED BY <1>3, <1>4, <1>10 DEF IInv, DataTyped

\* An event goes from the queue to the ring.
LEMMA PushEventStep ==
    ASSUME IInv, PushEvent
    PROVE  IInv'
<1> DEFINE c == Top.of
<1>1. stack # <<>> /\ ~ Working(Top)
  BY DEF PushEvent, Draining, In, Working
<1>2. /\ Top \in Calls /\ c \in airControllers /\ c \in Controllers /\ Top.todo \subseteq airControllers
      /\ EventsTyped /\ RxTyped
  BY <1>1, TopFacts DEF IInv, DataTyped
<1>3. /\ MediumTyped' /\ FlowTyped' /\ CreditsTyped' /\ ResponseTyped' /\ AclTyped'
      /\ TxTyped' /\ PumpsTyped' /\ HostTyped' /\ LinksTyped' /\ Mutual'
  BY Same DEF PushEvent
<1>4. /\ m_pendingEvents[c] \in Seq(Notice) /\ m_pendingEvents[c] # <<>>
      /\ Len(m_pendingEvents[c]) <= PENDING_EVENT_MAX /\ Len(m_pendingEvents[c]) \in Nat
      /\ m_pendingEvents' = [m_pendingEvents EXCEPT ![c] = Tail(m_pendingEvents[c])]
  BY <1>2, LenProperties DEF PushEvent, EventsTyped, Queues
<1>5. /\ Head(m_pendingEvents[c]) \in Notice /\ Tail(m_pendingEvents[c]) \in Seq(Notice)
      /\ Len(Tail(m_pendingEvents[c])) <= PENDING_EVENT_MAX
  BY <1>4, TailFacts, Constants
<1>6. EventsTyped'
  BY <1>2, <1>4, <1>5, Requeued DEF EventsTyped
<1>7. RxTyped'
  <2> DEFINE frame == Head(m_pendingEvents[c])
  <2>1. rx' = [rx EXCEPT ![c] = Append(rx[c], frame)] /\ Len(rx[c]) # RING_FRAMES - 1
    BY DEF PushEvent, Full
  <2>2. frame \in Notice \union Answer
    BY <1>5
  <2> HIDE DEF frame
  <2>3. rx[c] \in Seq(Notice \union Answer) /\ Len(rx[c]) < RING_FRAMES /\ Len(rx[c]) \in Nat
    BY <1>2, LenProperties DEF RxTyped
  <2>4. /\ Append(rx[c], frame) \in Seq(Notice \union Answer)
        /\ Len(Append(rx[c], frame)) = Len(rx[c]) + 1
    BY <2>2, <2>3, AppendFacts
  <2>5. Len(Append(rx[c], frame)) < RING_FRAMES
    BY <2>1, <2>3, <2>4, Constants
  <2> QED BY <1>2, <2>1, <2>4, <2>5 DEF RxTyped
<1>8. PICK x : x = [Top EXCEPT !.at = "draining"]
  OBVIOUS
<1>9. x \in Calls /\ x.at = "draining" /\ x.of \in airControllers /\ x.todo \subseteq airControllers
  BY <1>2, <1>8, At DEF Labels
<1>10. ~ Working(x) /\ Continue(x, <<>>)
  BY <1>8, <1>9 DEF Working, PushEvent, GoOn
<1>11. UNCHANGED <<airControllers, m_pumping, tx, m_pendingCommandResponse>>
  BY DEF PushEvent
<1>12. StackRight'
  BY <1>1, <1>9, <1>10, <1>11, Idles
<1> QED BY <1>3, <1>6, <1>7, <1>12 DEF IInv, DataTyped

\* pumpPendingEvents comes back.
LEMMA EndDrainStep ==
    ASSUME IInv, EndDrain
    PROVE  IInv'
<1>1. stack # <<>> /\ ~ Working(Top)
  BY DEF EndDrain, Draining, In, Working
<1>2. DataTyped' /\ LinksTyped' /\ Mutual'
  BY Same DEF EndDrain, DataTyped
<1>3. StackRight'
  BY <1>1, Idles DEF EndDrain
<1> QED BY <1>2, <1>3 DEF IInv

\* pumpPendingEvents calls the peer's pump last.
LEMMA DrainedStep ==
    ASSUME IInv, Drained
    PROVE  IInv'
<1> DEFINE p == m_connection[Top.of].peer
<1>1. stack # <<>> /\ ~ Working(Top)
  BY DEF Drained, In, Working
<1>2. DataTyped' /\ LinksTyped' /\ Mutual'
  BY Same DEF Drained, DataTyped
<1>3. UNCHANGED <<airControllers, m_pumping, tx, m_pendingCommandResponse>>
  BY DEF Drained
<1>4. CASE p \in airControllers /\ Continue(Call("pump", p), <<>>)
  <2>1. p \in Controllers
    BY <1>4 DEF IInv, DataTyped, MediumTyped
  <2>2. PICK x : x = Call("pump", p)
    OBVIOUS
  <2>3. x \in Calls /\ ~ Working(x) /\ x.of \in airControllers /\ x.todo \subseteq airControllers
    BY <1>4, <2>1, <2>2 DEF Call, Calls, Labels, Working
  <2>4. StackRight'
    BY <1>1, <1>3, <1>4, <2>2, <2>3, Idles
  <2> QED BY <1>2, <2>4 DEF IInv
<1>5. CASE Return
  <2>1. StackRight'
    BY <1>1, <1>3, <1>5, Idles
  <2> QED BY <1>2, <2>1 DEF IInv
<1> QED BY <1>4, <1>5 DEF Drained


-----------------------------------------------------------------------------
(***************************************************************************)
(* The thread is called, and controllers come and go.                      *)
(***************************************************************************)

\* Calls of an idle thread that do not work yet, whatever the rings hold.
LEMMA FromNothing ==
    ASSUME NEW s, s = <<>>, NEW pumping, NEW a, NEW r, NEW p, Right(s, pumping, a, r, p),
           NEW a2, NEW b, Quiet(b, a2), NEW r2, NEW p2, Answering(r2, p2)
    PROVE  Right(b, pumping, a2, r2, p2)
<1>1. DOMAIN s = {}
  BY EmptySeq
<1>2. \A c \in Controllers : ~ pumping[c]
  BY <1>1 DEF Right, Alone
<1>3. Alone(b, pumping)
  BY <1>2 DEF Quiet, Alone
<1>4. ASSUME NEW i \in DOMAIN b PROVE Sure(b[i], a2, r2, p2)
  BY DEF Quiet, Sure, Working
<1> QED BY <1>3, <1>4 DEF Right, Quiet

\* runTick calls the pump.
LEMMA RunTickStep ==
    ASSUME IInv, NEW c \in Controllers, RunTick(c)
    PROVE  IInv'
<1>1. /\ stack = <<>> /\ c \in airControllers /\ airControllers \subseteq Controllers
      /\ UNCHANGED <<airControllers, m_pumping, tx, m_pendingCommandResponse>>
  BY DEF RunTick, IInv, DataTyped, MediumTyped
<1>2. DataTyped' /\ LinksTyped' /\ Mutual'
  BY Same DEF RunTick, DataTyped
<1>3. PICK b : b = <<Call("pump", c)>>
  OBVIOUS
<1>4. Quiet(b, airControllers) /\ stack' = b
  BY <1>1, <1>3, QuietCalls DEF RunTick
<1>5. Right(stack, m_pumping, airControllers, tx, m_pendingCommandResponse)
  BY DEF IInv, StackRight
<1>6. Right(b, m_pumping, airControllers, tx, m_pendingCommandResponse)
  BY <1>1, <1>4, <1>5, SameRings, FromNothing
<1>7. StackRight'
  BY <1>1, <1>4, <1>6 DEF StackRight
<1> QED BY <1>2, <1>7 DEF IInv

\* What a controller's host has when it is created, or starts again.
LEMMA NewHostTyped ==
    ASSUME NEW m \in Nat, NEW n \in Nat
    PROVE  [NewHost EXCEPT !.commands = m, !.acls = n] \in Host
<1>1. NothingOutstanding \in [Handles -> Nat]
  BY DEF NothingOutstanding
<1>2. 0 \in 0 .. MAX_HANDLE
  BY Constants
<1> QED BY <1>1, <1>2 DEF NewHost, Host

\* ~QemuBtController: the peer is told.
LEMMA DestroyStep ==
    ASSUME IInv, NEW c \in Controllers, Destroy(c)
    PROVE  IInv'
<1>1. /\ stack = <<>> /\ c \in airControllers /\ Detach(c, <<>>)
      /\ airControllers' = airControllers \ {c}
  BY DEF Destroy
<1>2. /\ MediumTyped' /\ FlowTyped' /\ CreditsTyped' /\ ResponseTyped' /\ AclTyped'
      /\ EventsTyped' /\ LinksTyped' /\ Mutual'
      /\ \E b : Quiet(b, airControllers') /\ stack' = b \o <<>>
  BY <1>1, Detached
<1>3. TxTyped /\ RxTyped /\ HostTyped /\ PumpsTyped
  BY DEF IInv, DataTyped
<1>4. TxTyped' /\ RxTyped'
  <2>1. /\ <<>> \in Seq(Command \union Packet \union Returned) /\ <<>> \in Seq(Notice \union Answer)
        /\ Len(<<>>) < RING_FRAMES
    BY EmptySeq, Constants
  <2> QED BY <1>3, <2>1 DEF Destroy, TxTyped, RxTyped
<1>5. HostTyped'
  <2>1. host[c].commands \in Nat /\ host[c].acls \in Nat
    BY <1>3 DEF HostTyped, Host
  <2>2. PICK h : h = [NewHost EXCEPT !.commands = host[c].commands, !.acls = host[c].acls]
    OBVIOUS
  <2>3. h \in Host
    BY <2>1, <2>2, NewHostTyped
  <2>4. host' = [host EXCEPT ![c] = h]
    BY <2>2 DEF Destroy
  <2> QED BY <1>3, <2>3, <2>4 DEF HostTyped
<1>6. PumpsTyped' /\ m_pumping' = m_pumping
  BY Same DEF Destroy
<1>7. PICK b : Quiet(b, airControllers') /\ stack' = b \o <<>>
  BY <1>2
<1>8. stack' = b
  <2>1. b \in Seq(Calls)
    BY <1>7 DEF Quiet
  <2> QED BY <1>7, <2>1
<1>9. Right(stack, m_pumping, airControllers, tx, m_pendingCommandResponse)
  BY DEF IInv, StackRight
<1>12. Answering(tx', m_pendingCommandResponse')
  <2>1. /\ m_pendingCommandResponse'[c] = <<>>
        /\ \A d \in Controllers \ {c} : m_pendingCommandResponse'[d] = m_pendingCommandResponse[d]
    BY <1>1, Detached
  <2>2. \A d \in Controllers \ {c} : tx'[d] = tx[d]
    BY <1>3 DEF Destroy, TxTyped
  <2> QED BY <2>1, <2>2, SameRings DEF Answering
<1>10. Right(b, m_pumping, airControllers', tx', m_pendingCommandResponse')
  BY <1>1, <1>7, <1>9, <1>12, FromNothing
<1>11. StackRight'
  BY <1>6, <1>8, <1>10 DEF StackRight
<1> QED BY <1>2, <1>4, <1>5, <1>6, <1>11 DEF IInv, DataTyped

\* A controller is made again: it has nothing, and nobody knows of it.
LEMMA ConstructStep ==
    ASSUME IInv, NEW c \in Controllers, Construct(c)
    PROVE  IInv'
<1>1. /\ stack = <<>> /\ airControllers' = airControllers \union {c}
      /\ UNCHANGED <<airAdvertisements, airScanners, advertising, scanning, m_connection, stack,
                     m_pumping>>
  BY DEF Construct
<1>2. /\ FlowTyped' /\ CreditsTyped' /\ ResponseTyped' /\ AclTyped' /\ EventsTyped' /\ TxTyped'
      /\ RxTyped' /\ PumpsTyped' /\ HostTyped' /\ LinksTyped'
  BY Same DEF Construct
<1>3. MediumTyped'
  BY <1>1 DEF IInv, DataTyped, MediumTyped
<1>4. Mutual'
  BY <1>1 DEF IInv, Mutual
<1>5. Right(stack, m_pumping, airControllers, tx, m_pendingCommandResponse)
  BY DEF IInv, StackRight
<1>8. Answering(tx', m_pendingCommandResponse')
  BY SameRings DEF Construct
<1>6. Right(<<>>, m_pumping, airControllers', tx', m_pendingCommandResponse')
  BY <1>1, <1>5, <1>8, NothingQuiet, FromNothing
<1>7. StackRight'
  BY <1>1, <1>6 DEF StackRight
<1> QED BY <1>2, <1>3, <1>4, <1>7 DEF IInv, DataTyped

-----------------------------------------------------------------------------
(***************************************************************************)
(* The hosts.                                                              *)
(***************************************************************************)

\* A frame more in a ring disturbs no call.
LEMMA Put ==
    ASSUME IInv, NEW c \in Controllers, NEW frame \in Command \union Packet \union Returned,
           HostPuts(c, frame)
    PROVE  /\ MediumTyped' /\ FlowTyped' /\ CreditsTyped' /\ ResponseTyped' /\ AclTyped' /\ EventsTyped'
           /\ TxTyped' /\ RxTyped' /\ PumpsTyped' /\ LinksTyped' /\ Mutual' /\ StackRight'
<1>1. /\ MediumTyped' /\ FlowTyped' /\ CreditsTyped' /\ ResponseTyped' /\ AclTyped' /\ EventsTyped'
      /\ RxTyped' /\ PumpsTyped' /\ LinksTyped' /\ Mutual'
  BY Same DEF HostPuts
<1>2. TxTyped
  BY DEF IInv, DataTyped
<1>3. /\ tx[c] \in Seq(Command \union Packet \union Returned) /\ Len(tx[c]) < RING_FRAMES
      /\ Len(tx[c]) \in Nat /\ Len(tx[c]) # RING_FRAMES - 1
  BY <1>2, LenProperties DEF TxTyped, HostPuts, Full
<1>4. PICK q : q = Append(tx[c], frame)
  OBVIOUS
<1>5. q \in Seq(Command \union Packet \union Returned) /\ Len(q) = Len(tx[c]) + 1 /\ q # <<>>
  BY <1>3, <1>4, AppendFacts
<1>6. tx' = [tx EXCEPT ![c] = q] /\ Len(q) < RING_FRAMES
  BY <1>3, <1>4, <1>5, Constants DEF HostPuts
<1>7. TxTyped'
  BY <1>2, <1>5, <1>6 DEF TxTyped
<1>8. ASSUME NEW d \in Controllers PROVE StaysFirst(tx[d], tx'[d])
  <2>1. CASE d # c
    BY <1>2, <1>6, <2>1 DEF TxTyped, StaysFirst
  <2>2. CASE d = c
    <3>1. tx'[d] = q
      BY <1>2, <1>6, <2>2 DEF TxTyped
    <3>2. tx[c] # <<>> => Head(q) = Head(tx[c])
      BY <1>3, <1>4, HeadTailAppend
    <3> QED BY <1>5, <2>2, <3>1, <3>2 DEF StaysFirst, First
  <2> QED BY <2>1, <2>2
<1>9. Right(stack, m_pumping, airControllers, tx, m_pendingCommandResponse)
  BY DEF IInv, StackRight
<1>10. Right(stack, m_pumping, airControllers, tx', m_pendingCommandResponse)
  BY <1>8, <1>9, StaysRight
<1>11. StackRight'
  BY <1>10 DEF HostPuts, StackRight
<1> QED BY <1>1, <1>7, <1>11

\* A command of a program has an argument that belongs to it.
LEMMA CommandTyped ==
    ASSUME IInv, NEW c \in Controllers, NEW i \in DOMAIN Programs[c],
           NEW op \in Programs[c][i], NEW arg \in Arguments(c, op),
           NEW f, f = [type |-> "command", op |-> op, arg |-> arg]
    PROVE  f \in Command
<1>1. HostTyped /\ host[c] \in Host
  BY DEF IInv, DataTyped, HostTyped
<1>2. op \in Ops
  <2>1. Programs[c] \in Seq(SUBSET Ops)
    BY QemuBtAssumption
  <2>2. Programs[c][i] \in SUBSET Ops
    BY <2>1, LenProperties, ElementOfSeq
  <2> QED BY <2>2
<1>3. arg \in Nat \union Controllers /\ Fits(op, arg)
  <2>1. CASE op = "Create"
    BY <2>1 DEF Arguments, Fits
  <2>2. CASE op \in {"Disconnect", "ReadRemote"}
    <3>1. arg = host[c].handle /\ arg # 0
      BY <2>2 DEF Arguments
    <3>2. host[c].handle \in 0 .. MAX_HANDLE
      BY <1>1 DEF Host
    <3>3. arg \in Handles /\ arg \in Nat
      BY <3>1, <3>2, Constants DEF Handles
    <3> QED BY <2>2, <3>3 DEF Fits
  <2>3. CASE op = "HostBufferSize"
    <3>1. arg = AclPackets
      BY <2>3 DEF Arguments
    <3> QED BY <2>3, <3>1, Constants DEF Fits
  <2>4. CASE op \notin {"Create", "Disconnect", "ReadRemote", "HostBufferSize"}
    <3>1. arg = 0
      BY <2>4 DEF Arguments
    <3> QED BY <2>4, <3>1 DEF Fits
  <2> QED BY <2>1, <2>2, <2>3, <2>4
<1> QED BY <1>2, <1>3 DEF Command

\* A host puts a command of its program.
LEMMA HostCommandStep ==
    ASSUME IInv, NEW c \in Controllers, HostCommand(c)
    PROVE  IInv'
<1>1. HostTyped /\ host[c] \in Host /\ host[c].commands \in Nat
  BY DEF IInv, DataTyped, HostTyped, Host
<1>2. Programs[c] \in Seq(SUBSET Ops) /\ host[c].commands < Len(Programs[c]) /\ Len(Programs[c]) \in Nat
  BY QemuBtAssumption, LenProperties DEF HostCommand
<1>3. host[c].commands + 1 \in DOMAIN Programs[c]
  BY <1>1, <1>2
<1>4. PICK op \in Programs[c][host[c].commands + 1] : \E arg \in Arguments(c, op) :
          /\ HostPuts(c, [type |-> "command", op |-> op, arg |-> arg])
          /\ host' = [host EXCEPT ![c].waiting = op, ![c].commands = @ + 1]
  BY DEF HostCommand
<1>5. PICK arg \in Arguments(c, op) :
          /\ HostPuts(c, [type |-> "command", op |-> op, arg |-> arg])
          /\ host' = [host EXCEPT ![c].waiting = op, ![c].commands = @ + 1]
  BY <1>4
<1>6. PICK frame : frame = [type |-> "command", op |-> op, arg |-> arg]
  OBVIOUS
<1>7. frame \in Command /\ HostPuts(c, frame)
  BY <1>3, <1>5, <1>6, CommandTyped
<1>8. HostTyped'
  <2>1. op \in Ops
    BY <1>6, <1>7 DEF Command
  <2> QED BY <1>1, <1>5, <2>1 DEF HostTyped, Host
<1> QED BY <1>7, <1>8, Put DEF IInv, DataTyped

\* A host sends a packet over its connection.
LEMMA HostAclStep ==
    ASSUME IInv, NEW c \in Controllers, HostAcl(c)
    PROVE  IInv'
<1>1. HostTyped /\ host[c] \in Host
  BY DEF IInv, DataTyped, HostTyped
<1>2. host[c].handle \in Handles /\ host[c].sent \in Nat /\ host[c].acls \in Nat
  BY <1>1, Constants DEF Host, HostAcl, Handles
<1>3. PICK frame : frame = [type |-> "acl", handle |-> host[c].handle, n |-> host[c].sent + 1]
  OBVIOUS
<1>4. frame \in Packet /\ HostPuts(c, frame)
  BY <1>2, <1>3 DEF Packet, HostAcl
<1>5. HostTyped'
  BY <1>1 DEF HostTyped, Host, HostAcl
<1> QED BY <1>4, <1>5, Put DEF IInv, DataTyped

\* A host gives a packet back.
LEMMA HostReturnsStep ==
    ASSUME IInv, NEW c \in Controllers, HostReturns(c)
    PROVE  IInv'
<1>1. HostTyped /\ host[c] \in Host
  BY DEF IInv, DataTyped, HostTyped
<1>2. PICK h \in Handles : /\ host[c].held[h] > 0
                           /\ HostPuts(c, [type |-> "returned", handle |-> h, n |-> 1])
                           /\ host' = [host EXCEPT ![c].held[h] = @ - 1]
  BY DEF HostReturns
<1>3. PICK frame : frame = [type |-> "returned", handle |-> h, n |-> 1]
  OBVIOUS
<1>4. frame \in Returned /\ HostPuts(c, frame)
  BY <1>2, <1>3 DEF Returned
<1>5. HostTyped'
  <2>1. host[c].held \in [Handles -> Nat] /\ host[c].held[h] - 1 \in Nat
    BY <1>1, <1>2 DEF Host
  <2>2. [host[c].held EXCEPT ![h] = @ - 1] \in [Handles -> Nat]
    BY <2>1
  <2>3. [host[c] EXCEPT !.held[h] = @ - 1] \in Host
    BY <1>1, <2>2 DEF Host
  <2> QED BY <1>1, <1>2, <2>3 DEF HostTyped
<1> QED BY <1>4, <1>5, Put DEF IInv, DataTyped

\* A host takes a frame from its ring.
LEMMA HostReadsStep ==
    ASSUME IInv, NEW c \in Controllers, HostReads(c)
    PROVE  IInv'
<1> DEFINE frame == Head(rx[c])
           NewLink(h) == [host[c] EXCEPT !.handle = h, !.sent = 0, !.completed = 0, !.heard = 0]
<1>1. HostTyped /\ host[c] \in Host /\ RxTyped
  BY DEF IInv, DataTyped, HostTyped
<1>2. /\ MediumTyped' /\ FlowTyped' /\ CreditsTyped' /\ ResponseTyped' /\ AclTyped' /\ EventsTyped'
      /\ TxTyped' /\ PumpsTyped' /\ LinksTyped' /\ Mutual'
  BY Same DEF HostReads
<1>3. StackRight'
  BY DEF HostReads, IInv, StackRight
<1>4. /\ rx[c] \in Seq(Notice \union Answer) /\ rx[c] # <<>> /\ Len(rx[c]) < RING_FRAMES
      /\ Len(rx[c]) \in Nat
  BY <1>1, LenProperties DEF HostReads, RxTyped
<1>5. /\ frame \in Notice \union Answer /\ Tail(rx[c]) \in Seq(Notice \union Answer)
      /\ Len(Tail(rx[c])) = Len(rx[c]) - 1
  BY <1>4, TailFacts
<1>6. RxTyped'
  <2>1. PICK q : q = Tail(rx[c])
    OBVIOUS
  <2>2. rx' = [rx EXCEPT ![c] = q] /\ q \in Seq(Notice \union Answer) /\ Len(q) < RING_FRAMES
    <3>1. rx' = [rx EXCEPT ![c] = Tail(@)]
      BY DEF HostReads
    <3>2. rx' = [rx EXCEPT ![c] = q]
      BY <1>1, <2>1, <3>1 DEF RxTyped
    <3> QED BY <1>4, <1>5, <2>1, <3>2, Constants
  <2> QED BY <1>1, <2>2 DEF RxTyped
<1>7. /\ host[c].commands \in Nat /\ host[c].acls \in Nat /\ host[c].completed \in Nat
      /\ host[c].held \in [Handles -> Nat]
  BY <1>1 DEF Host
<1>8. /\ [host[c] EXCEPT !.waiting = "nothing"] \in Host
      /\ [NewHost EXCEPT !.commands = host[c].commands, !.acls = host[c].acls] \in Host
      /\ \A h \in 0 .. MAX_HANDLE : NewLink(h) \in Host
      /\ [host[c] EXCEPT !.completed = @ + 1] \in Host
  <2>1. [host[c] EXCEPT !.waiting = "nothing"] \in Host
    BY <1>1 DEF Host
  <2>2. [NewHost EXCEPT !.commands = host[c].commands, !.acls = host[c].acls] \in Host
    BY <1>7, NewHostTyped
  <2>3. ASSUME NEW h \in 0 .. MAX_HANDLE PROVE NewLink(h) \in Host
    BY <1>1 DEF Host
  <2>4. [host[c] EXCEPT !.completed = @ + 1] \in Host
    BY <1>1 DEF Host
  <2> QED BY <2>1, <2>2, <2>3, <2>4
<1>9. frame \in Notice => frame.handle \in 0 .. MAX_HANDLE /\ frame.n \in Nat
  BY DEF Notice
<1>10. frame.type # "response" => frame \in Notice
  BY <1>5 DEF Notice, Answer
<1>11. frame.type = "acl" =>
           [host[c] EXCEPT !.heard = frame.n, !.held[frame.handle] = @ + (IF c \in Flow THEN 1 ELSE 0)] \in Host
  <2> SUFFICES ASSUME frame.type = "acl"
               PROVE  [host[c] EXCEPT !.heard = frame.n,
                           !.held[frame.handle] = @ + (IF c \in Flow THEN 1 ELSE 0)] \in Host
    OBVIOUS
  <2>1. frame.n \in Nat
    BY <1>9, <1>10
  <2>2. PICK i : i = (IF c \in Flow THEN 1 ELSE 0)
    OBVIOUS
  <2>3. i \in Nat
    BY <2>2
  <2>4. PICK k : k = [host[c].held EXCEPT ![frame.handle] = @ + i]
    OBVIOUS
  <2>5. k \in [Handles -> Nat]
    <3> HIDE DEF frame
    <3>1. \A x \in Handles : host[c].held[x] + i \in Nat
      BY <1>7, <2>3
    <3> QED BY <1>7, <2>4, <3>1
  <2>6. [host[c] EXCEPT !.heard = frame.n, !.held = k] \in Host
    BY <1>1, <2>1, <2>5 DEF Host
  <2>7. [host[c] EXCEPT !.heard = frame.n, !.held[frame.handle] = @ + (IF c \in Flow THEN 1 ELSE 0)]
            = [host[c] EXCEPT !.heard = frame.n, !.held = k]
    BY <1>1, <2>2, <2>4 DEF Host
  <2> QED BY <2>6, <2>7
<1>12. ASSUME NEW h, host' = [host EXCEPT ![c] = h], h \in Host
       PROVE  HostTyped'
  BY <1>1, <1>12 DEF HostTyped
<1>13. HostTyped'
  <2>1. CASE frame.type = "response" /\ (frame.op # "Reset" \/ ~ frame.ok)
    <3>1. host' = [host EXCEPT ![c] = [host[c] EXCEPT !.waiting = "nothing"]]
      BY <1>1, <2>1 DEF HostReads, HostTyped
    <3> QED BY <1>8, <1>12, <3>1
  <2>2. CASE frame.type = "response" /\ frame.op = "Reset" /\ frame.ok
    <3>1. host' = [host EXCEPT ![c] = [NewHost EXCEPT !.commands = host[c].commands, !.acls = host[c].acls]]
      BY <2>2 DEF HostReads
    <3> QED BY <1>8, <1>12, <3>1
  <2>3. CASE frame.type = "connected" /\ frame.n = 1
    <3>1. host' = [host EXCEPT ![c] = NewLink(frame.handle)]
      BY <2>3 DEF HostReads
    <3>2. NewLink(frame.handle) \in Host
      BY <1>8, <1>9, <1>10, <2>3
    <3> QED BY <1>12, <3>1, <3>2
  <2>4. CASE frame.type = "connected" /\ frame.n # 1
    <3>1. host' = [host EXCEPT ![c] = host[c]]
      BY <1>1, <2>4 DEF HostReads, HostTyped
    <3> QED BY <1>1, <1>12, <3>1
  <2>5. CASE frame.type = "disconnected"
    <3>1. host' = [host EXCEPT ![c] = NewLink(0)]
      BY <2>5 DEF HostReads
    <3>2. NewLink(0) \in Host
      <4>1. 0 \in 0 .. MAX_HANDLE
        BY Constants
      <4> HIDE DEF NewLink
      <4> QED BY <1>8, <4>1
    <3> QED BY <1>12, <3>1, <3>2
  <2>6. CASE frame.type = "completed"
    <3>1. host' = [host EXCEPT ![c] = [host[c] EXCEPT !.completed = @ + 1]]
      BY <1>1, <2>6 DEF HostReads, HostTyped
    <3> QED BY <1>8, <1>12, <3>1
  <2>7. CASE frame.type = "acl"
    <3>1. host' = [host EXCEPT ![c] = [host[c] EXCEPT !.heard = frame.n,
                      !.held[frame.handle] = @ + (IF c \in Flow THEN 1 ELSE 0)]]
      BY <1>1, <2>7 DEF HostReads, HostTyped
    <3> QED BY <1>11, <1>12, <2>7, <3>1
  <2>8. CASE frame.type \in {"remote", "report"}
    <3>1. host' = [host EXCEPT ![c] = host[c]]
      BY <1>1, <2>8 DEF HostReads, HostTyped
    <3> QED BY <1>1, <1>12, <3>1
  <2>9. frame.type \in {"response", "connected", "disconnected", "acl", "completed", "remote", "report"}
    BY <1>5 DEF Notice, Answer
  <2> QED BY <2>1, <2>2, <2>3, <2>4, <2>5, <2>6, <2>7, <2>8, <2>9
<1> QED BY <1>2, <1>3, <1>6, <1>13 DEF IInv, DataTyped

-----------------------------------------------------------------------------
(***************************************************************************)
(* Sums, and frames that are counted.                                      *)
(***************************************************************************)

\* What SumFunction makes of the set s, given what it makes, v, of the set without the
\* element One(s) that is looked at first.
One(s) == CHOOSE x \in s : TRUE
Summed(f, s, v) == IF s = {} THEN 0 ELSE f[One(s)] + v[s \ {One(s)}]

SumIn(f, S, w) == w = [s \in SUBSET S |-> Summed(f, s, w)]

\* SumFunction by its definition.
LEMMA SumByChoice ==
    ASSUME NEW f
    PROVE  SumFunction(f) = (CHOOSE w : SumIn(f, DOMAIN f, w))[DOMAIN f]
  BY DEF SumFunction, SumFunctionOnSet, FoldFunctionOnSet, MapThenFoldSet, SumIn, Summed, One

\* The element that is looked at first makes a set smaller.
LEMMA OneLess ==
    ASSUME NEW S, IsFiniteSet(S), NEW s \in SUBSET S, s # {}
    PROVE  /\ One(s) \in s /\ s \ {One(s)} \in SUBSET S /\ IsFiniteSet(s)
           /\ Cardinality(s) \in Nat /\ Cardinality(s) # 0
           /\ Cardinality(s \ {One(s)}) = Cardinality(s) - 1
<1>1. IsFiniteSet(s)
  BY FS_Subset
<1>2. One(s) \in s
  BY DEF One
<1>3. Cardinality(s \ {One(s)}) = Cardinality(s) - 1
  BY <1>1, <1>2, FS_RemoveElement
<1>4. Cardinality(s) \in Nat /\ Cardinality(s) # 0
  BY <1>1, FS_CardinalityType, FS_EmptySet
<1> QED BY <1>1, <1>2, <1>3, <1>4

\* The function exists, by taking the least size of a set it would not exist for.
LEMMA SumExists ==
    ASSUME NEW f, NEW S, IsFiniteSet(S)
    PROVE  \E w : SumIn(f, S, w)
<1> DEFINE Small(n) == {s \in SUBSET S : Cardinality(s) <= n}
           UpTo(n, w) == w = [s \in Small(n) |-> Summed(f, s, w)]
           T == {n \in Nat : ~ \E w : UpTo(n, w)}
<1>1. \A s \in SUBSET S : Cardinality(s) \in Nat /\ IsFiniteSet(s)
  BY FS_Subset, FS_CardinalityType
<1>2. T = {}
  <2> SUFFICES ASSUME T # {} PROVE FALSE
    OBVIOUS
  <2>1. PICK m \in T : \A k \in T : m <= k
    <3> HIDE DEF T
    <3>1. T \subseteq Nat
      BY DEF T
    <3> QED BY <3>1, LeastNatural
  <2>2. CASE m = 0
    <3> DEFINE w == [s \in Small(0) |-> 0]
    <3>1. \A s \in Small(0) : s = {}
      BY <1>1, FS_EmptySet
    <3>2. w = [s \in Small(0) |-> Summed(f, s, w)]
      <4>1. \A s \in Small(0) : Summed(f, s, w) = 0
        BY <3>1 DEF Summed
      <4> QED BY <4>1
    <3> HIDE DEF w
    <3>3. UpTo(m, w)
      BY <2>2, <3>2
    <3> HIDE DEF UpTo
    <3> QED BY <2>1, <3>3
  <2>3. CASE m # 0
    <3>1. m \in Nat /\ m - 1 \in Nat /\ m - 1 \notin T
      <4> HIDE DEF UpTo
      <4>1. m \in Nat
        OBVIOUS
      <4> HIDE DEF T
      <4> QED BY <2>1, <2>3, <4>1
    <3>2. PICK v : UpTo(m - 1, v)
      <4> HIDE DEF UpTo
      <4> QED BY <3>1
    <3> DEFINE w == [s \in Small(m) |-> Summed(f, s, v)]
    <3>3. \A s \in Small(m - 1) : s \in Small(m) /\ w[s] = v[s]
      BY <1>1, <3>1, <3>2
    <3>4. \A s \in Small(m) : Summed(f, s, v) = Summed(f, s, w)
      <4> TAKE s \in Small(m)
      <4>1. CASE s = {}
        BY <4>1 DEF Summed
      <4>2. CASE s # {}
        <5>1. s \ {One(s)} \in Small(m - 1)
          BY <1>1, <3>1, <4>2, OneLess
        <5>2. v[s \ {One(s)}] = w[s \ {One(s)}]
          BY <5>1, <3>3
        <5> HIDE DEF w
        <5> QED BY <5>2 DEF Summed
      <4> QED BY <4>1, <4>2
    <3>5. w = [s \in Small(m) |-> Summed(f, s, w)]
      BY <3>4
    <3> HIDE DEF w
    <3>6. UpTo(m, w)
      BY <3>5
    <3> HIDE DEF UpTo
    <3> QED BY <2>1, <3>6
  <2> QED BY <2>2, <2>3
<1>3. PICK w : UpTo(Cardinality(S), w)
  <2>1. Cardinality(S) \in Nat /\ Cardinality(S) \notin T
    BY <1>1, <1>2
  <2> HIDE DEF UpTo
  <2> QED BY <2>1
<1>4. Small(Cardinality(S)) = SUBSET S
  <2>1. \A s \in SUBSET S : Cardinality(s) <= Cardinality(S)
    BY FS_Subset
  <2> QED BY <2>1
<1> QED BY <1>3, <1>4 DEF SumIn

\* Two functions whose values differ at h by d, if at all: so do their sums over
\* the sets h is in, and over the other sets they are the same.
LEMMA SumsDiffer ==
    ASSUME NEW S, IsFiniteSet(S), NEW f \in [S -> Nat], NEW g \in [S -> Nat], NEW h \in S,
           \A x \in S \ {h} : g[x] = f[x],
           NEW v, SumIn(f, S, v), NEW w, SumIn(g, S, w), NEW s \in SUBSET S
    PROVE  /\ v[s] \in Nat /\ w[s] \in Nat
           /\ w[s] = IF h \in s THEN v[s] + (g[h] - f[h]) ELSE v[s]
           /\ h \in s => f[h] <= v[s]
<1> DEFINE Good(t) == /\ v[t] \in Nat /\ w[t] \in Nat
                      /\ w[t] = IF h \in t THEN v[t] + (g[h] - f[h]) ELSE v[t]
                      /\ h \in t => f[h] <= v[t]
           T == {Cardinality(t) : t \in {u \in SUBSET S : ~ Good(u)}}
<1>0. \A t \in SUBSET S : Cardinality(t) \in Nat /\ IsFiniteSet(t)
  BY FS_Subset, FS_CardinalityType
<1>1. \A t \in SUBSET S : v[t] = Summed(f, t, v) /\ w[t] = Summed(g, t, w)
  BY DEF SumIn
<1>2. T = {}
  <2> SUFFICES ASSUME T # {} PROVE FALSE
    OBVIOUS
  <2>1. PICK m \in T : \A k \in T : m <= k
    <3>1. T \subseteq Nat
      BY <1>0
    <3> HIDE DEF T
    <3> QED BY <3>1, LeastNatural
  <2>2. PICK t \in SUBSET S : ~ Good(t) /\ m = Cardinality(t)
    BY <2>1
  <2>3. CASE t = {}
    <3>1. v[t] = 0 /\ w[t] = 0
      BY <1>1, <2>3 DEF Summed
    <3> QED BY <2>2, <2>3, <3>1
  <2>4. CASE t # {}
    <3> DEFINE x == One(t)
               r == t \ {x}
    <3>1. x \in t /\ r \in SUBSET S /\ Cardinality(r) = m - 1 /\ m \in Nat
      BY <2>2, <2>4, OneLess
    <3>2. Good(r)
      <4> SUFFICES ASSUME ~ Good(r) PROVE FALSE
        OBVIOUS
      <4> HIDE DEF Good
      <4>1. Cardinality(r) \in T
        BY <3>1
      <4> HIDE DEF T, r
      <4> QED BY <2>1, <3>1, <4>1
    <3>3. v[t] = f[x] + v[r] /\ w[t] = g[x] + w[r]
      BY <1>1, <2>4 DEF Summed
    <3>4. f[x] \in Nat /\ g[x] \in Nat /\ f[h] \in Nat /\ g[h] \in Nat /\ v[r] \in Nat /\ w[r] \in Nat
      BY <3>1, <3>2
    <3>5. CASE x = h
      <4>1. w[r] = v[r]
        BY <3>2, <3>5
      <4>2. h \in t
        BY <3>1, <3>5
      <4> HIDE DEF x, r
      <4>3. Good(t)
        BY <3>3, <3>4, <3>5, <4>1, <4>2
      <4> QED BY <2>2, <4>3
    <3>6. CASE x # h
      <4>1. g[x] = f[x] /\ (h \in r <=> h \in t)
        BY <3>1, <3>6
      <4>2. /\ w[r] = IF h \in r THEN v[r] + (g[h] - f[h]) ELSE v[r]
            /\ h \in r => f[h] <= v[r]
        BY <3>2
      <4> HIDE DEF x, r
      <4>3. Good(t)
        BY <3>3, <3>4, <4>1, <4>2
      <4> QED BY <2>2, <4>3
    <3> QED BY <3>5, <3>6
  <2> QED BY <2>3, <2>4
<1>3. Good(s)
  <2> HIDE DEF Good
  <2> QED BY <1>2
<1> QED BY <1>3

\* A value of a function is changed: so is the sum.
LEMMA SumChanged ==
    ASSUME NEW S, IsFiniteSet(S), NEW f \in [S -> Nat], NEW h \in S, NEW n \in Nat
    PROVE  /\ SumFunction(f) \in Nat /\ f[h] <= SumFunction(f)
           /\ SumFunction([f EXCEPT ![h] = n]) = SumFunction(f) + (n - f[h])
<1> DEFINE g == [f EXCEPT ![h] = n]
<1>1. g \in [S -> Nat] /\ g[h] = n /\ \A x \in S \ {h} : g[x] = f[x]
  OBVIOUS
<1> HIDE DEF g
<1>2. PICK v : v = CHOOSE u : SumIn(f, S, u)
  OBVIOUS
<1>3. PICK w : w = CHOOSE u : SumIn(g, S, u)
  OBVIOUS
<1>4. SumIn(f, S, v) /\ SumIn(g, S, w)
  BY <1>2, <1>3, SumExists
<1>5. SumFunction(f) = v[S] /\ SumFunction(g) = w[S]
  BY <1>1, <1>2, <1>3, SumByChoice
<1>6. v[S] \in Nat /\ w[S] = v[S] + (g[h] - f[h]) /\ f[h] <= v[S]
  BY <1>1, <1>4, SumsDiffer
<1> QED BY <1>1, <1>5, <1>6 DEF g

\* The sum of nothing but zeroes.
LEMMA SumOfZeroes ==
    ASSUME NEW S, IsFiniteSet(S)
    PROVE  SumFunction([x \in S |-> 0]) = 0
<1> DEFINE f == [x \in S |-> 0]
           v == [s \in SUBSET S |-> 0]
<1>1. ASSUME NEW w, SumIn(f, S, w)
      PROVE  w[S] = 0
  <2> DEFINE T == {Cardinality(t) : t \in {u \in SUBSET S : w[u] # 0}}
  <2>0. \A t \in SUBSET S : Cardinality(t) \in Nat /\ IsFiniteSet(t)
    BY FS_Subset, FS_CardinalityType
  <2>1. ASSUME T # {} PROVE FALSE
    <3>1. PICK m \in T : \A k \in T : m <= k
      <4>1. T \subseteq Nat
        BY <2>0
      <4> HIDE DEF T
      <4> QED BY <2>1, <4>1, LeastNatural
    <3>2. PICK t \in SUBSET S : w[t] # 0 /\ m = Cardinality(t)
      BY <3>1
    <3>3. w[t] = Summed(f, t, w)
      BY <1>1 DEF SumIn
    <3>4. t # {}
      BY <3>2, <3>3 DEF Summed
    <3> DEFINE r == t \ {One(t)}
    <3>5. One(t) \in S /\ r \in SUBSET S /\ Cardinality(r) = m - 1 /\ m \in Nat
      BY <3>2, <3>4, OneLess
    <3>6. w[r] = 0
      <4>1. Cardinality(r) \notin T
        <5> HIDE DEF T, r
        <5> QED BY <3>1, <3>5
      <4> QED BY <3>5, <4>1
    <3>7. w[t] = f[One(t)] + w[r]
      BY <3>3, <3>4 DEF Summed
    <3>8. f[One(t)] = 0
      BY <3>5
    <3> QED BY <3>2, <3>6, <3>7, <3>8
  <2> QED BY <2>1
<1> HIDE DEF f
<1>2. DOMAIN f = S
  BY DEF f
<1>3. PICK w : w = CHOOSE u : SumIn(f, S, u)
  OBVIOUS
<1>4. SumIn(f, S, w)
  BY <1>3, SumExists
<1>5. SumFunction(f) = w[S]
  BY <1>2, <1>3, SumByChoice
<1> QED BY <1>1, <1>4, <1>5 DEF f

\* A frame that Count counts.
Hit(f, type, h) == f.type = type /\ f.handle = h

\* Counting frames in nothing, and in one frame.
LEMMA CountBasics ==
    ASSUME NEW type, NEW h
    PROVE  /\ Count(<<>>, type, h) = 0
           /\ \A f : Count(<<f>>, type, h) = IF Hit(f, type, h) THEN 1 ELSE 0
<1>1. Count(<<>>, type, h) = 0
  <2>1. {i \in DOMAIN <<>> : Hit(<<>>[i], type, h)} = {}
    OBVIOUS
  <2> QED BY <2>1, FS_EmptySet DEF Count, Hit
<1>2. ASSUME NEW f PROVE Count(<<f>>, type, h) = IF Hit(f, type, h) THEN 1 ELSE 0
  <2> DEFINE H == {i \in DOMAIN <<f>> : Hit(<<f>>[i], type, h)}
  <2>1. DOMAIN <<f>> = {1} /\ <<f>>[1] = f
    OBVIOUS
  <2>2. H = IF Hit(f, type, h) THEN {1} ELSE {}
    BY <2>1
  <2>3. Count(<<f>>, type, h) = Cardinality(H)
    BY DEF Count, Hit
  <2> HIDE DEF H
  <2> QED BY <2>2, <2>3, FS_EmptySet, FS_Singleton
<1> QED BY <1>1, <1>2

\* Both queues' frames count, in the one after the other.
LEMMA CountConcat ==
    ASSUME NEW S, NEW q \in Seq(S), NEW r \in Seq(S), NEW type, NEW h
    PROVE  /\ Count(q \o r, type, h) = Count(q, type, h) + Count(r, type, h)
           /\ Count(q, type, h) \in Nat /\ Count(r, type, h) \in Nat
<1> DEFINE P(f) == Hit(f, type, h)
           A == {i \in 1 .. Len(q) : P(q[i])}
           B == {i \in 1 .. Len(r) : P(r[i])}
           C == {i \in 1 .. Len(q) + Len(r) : P((q \o r)[i])}
           D == {i \in Len(q) + 1 .. Len(q) + Len(r) : P(r[i - Len(q)])}
<1>1. Len(q) \in Nat /\ Len(r) \in Nat
  OBVIOUS
<1>2. /\ q \o r \in Seq(S) /\ Len(q \o r) = Len(q) + Len(r)
      /\ \A i \in 1 .. Len(q) + Len(r) : (q \o r)[i] = IF i <= Len(q) THEN q[i] ELSE r[i - Len(q)]
  BY ConcatProperties, ZenonT(30)
<1>3. Count(q, type, h) = Cardinality(A) /\ Count(r, type, h) = Cardinality(B) /\ Count(q \o r, type, h) = Cardinality(C)
  BY <1>2, LenProperties DEF Count, Hit
<1>4. IsFiniteSet(A) /\ IsFiniteSet(B) /\ IsFiniteSet(D)
  <2>1. /\ IsFiniteSet(1 .. Len(q)) /\ IsFiniteSet(1 .. Len(r))
        /\ IsFiniteSet(Len(q) + 1 .. Len(q) + Len(r))
    BY <1>1, FS_Interval
  <2>2. A \subseteq 1 .. Len(q) /\ B \subseteq 1 .. Len(r) /\ D \subseteq Len(q) + 1 .. Len(q) + Len(r)
    OBVIOUS
  <2> HIDE DEF A, B, D
  <2> QED BY <2>1, <2>2, FS_Subset
<1>5. C = A \union D /\ A \intersect D = {}
  <2>1. ASSUME NEW i \in 1 .. Len(q) + Len(r)
        PROVE  i \in C <=> i \in A \/ i \in D
    <3>1. CASE i <= Len(q)
      <4>1. (q \o r)[i] = q[i] /\ i \in 1 .. Len(q) /\ i \notin Len(q) + 1 .. Len(q) + Len(r)
        BY <1>1, <1>2, <3>1
      <4> HIDE DEF P
      <4> QED BY <4>1
    <3>2. CASE ~(i <= Len(q))
      <4>1. (q \o r)[i] = r[i - Len(q)] /\ i \notin 1 .. Len(q) /\ i \in Len(q) + 1 .. Len(q) + Len(r)
        BY <1>1, <1>2, <3>2
      <4> HIDE DEF P
      <4> QED BY <4>1
    <3> QED BY <3>1, <3>2
  <2>2. /\ A \subseteq 1 .. Len(q) + Len(r) /\ D \subseteq 1 .. Len(q) + Len(r)
        /\ C \subseteq 1 .. Len(q) + Len(r)
    BY <1>1
  <2>3. A \intersect D = {}
    BY <1>1
  <2> HIDE DEF A, C, D
  <2> QED BY <2>1, <2>2, <2>3
<1>6. Cardinality(D) = Cardinality(B)
  <2> DEFINE f == [i \in B |-> i + Len(q)]
  <2>1. f \in [B -> D]
    <3> SUFFICES ASSUME NEW i \in B PROVE i + Len(q) \in D
      OBVIOUS
    <3>1. i + Len(q) \in Len(q) + 1 .. Len(q) + Len(r) /\ (i + Len(q)) - Len(q) = i
      BY <1>1
    <3> HIDE DEF P
    <3> QED BY <3>1
  <2>2. \A i, j \in B : f[i] = f[j] => i = j
    BY <1>1
  <2>3. \A d \in D : \E i \in B : f[i] = d
    <3> TAKE d \in D
    <3>1. d - Len(q) \in 1 .. Len(r) /\ (d - Len(q)) + Len(q) = d
      BY <1>1
    <3>2. d - Len(q) \in B
      BY <3>1
    <3> HIDE DEF B, D
    <3> QED BY <3>1, <3>2
  <2> HIDE DEF f, B, D
  <2>4. f \in Bijection(B, D)
    BY <2>1, <2>2, <2>3, Fun_IsBij
  <2>5. ExistsBijection(B, D)
    BY <2>4 DEF ExistsBijection
  <2> QED BY <1>4, <2>5, FS_Bijection
<1> HIDE DEF A, B, C, D
<1>7. Cardinality(C) = Cardinality(A) + Cardinality(D) - Cardinality(A \intersect D)
  BY <1>4, <1>5, FS_Union
<1>8. Cardinality(A \intersect D) = 0 /\ Cardinality(A) \in Nat /\ Cardinality(B) \in Nat
  BY <1>4, <1>5, FS_EmptySet, FS_CardinalityType
<1> QED BY <1>3, <1>6, <1>7, <1>8

\* One frame more.
LEMMA CountAppend ==
    ASSUME NEW S, NEW q \in Seq(S), NEW f \in S, NEW type, NEW h
    PROVE  /\ Count(Append(q, f), type, h) = Count(q, type, h) + IF Hit(f, type, h) THEN 1 ELSE 0
           /\ Count(q, type, h) \in Nat
<1>1. PICK r : r = <<f>>
  OBVIOUS
<1>2. Append(q, f) = q \o r /\ r \in Seq(S)
  BY <1>1
<1>3. Count(q \o r, type, h) = Count(q, type, h) + Count(r, type, h) /\ Count(q, type, h) \in Nat
  BY <1>2, CountConcat
<1>4. Count(r, type, h) = IF Hit(f, type, h) THEN 1 ELSE 0
  BY <1>1, CountBasics
<1> QED BY <1>2, <1>3, <1>4

\* The first frame less.
LEMMA CountTail ==
    ASSUME NEW S, NEW q \in Seq(S), q # <<>>, NEW type, NEW h
    PROVE  /\ Count(q, type, h) = Count(Tail(q), type, h) + IF Hit(Head(q), type, h) THEN 1 ELSE 0
           /\ Count(Tail(q), type, h) \in Nat
<1>1. PICK f : f = Head(q)
  OBVIOUS
<1>2. PICK r : r = Tail(q)
  OBVIOUS
<1>3. PICK o : o = <<f>>
  OBVIOUS
<1>4. q = o \o r /\ o \in Seq(S) /\ r \in Seq(S)
  BY <1>1, <1>2, <1>3
<1>5. Count(o \o r, type, h) = Count(o, type, h) + Count(r, type, h) /\ Count(r, type, h) \in Nat
  BY <1>4, CountConcat
<1>6. Count(o, type, h) = IF Hit(f, type, h) THEN 1 ELSE 0
  BY <1>3, CountBasics
<1>7. Count(q, type, h) = Count(r, type, h) + (IF Hit(f, type, h) THEN 1 ELSE 0)
  BY <1>4, <1>5, <1>6
<1> QED BY <1>1, <1>2, <1>5, <1>7

\* Nothing to count.
LEMMA CountNone ==
    ASSUME NEW S, NEW q \in Seq(S), NEW type, NEW h, \A i \in DOMAIN q : q[i].type # type
    PROVE  Count(q, type, h) = 0
<1>1. {i \in DOMAIN q : q[i].type = type /\ q[i].handle = h} = {}
  OBVIOUS
<1> QED BY <1>1, FS_EmptySet DEF Count

\* A queue has as much to count without its reports.
LEMMA CountLeft ==
    ASSUME NEW S, NEW q \in Seq(S), NEW type, type # "report", NEW h
    PROVE  Count(withoutReports(q), type, h) = Count(q, type, h)
<1>1. PICK w : w = CHOOSE v : LeftIn(q, v, Len(q))
  OBVIOUS
<1>2. withoutReports(q) = w[Len(q)]
  BY <1>1 DEF withoutReports, LeftIn, Left
<1>3. LeftIn(q, w, Len(q))
  BY <1>1, LeftExists
<1> DEFINE H(n) == {i \in 1 .. n : Hit(q[i], type, h)}
           Good(n) == w[n] \in Seq(S) /\ Count(w[n], type, h) = Cardinality(H(n))
           T == {n \in 0 .. Len(q) : ~ Good(n)}
<1>4. Len(q) \in Nat
  OBVIOUS
<1>5. T = {}
  <2> SUFFICES ASSUME T # {} PROVE FALSE
    OBVIOUS
  <2>1. PICK m \in T : \A k \in T : m <= k
    <3>1. T \subseteq Nat
      BY <1>4
    <3> HIDE DEF T
    <3> QED BY <3>1, LeastNatural
  <2>2. w[m] = Left(q, m, w[m - 1]) /\ m \in 0 .. Len(q) /\ ~ Good(m)
    BY <1>3, <1>4, <2>1 DEF LeftIn
  <2>3. CASE m = 0
    <3>1. w[m] = <<>> /\ H(m) = {}
      BY <2>2, <2>3 DEF Left
    <3>2. w[m] \in Seq(S) /\ Count(w[m], type, h) = 0 /\ Cardinality(H(m)) = 0
      BY <3>1, EmptySeq, CountBasics, FS_EmptySet
    <3> QED BY <2>2, <3>2
  <2>4. CASE m # 0
    <3>1. m - 1 \in 0 .. Len(q) /\ m - 1 \notin T /\ m \in 1 .. Len(q)
      <4>1. m - 1 \in 0 .. Len(q) /\ m \in 1 .. Len(q) /\ ~(m <= m - 1)
        BY <1>4, <2>2, <2>4
      <4> HIDE DEF T
      <4> QED BY <2>1, <4>1
    <3>2. w[m - 1] \in Seq(S) /\ Count(w[m - 1], type, h) = Cardinality(H(m - 1))
      BY <3>1
    <3>3. q[m] \in S
      BY <3>1, ElementOfSeq
    <3>4. /\ Append(w[m - 1], q[m]) \in Seq(S)
          /\ Count(Append(w[m - 1], q[m]), type, h)
                = Count(w[m - 1], type, h) + IF Hit(q[m], type, h) THEN 1 ELSE 0
      BY <3>2, <3>3, AppendFacts, CountAppend
    <3>5. Cardinality(H(m)) = Cardinality(H(m - 1)) + (IF Hit(q[m], type, h) THEN 1 ELSE 0)
          /\ Cardinality(H(m - 1)) \in Nat
      <4>1. H(m) = IF Hit(q[m], type, h) THEN H(m - 1) \union {m} ELSE H(m - 1)
        <5>1. 1 .. m = (1 .. m - 1) \union {m}
          BY <3>1
        <5> QED BY <5>1
      <4>2. IsFiniteSet(1 .. m - 1) /\ H(m - 1) \subseteq 1 .. m - 1
        BY <3>1, FS_Interval
      <4>3. IsFiniteSet(H(m - 1)) /\ m \notin H(m - 1)
        <5>1. m \notin 1 .. m - 1
          BY <3>1
        <5> HIDE DEF H
        <5> QED BY <4>2, <5>1, FS_Subset
      <4> HIDE DEF H
      <4>4. Cardinality(H(m - 1) \union {m}) = Cardinality(H(m - 1)) + 1 /\ Cardinality(H(m - 1)) \in Nat
        BY <4>3, FS_AddElement, FS_CardinalityType
      <4> QED BY <4>1, <4>4
    <3> HIDE DEF H
    <3>6. CASE q[m].type = "report"
      <4>1. w[m] = w[m - 1] /\ ~ Hit(q[m], type, h)
        BY <2>2, <2>4, <3>6 DEF Left, Hit
      <4>2. Good(m)
        BY <3>2, <3>5, <4>1
      <4> QED BY <2>2, <4>2
    <3>7. CASE q[m].type # "report"
      <4>1. w[m] = Append(w[m - 1], q[m])
        BY <2>2, <2>4, <3>7 DEF Left
      <4>2. Good(m)
        BY <3>2, <3>4, <3>5, <4>1
      <4> QED BY <2>2, <4>2
    <3> QED BY <3>6, <3>7
  <2> QED BY <2>3, <2>4
<1>6. Good(Len(q))
  <2>1. Len(q) \in 0 .. Len(q)
    BY <1>4
  <2> HIDE DEF Good
  <2> QED BY <1>5, <2>1
<1>7. Count(q, type, h) = Cardinality(H(Len(q)))
  BY LenProperties DEF Count, Hit
<1> QED BY <1>2, <1>6, <1>7

-----------------------------------------------------------------------------
(***************************************************************************)
(* The account of the credits.                                             *)
(***************************************************************************)

\* A command of the program of c's host.
Wanted(c, op) == \E i \in DOMAIN Programs[c] : op \in Programs[c][i]

\* What c's host asks for, in its ring q and the responses r, and all hosts.
Asked(c, q, r) ==
    /\ \A i \in DOMAIN q :
          /\ q[i].type = "returned" => q[i].n = 1
          /\ q[i].type = "command" => Wanted(c, q[i].op)
    /\ \A i \in DOMAIN r : Wanted(c, r[i].op)

Modest(t, p) == \A c \in Controllers : Asked(c, t[c], p[c])

\* The response that makes a host forget what it holds.
ResetDone(frame) == frame.type = "response" /\ frame.op = "Reset" /\ frame.ok

Unreset(limited, r) ==
    \A c \in Controllers :
        limited[c] => c \in Flow /\ \A i \in DOMAIN r[c] : ~ ResetDone(r[c][i])

\* Packets under h that are on their way to the host, with it or on their way back.
OnTheWay(e, r, t, held, h) ==
    Count(r, "acl", h) + Count(e, "acl", h) + held[h] + Count(t, "returned", h)

Accounted(packets, available, outstanding, e, r, t, held) ==
    /\ available + SumFunction(outstanding) = packets
    /\ \A h \in Handles : outstanding[h] = OnTheWay(e, r, t, held, h)

Account ==
    \A c \in Controllers :
        controllerToHostFlow[c] =>
            Accounted(hostAclPackets[c], hostAclCredits[c], m_hostAclOutstanding[c], m_pendingEvents[c],
                      rx[c], tx[c], host[c].held)

AInv == Modest(tx, m_pendingCommandResponse) /\ Unreset(controllerToHostFlow, rx) /\ Account

\* As many frames of the type in one controller's queue as in the other.
AsMany(q, q2, type) == \A h \in Handles : Count(q2, type, h) = Count(q, type, h)

\* No packet is under way, and c's host gives back what it will be sent.
NoneUnderWay(c) ==
    /\ c \in Flow
    /\ hostAclCredits[c] = hostAclPackets[c] /\ m_hostAclOutstanding[c] = NothingOutstanding
    /\ \A h \in Handles : OnTheWay(m_pendingEvents[c], rx[c], tx[c], host[c].held, h) = 0
    /\ \A i \in DOMAIN rx[c] : ~ ResetDone(rx[c][i])

\* A step that sets flow control up does so before there are packets: what the command found
\* when it was checked is still so when it is committed (handleHostBufferSize).
Timely ==
    \A c \in Controllers : CommitState(c) =>
        LET op == m_pendingCommandResponse[c][1].op IN
        /\ op = "HostBufferSize" /\ controllerToHostFlow[c] => m_hostAclOutstanding[c] = NothingOutstanding
        /\ op = "FlowOn" /\ ~ controllerToHostFlow[c] => NoneUnderWay(c)

\* Flow control is a matter of before the start: no host turns it on, and one that is under
\* it does not say again how many packets it has room for.
Settled ==
    \A c \in Controllers : ~ Wanted(c, "FlowOn") /\ (c \in Flow => ~ Wanted(c, "HostBufferSize"))

-----------------------------------------------------------------------------
\* Packets only move for every controller that still is under flow control.
LEMMA Moved ==
    ASSUME Account,
           \A c \in Controllers : controllerToHostFlow'[c] =>
               /\ controllerToHostFlow[c]
               /\ hostAclPackets'[c] = hostAclPackets[c]
               /\ hostAclCredits'[c] = hostAclCredits[c]
               /\ m_hostAclOutstanding'[c] = m_hostAclOutstanding[c]
               /\ \A h \in Handles :
                     OnTheWay(m_pendingEvents'[c], rx'[c], tx'[c], host'[c].held, h)
                         = OnTheWay(m_pendingEvents[c], rx[c], tx[c], host[c].held, h)
    PROVE  Account'
<1> SUFFICES ASSUME NEW c \in Controllers, controllerToHostFlow'[c]
             PROVE  Accounted(hostAclPackets'[c], hostAclCredits'[c], m_hostAclOutstanding'[c],
                              m_pendingEvents'[c], rx'[c], tx'[c], host'[c].held)
  BY DEF Account
<1>1. Accounted(hostAclPackets[c], hostAclCredits[c], m_hostAclOutstanding[c], m_pendingEvents[c],
                rx[c], tx[c], host[c].held)
  BY DEF Account
<1> QED BY <1>1 DEF Accounted

\* They do not even move.
LEMMA Steady ==
    ASSUME Account,
           \A c \in Controllers : controllerToHostFlow'[c] =>
               /\ controllerToHostFlow[c]
               /\ hostAclPackets'[c] = hostAclPackets[c]
               /\ hostAclCredits'[c] = hostAclCredits[c]
               /\ m_hostAclOutstanding'[c] = m_hostAclOutstanding[c]
               /\ host'[c].held = host[c].held
               /\ AsMany(m_pendingEvents[c], m_pendingEvents'[c], "acl")
               /\ AsMany(rx[c], rx'[c], "acl")
               /\ AsMany(tx[c], tx'[c], "returned")
    PROVE  Account'
<1>1. ASSUME NEW c \in Controllers, controllerToHostFlow'[c], NEW h \in Handles
      PROVE  OnTheWay(m_pendingEvents'[c], rx'[c], tx'[c], host'[c].held, h)
                 = OnTheWay(m_pendingEvents[c], rx[c], tx[c], host[c].held, h)
  BY <1>1 DEF AsMany, OnTheWay
<1> QED BY <1>1, Moved

\* The same, when only the events that wait change.
LEMMA SteadyEvents ==
    ASSUME AInv, UNCHANGED <<flow, credits, host, rx, tx>>,
           \A c \in Controllers : AsMany(m_pendingEvents[c], m_pendingEvents'[c], "acl")
    PROVE  Account' /\ Unreset(controllerToHostFlow', rx')
<1>1. \A c \in Controllers : AsMany(rx[c], rx'[c], "acl") /\ AsMany(tx[c], tx'[c], "returned")
  BY DEF AsMany
<1>2. Account'
  BY <1>1, Steady DEF AInv, flow, credits
<1> QED BY <1>2 DEF AInv, flow

\* Nothing of it changes.
LEMMA Undisturbed ==
    ASSUME AInv,
           UNCHANGED <<flow, credits, m_pendingEvents, m_pendingCommandResponse, tx, rx, host>>
    PROVE  AInv'
<1>1. \A c \in Controllers : AsMany(m_pendingEvents[c], m_pendingEvents'[c], "acl")
  BY DEF AsMany
<1>2. Account' /\ Unreset(controllerToHostFlow', rx')
  BY <1>1, SteadyEvents
<1> QED BY <1>2 DEF AInv

-----------------------------------------------------------------------------
\* An event that is not a packet is nothing to count.
LEMMA QueuedAsMany ==
    ASSUME NEW q, Queues(q), NEW d, NEW f \in Notice, f.type # "acl", NEW c \in Controllers
    PROVE  AsMany(q[c], queueReliable(q, d, f)[c], "acl")
<1>1. q[c] \in Seq(Notice) /\ DOMAIN q = Controllers
  BY DEF Queues
<1>2. CASE queueReliable(q, d, f)[c] = q[c]
  BY <1>2 DEF AsMany
<1>3. CASE queueReliable(q, d, f)[c] # q[c]
  <2>1. queueReliable(q, d, f)[c] = Append(q[c], f)
    BY <1>1, <1>3 DEF queueReliable, queueFrame
  <2>2. ASSUME NEW h \in Handles PROVE Count(Append(q[c], f), "acl", h) = Count(q[c], "acl", h)
    <3>1. /\ Count(Append(q[c], f), "acl", h) = Count(q[c], "acl", h) + IF Hit(f, "acl", h) THEN 1 ELSE 0
          /\ Count(q[c], "acl", h) \in Nat
      BY <1>1, CountAppend
    <3>2. ~ Hit(f, "acl", h)
      BY DEF Hit
    <3> QED BY <3>1, <3>2
  <2> QED BY <2>1, <2>2 DEF AsMany
<1> QED BY <1>2, <1>3

\* Reports are nothing to count.
LEMMA ReportedAsMany ==
    ASSUME NEW q, Queues(q), NEW d \in Controllers, NEW n \in Nat, NEW c \in Controllers
    PROVE  AsMany(q[c], queueReports(q, d, n)[c], "acl")
<1>1. q[c] \in Seq(Notice) /\ q[d] \in Seq(Notice) /\ DOMAIN q = Controllers
  BY DEF Queues
<1>2. PICK fit \in Nat :
          /\ queueReports(q, d, n) = [q EXCEPT ![d] = q[d] \o Reports(fit)]
          /\ Len(q[d]) + fit <= PENDING_EVENT_MAX
  BY Fitting
<1>3. PICK reports : reports = Reports(fit)
  OBVIOUS
<1>4. reports \in Seq(Notice) /\ \A i \in DOMAIN reports : reports[i].type # "acl"
  BY <1>3, ReportsTyped
<1>5. ASSUME NEW h \in Handles
      PROVE  Count(q[d] \o reports, "acl", h) = Count(q[d], "acl", h)
  <2>1. /\ Count(q[d] \o reports, "acl", h) = Count(q[d], "acl", h) + Count(reports, "acl", h)
        /\ Count(q[d], "acl", h) \in Nat
    BY <1>1, <1>4, CountConcat
  <2>2. Count(reports, "acl", h) = 0
    BY <1>4, CountNone
  <2> QED BY <2>1, <2>2
<1>6. queueReports(q, d, n)[c] = IF c = d THEN q[d] \o reports ELSE q[c]
  BY <1>1, <1>2, <1>3
<1> QED BY <1>5, <1>6 DEF AsMany

\* The reports that are dropped too.
LEMMA DroppedAsMany ==
    ASSUME NEW q, Queues(q), NEW d, NEW c \in Controllers
    PROVE  AsMany(q[c], dropBestEffortEvents(q, d)[c], "acl")
<1>1. q[c] \in Seq(Notice) /\ DOMAIN q = Controllers
  BY DEF Queues
<1>2. CASE c # d
  BY <1>1, <1>2 DEF AsMany, dropBestEffortEvents
<1>3. CASE c = d
  <2>1. dropBestEffortEvents(q, d)[c] = withoutReports(q[c])
    BY <1>1, <1>3 DEF dropBestEffortEvents
  <2>2. \A h \in Handles : Count(withoutReports(q[c]), "acl", h) = Count(q[c], "acl", h)
    BY <1>1, CountLeft
  <2> QED BY <2>1, <2>2 DEF AsMany
<1> QED BY <1>2, <1>3

\* A frame that is not a returned packet is taken from the ring.
LEMMA TakenAsMany ==
    ASSUME NEW S, NEW q \in Seq(S), q # <<>>, NEW type, Head(q).type # type
    PROVE  AsMany(q, Tail(q), type)
<1> SUFFICES ASSUME NEW h \in Handles PROVE Count(Tail(q), type, h) = Count(q, type, h)
  BY DEF AsMany
<1>1. /\ Count(q, type, h) = Count(Tail(q), type, h) + IF Hit(Head(q), type, h) THEN 1 ELSE 0
      /\ Count(Tail(q), type, h) \in Nat
  BY CountTail
<1>2. ~ Hit(Head(q), type, h)
  BY DEF Hit
<1> QED BY <1>1, <1>2

\* A frame that is not of the type comes to the end of the ring.
LEMMA AddedAsMany ==
    ASSUME NEW S, NEW q \in Seq(S), NEW f \in S, NEW type, f.type # type
    PROVE  AsMany(q, Append(q, f), type)
<1> SUFFICES ASSUME NEW h \in Handles PROVE Count(Append(q, f), type, h) = Count(q, type, h)
  BY DEF AsMany
<1>1. /\ Count(Append(q, f), type, h) = Count(q, type, h) + IF Hit(f, type, h) THEN 1 ELSE 0
      /\ Count(q, type, h) \in Nat
  BY CountAppend
<1>2. ~ Hit(f, type, h)
  BY DEF Hit
<1> QED BY <1>1, <1>2

\* A queue is as it was.
LEMMA SameAsMany ==
    ASSUME NEW q, NEW type
    PROVE  AsMany(q, q, type)
  BY DEF AsMany

\* What a host asks for is among what it was.
LEMMA AskedLess ==
    ASSUME NEW S, NEW q \in Seq(S), NEW r, NEW c, Asked(c, q, r),
           NEW q2, q2 = q \/ q2 = <<>> \/ (q # <<>> /\ q2 = Tail(q)),
           NEW r2, r2 = r \/ r2 = <<>>
    PROVE  Asked(c, q2, r2)
<1>1. \A i \in DOMAIN r2 : i \in DOMAIN r /\ r2[i] = r[i]
  OBVIOUS
<1>2. \A i \in DOMAIN q2 : \E j \in DOMAIN q : q2[i] = q[j]
  <2>1. CASE q2 = q \/ q2 = <<>>
    BY <2>1
  <2>2. CASE q # <<>> /\ q2 = Tail(q)
    <3>1. \A i \in DOMAIN Tail(q) : i + 1 \in DOMAIN q /\ Tail(q)[i] = q[i + 1]
      BY <2>2
    <3> QED BY <2>2, <3>1
  <2> QED BY <2>1, <2>2
<1> QED BY <1>1, <1>2 DEF Asked

\* It asks for one thing more.
LEMMA AskedMore ==
    ASSUME NEW S, NEW q \in Seq(S), NEW r, NEW c, Asked(c, q, r), NEW f \in S,
           f.type = "returned" => f.n = 1,
           f.type = "command" => Wanted(c, f.op)
    PROVE  Asked(c, Append(q, f), r)
<1>1. \A i \in DOMAIN Append(q, f) : (i \in DOMAIN q /\ Append(q, f)[i] = q[i]) \/ Append(q, f)[i] = f
  OBVIOUS
<1> QED BY <1>1 DEF Asked

\* A response goes out: it is no packet, and only one to Reset makes a host forget.
LEMMA RespondedAsMany ==
    ASSUME IInv, NEW c, NEW ops, NEW ok \in BOOLEAN, Responds(c, ops, ok),
           NEW limited, Unreset(limited, rx), limited[c] => ~ ok \/ "Reset" \notin ops
    PROVE  /\ \A d \in Controllers : AsMany(rx[d], rx'[d], "acl")
           /\ Unreset(limited, rx')
<1>1. /\ c \in Controllers /\ m_pendingCommandResponse[c][1] \in Response
      /\ m_pendingCommandResponse[c][1].op \in ops
  BY Responded
<1>2. PICK f : f = [type |-> "response", op |-> m_pendingCommandResponse[c][1].op, ok |-> ok]
  OBVIOUS
<1>3. PICK q : q = rx[c]
  OBVIOUS
<1>4. PICK r : r = Append(q, f)
  OBVIOUS
<1>5. /\ rx' = [rx EXCEPT ![c] = r] /\ rx \in [Controllers -> Seq(Notice \union Answer)]
      /\ q \in Seq(Notice \union Answer)
  BY <1>1, <1>2, <1>3, <1>4 DEF Responds, IInv, DataTyped, RxTyped
<1>6. f \in Notice \union Answer /\ f.type # "acl"
  BY <1>1, <1>2 DEF Response, Answer
<1>7. ASSUME NEW d \in Controllers PROVE AsMany(rx[d], rx'[d], "acl")
  <2>1. AsMany(q, r, "acl")
    BY <1>4, <1>5, <1>6, AddedAsMany
  <2> QED BY <1>3, <1>5, <2>1, SameAsMany
<1>8. Unreset(limited, rx')
  <2>1. \A i \in DOMAIN r : (i \in DOMAIN q /\ r[i] = q[i]) \/ r[i] = f
    BY <1>4, <1>5, <1>6
  <2>2. limited[c] => ~ ResetDone(f)
    BY <1>1, <1>2 DEF ResetDone
  <2> QED BY <1>3, <1>5, <2>1, <2>2 DEF Unreset
<1> QED BY <1>7, <1>8

-----------------------------------------------------------------------------
\* A packet is forwarded: a credit of the peer's is used for it, under the peer's own handle.
LEMMA RouteAccount ==
    ASSUME IInv, AInv, NEW c \in Controllers, NEW frame \in Packet,
           Live(c, frame), ~ Blocked(c), Route(c, frame), UNCHANGED <<flow, tx, rx, host>>
    PROVE  Account'
<1> DEFINE p == m_connection[c].peer
           h == m_connection[c].peerHandle
           event == Event("acl", h, frame.n)
           q == queueReliable(m_pendingEvents, p, event)
<1>1. MediumTyped /\ LinksTyped /\ Mutual /\ CreditsTyped /\ FlowTyped /\ Queues(m_pendingEvents)
  BY DEF IInv, DataTyped, EventsTyped
<1>2. p \in Controllers /\ p # c /\ h \in Handles /\ m_connection[p].localHandle = h
  BY <1>1, OtherEnd DEF Live
<1>3. event \in Notice /\ event.type = "acl" /\ event.handle = h
  BY <1>2, Constants DEF Event, Notice, Packet, Handles
<1>4. Len(m_pendingEvents[p]) < RELIABLE_DATA_EVENT_MAX
  BY <1>1, <1>2, LenProperties, QemuBtAssumption DEF Blocked, Queues
<1>5. Len(m_pendingEvents[p]) < PENDING_EVENT_MAX
  BY <1>1, <1>2, <1>4, LenProperties, QemuBtAssumption DEF Queues
<1>6. q = [m_pendingEvents EXCEPT ![p] = Append(m_pendingEvents[p], event)]
  BY <1>5 DEF queueReliable, queueFrame
<1>7. Queues(q)
  BY <1>1, <1>2, <1>3, Queued
<1>8. m_pendingEvents' = queueReliable(q, c, Event("completed", frame.handle, 1))
  BY DEF Route
<1>9. Event("completed", frame.handle, 1) \in Notice /\ Event("completed", frame.handle, 1).type # "acl"
  BY Constants DEF Event, Notice, Packet, Handles
<1>10. \A d \in Controllers : AsMany(q[d], m_pendingEvents'[d], "acl")
  BY <1>7, <1>8, <1>9, QueuedAsMany
<1> HIDE DEF p, h, event, q
<1>11. \A d \in Controllers \ {p} : q[d] = m_pendingEvents[d]
  BY <1>1, <1>2, <1>6 DEF Queues
<1>12. ASSUME NEW x \in Handles
       PROVE  /\ Count(q[p], "acl", x) = Count(m_pendingEvents[p], "acl", x) + IF x = h THEN 1 ELSE 0
              /\ Count(m_pendingEvents[p], "acl", x) \in Nat
  <2>1. m_pendingEvents[p] \in Seq(Notice) /\ q[p] = Append(m_pendingEvents[p], event)
    BY <1>1, <1>2, <1>6 DEF Queues
  <2>2. /\ Count(Append(m_pendingEvents[p], event), "acl", x)
              = Count(m_pendingEvents[p], "acl", x) + IF Hit(event, "acl", x) THEN 1 ELSE 0
        /\ Count(m_pendingEvents[p], "acl", x) \in Nat
    BY <1>3, <2>1, CountAppend
  <2>3. Hit(event, "acl", x) <=> x = h
    BY <1>3 DEF Hit
  <2> QED BY <2>1, <2>2, <2>3
<1> SUFFICES ASSUME NEW d \in Controllers, controllerToHostFlow'[d]
             PROVE  Accounted(hostAclPackets'[d], hostAclCredits'[d], m_hostAclOutstanding'[d],
                              m_pendingEvents'[d], rx'[d], tx'[d], host'[d].held)
  BY DEF Account
<1>13. /\ controllerToHostFlow[d] /\ hostAclPackets'[d] = hostAclPackets[d]
       /\ rx'[d] = rx[d] /\ tx'[d] = tx[d] /\ host'[d].held = host[d].held
  BY DEF flow
<1>14. Accounted(hostAclPackets[d], hostAclCredits[d], m_hostAclOutstanding[d], m_pendingEvents[d],
                 rx[d], tx[d], host[d].held)
  BY <1>13 DEF AInv, Account
<1>15. CASE d # p
  <2>1. hostAclCredits'[d] = hostAclCredits[d] /\ m_hostAclOutstanding'[d] = m_hostAclOutstanding[d]
    BY <1>1, <1>15 DEF Route, CreditsTyped, credits, p
  <2>2. AsMany(m_pendingEvents[d], m_pendingEvents'[d], "acl")
    BY <1>10, <1>11, <1>15
  <2> QED BY <1>13, <1>14, <2>1, <2>2 DEF Accounted, AsMany, OnTheWay
<1>16. CASE d = p
  <2>1. PICK f : f = m_hostAclOutstanding[p]
    OBVIOUS
  <2>2. PICK g : g = [f EXCEPT ![h] = f[h] + 1]
    OBVIOUS
  <2>3. f \in [Handles -> Nat]
    BY <1>1, <1>2, <2>1 DEF CreditsTyped
  <2>4. hostAclCredits'[p] = hostAclCredits[p] - 1 /\ m_hostAclOutstanding'[p] = g
    <3>1. controllerToHostFlow[p]
      BY <1>13, <1>16
    <3>2. /\ hostAclCredits' = [hostAclCredits EXCEPT ![p] = @ - 1]
          /\ m_hostAclOutstanding' = [m_hostAclOutstanding EXCEPT ![p][h] = @ + 1]
      BY <1>2, <3>1 DEF Route, p
    <3> QED BY <1>1, <1>2, <2>1, <2>2, <2>3, <3>2 DEF CreditsTyped
  <2>5. IsFiniteSet(Handles)
    BY Constants, FS_Interval DEF Handles
  <2>6. SumFunction(f) \in Nat /\ SumFunction(g) = SumFunction(f) + ((f[h] + 1) - f[h])
    <3>1. f[h] + 1 \in Nat
      BY <1>2, <2>3
    <3> QED BY <1>2, <2>2, <2>3, <2>5, <3>1, SumChanged
  <2>7. hostAclCredits[p] \in Nat /\ f[h] \in Nat
    BY <1>1, <1>2, <2>3 DEF CreditsTyped
  <2>8. (hostAclCredits[p] - 1) + SumFunction(g) = hostAclCredits[p] + SumFunction(f)
    BY <2>6, <2>7
  <2>9. ASSUME NEW x \in Handles
        PROVE  g[x] = OnTheWay(m_pendingEvents'[p], rx[p], tx[p], host[p].held, x)
    <3>1. f[x] = OnTheWay(m_pendingEvents[p], rx[p], tx[p], host[p].held, x) /\ f[x] \in Nat
      BY <1>14, <1>16, <2>1, <2>3 DEF Accounted
    <3>2. /\ Count(m_pendingEvents'[p], "acl", x)
                = Count(m_pendingEvents[p], "acl", x) + (IF x = h THEN 1 ELSE 0)
          /\ Count(m_pendingEvents[p], "acl", x) \in Nat
      BY <1>2, <1>10, <1>12 DEF AsMany
    <3>3. /\ Count(rx[p], "acl", x) \in Nat /\ host[p].held[x] \in Nat /\ Count(tx[p], "returned", x) \in Nat
      <4>1. /\ rx[p] \in Seq(Notice \union Answer)
            /\ tx[p] \in Seq(Command \union Packet \union Returned)
            /\ host[p].held \in [Handles -> Nat]
        BY <1>2 DEF IInv, DataTyped, RxTyped, TxTyped, HostTyped, Host
      <4> QED BY <4>1, CountConcat
    <3>4. g[x] = f[x] + (IF x = h THEN 1 ELSE 0)
      BY <2>2, <2>3
    <3> QED BY <3>1, <3>2, <3>3, <3>4 DEF OnTheWay
  <2> QED BY <1>13, <1>14, <1>16, <2>1, <2>4, <2>8, <2>9 DEF Accounted
<1> QED BY <1>15, <1>16

\* What a queue's count is among.
LEMMA Counts ==
    ASSUME IInv, NEW c \in Controllers, NEW h \in Handles
    PROVE  /\ rx[c] \in Seq(Notice \union Answer)
           /\ tx[c] \in Seq(Command \union Packet \union Returned)
           /\ m_pendingEvents[c] \in Seq(Notice)
           /\ Count(rx[c], "acl", h) \in Nat /\ Count(m_pendingEvents[c], "acl", h) \in Nat
           /\ host[c].held[h] \in Nat /\ Count(tx[c], "returned", h) \in Nat
           /\ host[c].held \in [Handles -> Nat]
<1>1. /\ rx[c] \in Seq(Notice \union Answer)
      /\ tx[c] \in Seq(Command \union Packet \union Returned)
      /\ m_pendingEvents[c] \in Seq(Notice)
      /\ host[c].held \in [Handles -> Nat]
  BY DEF IInv, DataTyped, RxTyped, TxTyped, EventsTyped, Queues, HostTyped, Host
<1> QED BY <1>1, CountConcat

\* The rings and the responses that Modest is about.
LEMMA AskedTyped ==
    ASSUME IInv
    PROVE  /\ tx \in [Controllers -> Seq(Command \union Packet \union Returned)]
           /\ m_pendingCommandResponse \in [Controllers -> Seq(Response)]
           /\ rx \in [Controllers -> Seq(Notice \union Answer)]
  BY DEF IInv, DataTyped, TxTyped, ResponseTyped, RxTyped

\* A waiting packet goes, or nothing to count happens.
LEMMA PumpTxAccount ==
    ASSUME IInv, AInv, PumpTx
    PROVE  AInv'
<1>1. UNCHANGED <<flow, m_pendingCommandResponse, tx, rx, host>>
  BY DEF PumpTx
<1>2. Modest(tx', m_pendingCommandResponse') /\ Unreset(controllerToHostFlow', rx')
  BY <1>1 DEF AInv, flow
<1>3. CASE UNCHANGED <<m_pendingEvents, credits>>
  BY <1>1, <1>3, Undisturbed
<1>4. CASE /\ stack # <<>> /\ m_pendingAcl[Top.of] # <<>>
           /\ Live(Top.of, m_pendingAcl[Top.of][1]) /\ ~ Blocked(Top.of)
           /\ Route(Top.of, m_pendingAcl[Top.of][1])
  <2>1. Top.of \in Controllers
    BY <1>4, TopFacts
  <2>2. m_pendingAcl[Top.of] \in Seq(Packet)
    BY <2>1 DEF IInv, DataTyped, AclTyped
  <2>3. m_pendingAcl[Top.of][1] \in Packet
    BY <1>4, <2>2, TailFacts
  <2>4. Account'
    BY <1>1, <1>4, <2>1, <2>3, RouteAccount
  <2> QED BY <1>2, <2>4 DEF AInv
<1> QED BY <1>3, <1>4 DEF PumpTx, In

\* The same for a packet in the ring.
LEMMA PumpAclAccount ==
    ASSUME IInv, AInv, PumpAcl
    PROVE  AInv'
<1>1. UNCHANGED <<flow, m_pendingCommandResponse, tx, rx, host>>
  BY DEF PumpAcl
<1>2. Modest(tx', m_pendingCommandResponse') /\ Unreset(controllerToHostFlow', rx')
  BY <1>1 DEF AInv, flow
<1>3. CASE UNCHANGED <<m_pendingEvents, credits>>
  BY <1>1, <1>3, Undisturbed
<1>4. CASE Live(Top.of, Head(tx[Top.of])) /\ ~ Blocked(Top.of) /\ Route(Top.of, Head(tx[Top.of]))
  <2>1. stack # <<>> /\ tx[Top.of] # <<>> /\ Head(tx[Top.of]).type = "acl"
    BY DEF PumpAcl, AtLoop, In
  <2>2. Top.of \in Controllers /\ Head(tx[Top.of]) \in Packet
    BY <2>1, TopFacts, FrameKinds
  <2>3. Account'
    BY <1>1, <1>4, <2>2, RouteAccount
  <2> QED BY <1>2, <2>3 DEF AInv
<1> QED BY <1>3, <1>4 DEF PumpAcl

\* A frame that is not a returned packet is taken, with or without the response to it.
LEMMA TakenModest ==
    ASSUME IInv, AInv, NEW c \in Controllers, tx[c] # <<>>, Head(tx[c]).type # "returned",
           tx' = [tx EXCEPT ![c] = Tail(@)],
           NEW p, \A d \in Controllers : p[d] = m_pendingCommandResponse[d] \/ p[d] = <<>>
    PROVE  /\ Modest(tx', p)
           /\ \A d \in Controllers : AsMany(tx[d], tx'[d], "returned")
<1>1. tx \in [Controllers -> Seq(Command \union Packet \union Returned)]
  BY AskedTyped
<1>2. \A d \in Controllers : tx'[d] = IF d = c THEN Tail(tx[d]) ELSE tx[d]
  BY <1>1
<1>3. Modest(tx', p)
  <2> SUFFICES ASSUME NEW d \in Controllers PROVE Asked(d, tx'[d], p[d])
    BY DEF Modest
  <2>1. Asked(d, tx[d], m_pendingCommandResponse[d])
    BY DEF AInv, Modest
  <2>2. tx[d] \in Seq(Command \union Packet \union Returned)
    BY <1>1
  <2>3. tx'[d] = tx[d] \/ (tx[d] # <<>> /\ tx'[d] = Tail(tx[d]))
    BY <1>2
  <2> QED BY <2>1, <2>2, <2>3, AskedLess
<1>4. AsMany(tx[c], Tail(tx[c]), "returned")
  BY <1>1, TakenAsMany
<1> QED BY <1>2, <1>3, <1>4, SameAsMany

\* A packet is taken from the ring.
LEMMA PumpReadAccount ==
    ASSUME IInv, AInv, PumpRead
    PROVE  AInv'
<1>1. stack # <<>> /\ Top.at = "read"
  BY DEF PumpRead, In
<1>2. Top.of \in Controllers /\ First(tx[Top.of], "acl")
  BY <1>1, TopFacts DEF Sure
<1>3. UNCHANGED <<flow, credits, m_pendingCommandResponse, m_pendingEvents, rx, host>>
  BY DEF PumpRead
<1>4. Modest(tx', m_pendingCommandResponse') /\ \A d \in Controllers : AsMany(tx[d], tx'[d], "returned")
  BY <1>2, <1>3, TakenModest DEF PumpRead, First
<1>5. Account'
  BY <1>3, <1>4, SameAsMany, Steady DEF AInv, flow, credits
<1> QED BY <1>3, <1>4, <1>5 DEF AInv, flow

\* What the host gives back was out, so it is always taken, and a credit for it.
LEMMA HostCompletedPacketsAccount ==
    ASSUME IInv, AInv, HostCompletedPackets
    PROVE  AInv'
<1> DEFINE c == Top.of
           frame == Head(tx[c])
           h == frame.handle
<1>1. /\ stack # <<>> /\ tx[c] # <<>> /\ frame.type = "returned" /\ tx' = [tx EXCEPT ![c] = Tail(@)]
      /\ UNCHANGED <<flow, m_pendingCommandResponse, m_pendingEvents, rx, host>>
  BY DEF HostCompletedPackets, AtLoop, In
<1>2. c \in Controllers /\ frame \in Returned
  BY <1>1, TopFacts, FrameKinds
<1>3. tx \in [Controllers -> Seq(Command \union Packet \union Returned)]
  BY AskedTyped
<1>4. \A d \in Controllers : tx'[d] = IF d = c THEN Tail(tx[d]) ELSE tx[d]
  BY <1>1, <1>3
<1>5. Modest(tx', m_pendingCommandResponse') /\ Unreset(controllerToHostFlow', rx')
  <2>1. ASSUME NEW d \in Controllers PROVE Asked(d, tx'[d], m_pendingCommandResponse'[d])
    <3>1. Asked(d, tx[d], m_pendingCommandResponse[d])
      BY DEF AInv, Modest
    <3>2. tx[d] \in Seq(Command \union Packet \union Returned)
      BY <1>3
    <3>3. tx'[d] = tx[d] \/ (tx[d] # <<>> /\ tx'[d] = Tail(tx[d]))
      BY <1>1, <1>4
    <3> QED BY <1>1, <3>1, <3>2, <3>3, AskedLess
  <2> QED BY <1>1, <2>1 DEF AInv, Modest, flow
<1>6. h \in Handles /\ frame.n = 1
  <2>1. 1 \in DOMAIN tx[c] /\ frame = tx[c][1]
    BY <1>1, <1>2, <1>3, TailFacts
  <2> QED BY <1>1, <1>2, <2>1 DEF AInv, Modest, Asked, Returned
<1>7. CreditsTyped /\ FlowTyped
  BY DEF IInv, DataTyped
<1> DEFINE ok == /\ frame.n <= m_hostAclOutstanding[c][h]
                 /\ frame.n <= hostAclPackets[c] - hostAclCredits[c]
<1>8. IF ok
      THEN /\ hostAclCredits' = [hostAclCredits EXCEPT ![c] = @ + frame.n]
           /\ m_hostAclOutstanding' = [m_hostAclOutstanding EXCEPT ![c][h] = @ - frame.n]
      ELSE UNCHANGED credits
  BY DEF HostCompletedPackets
<1> HIDE DEF c, frame, h
<1> SUFFICES ASSUME NEW d \in Controllers, controllerToHostFlow'[d]
             PROVE  Accounted(hostAclPackets'[d], hostAclCredits'[d], m_hostAclOutstanding'[d],
                              m_pendingEvents'[d], rx'[d], tx'[d], host'[d].held)
  BY <1>5 DEF AInv, Account
<1>9. /\ controllerToHostFlow[d] /\ hostAclPackets'[d] = hostAclPackets[d]
      /\ m_pendingEvents'[d] = m_pendingEvents[d] /\ rx'[d] = rx[d] /\ host'[d].held = host[d].held
  BY <1>1 DEF flow
<1>10. Accounted(hostAclPackets[d], hostAclCredits[d], m_hostAclOutstanding[d], m_pendingEvents[d],
                 rx[d], tx[d], host[d].held)
  BY <1>9 DEF AInv, Account
<1>11. CASE d # c
  <2>1. hostAclCredits'[d] = hostAclCredits[d] /\ m_hostAclOutstanding'[d] = m_hostAclOutstanding[d]
    BY <1>7, <1>8, <1>11 DEF CreditsTyped, credits
  <2> QED BY <1>4, <1>9, <1>10, <1>11, <2>1
<1>12. CASE d = c
  <2>1. PICK f : f = m_hostAclOutstanding[c]
    OBVIOUS
  <2>2. PICK g : g = [f EXCEPT ![h] = f[h] - 1]
    OBVIOUS
  <2>3. f \in [Handles -> Nat]
    BY <1>2, <1>7, <2>1 DEF CreditsTyped
  <2>4. IsFiniteSet(Handles)
    BY Constants, FS_Interval DEF Handles
  <2>5. ASSUME NEW x \in Handles
        PROVE  /\ Count(tx[c], "returned", x) = Count(tx'[c], "returned", x) + (IF x = h THEN 1 ELSE 0)
               /\ Count(tx'[c], "returned", x) \in Nat
    <3>1. tx[c] \in Seq(Command \union Packet \union Returned) /\ tx'[c] = Tail(tx[c])
      BY <1>2, <1>3, <1>4
    <3>2. /\ Count(tx[c], "returned", x)
                = Count(Tail(tx[c]), "returned", x) + IF Hit(Head(tx[c]), "returned", x) THEN 1 ELSE 0
          /\ Count(Tail(tx[c]), "returned", x) \in Nat
      BY <1>1, <3>1, CountTail
    <3>3. Hit(Head(tx[c]), "returned", x) <=> x = h
      BY <1>1 DEF Hit, frame, h
    <3> QED BY <3>1, <3>2, <3>3
  <2>6. ASSUME NEW x \in Handles
        PROVE  /\ f[x] = OnTheWay(m_pendingEvents[c], rx[c], tx[c], host[c].held, x) /\ f[x] \in Nat
               /\ OnTheWay(m_pendingEvents[c], rx[c], tx[c], host[c].held, x)
                    = OnTheWay(m_pendingEvents[c], rx[c], tx'[c], host[c].held, x) + (IF x = h THEN 1 ELSE 0)
               /\ OnTheWay(m_pendingEvents[c], rx[c], tx'[c], host[c].held, x) \in Nat
    <3>1. f[x] = OnTheWay(m_pendingEvents[c], rx[c], tx[c], host[c].held, x) /\ f[x] \in Nat
      BY <1>10, <1>12, <2>1, <2>3 DEF Accounted
    <3>2. /\ Count(rx[c], "acl", x) \in Nat /\ Count(m_pendingEvents[c], "acl", x) \in Nat
          /\ host[c].held[x] \in Nat
      BY <1>2, Counts
    <3> QED BY <2>5, <3>1, <3>2 DEF OnTheWay
  <2>7. f[h] \in Nat /\ f[h] >= 1 /\ f[h] - 1 \in Nat
    BY <1>6, <2>6
  <2>8. /\ SumFunction(f) \in Nat /\ f[h] <= SumFunction(f)
        /\ SumFunction(g) = SumFunction(f) + ((f[h] - 1) - f[h])
    BY <1>6, <2>2, <2>3, <2>4, <2>7, SumChanged
  <2>9. /\ hostAclCredits[c] \in Nat /\ hostAclPackets[c] \in Nat
        /\ hostAclCredits[c] + SumFunction(f) = hostAclPackets[c]
    BY <1>2, <1>7, <1>10, <1>12, <2>1, Constants DEF CreditsTyped, FlowTyped, Accounted
  <2>10. ok
    BY <1>6, <2>1, <2>7, <2>8, <2>9
  <2>11. hostAclCredits'[c] = hostAclCredits[c] + 1 /\ m_hostAclOutstanding'[c] = g
    BY <1>2, <1>6, <1>7, <1>8, <2>1, <2>2, <2>3, <2>10 DEF CreditsTyped
  <2>12. (hostAclCredits[c] + 1) + SumFunction(g) = hostAclPackets[c]
    BY <2>7, <2>8, <2>9
  <2>13. ASSUME NEW x \in Handles
         PROVE  g[x] = OnTheWay(m_pendingEvents[c], rx[c], tx'[c], host[c].held, x)
    <3>1. g[x] = f[x] - (IF x = h THEN 1 ELSE 0)
      BY <2>2, <2>3
    <3> QED BY <2>6, <3>1
  <2> QED BY <1>9, <1>12, <2>11, <2>12, <2>13 DEF Accounted
<1> QED BY <1>11, <1>12

\* A response is made of a command that was modest.
LEMMA DispatchCommandAccount ==
    ASSUME IInv, AInv, DispatchCommand
    PROVE  AInv'
<1> DEFINE c == Top.of
           command == Head(tx[c])
           response == [op |-> command.op, arg |-> command.arg, ok |-> Accepted(c, command)]
<1>1. /\ stack # <<>> /\ tx[c] # <<>> /\ command.type = "command"
      /\ UNCHANGED <<flow, credits, m_pendingEvents, tx, rx, host>>
      /\ m_pendingCommandResponse' = [m_pendingCommandResponse EXCEPT ![c] = <<response>>]
  BY DEF DispatchCommand, AtLoop, In
<1>2. c \in Controllers /\ tx[c] \in Seq(Command \union Packet \union Returned)
  BY <1>1, TopFacts, AskedTyped
<1>3. Wanted(c, command.op)
  <2>1. 1 \in DOMAIN tx[c] /\ command = tx[c][1]
    BY <1>1, <1>2, TailFacts
  <2> QED BY <1>1, <1>2, <2>1 DEF AInv, Modest, Asked
<1>4. response.op = command.op
  OBVIOUS
<1> HIDE DEF response
<1>5. \A d \in Controllers :
          m_pendingCommandResponse'[d] = IF d = c THEN <<response>> ELSE m_pendingCommandResponse[d]
  BY <1>1, <1>2, AskedTyped
<1>6. DOMAIN <<response>> = {1} /\ <<response>>[1] = response
  OBVIOUS
<1>7. Modest(tx, m_pendingCommandResponse')
  BY <1>3, <1>4, <1>5, <1>6 DEF AInv, Modest, Asked
<1>8. \A d \in Controllers : AsMany(m_pendingEvents[d], m_pendingEvents'[d], "acl")
  BY <1>1, SameAsMany
<1>9. Account' /\ Unreset(controllerToHostFlow', rx')
  BY <1>1, <1>8, SteadyEvents
<1> QED BY <1>1, <1>7, <1>9 DEF AInv

\* A response is no longer pending.
LEMMA AnsweredModest ==
    ASSUME IInv, AInv, NEW c \in Controllers,
           m_pendingCommandResponse' = [m_pendingCommandResponse EXCEPT ![c] = <<>>],
           \A d \in Controllers : tx'[d] = tx[d] \/ tx'[d] = <<>>
    PROVE  Modest(tx', m_pendingCommandResponse')
<1> SUFFICES ASSUME NEW d \in Controllers PROVE Asked(d, tx'[d], m_pendingCommandResponse'[d])
  BY DEF Modest
<1>1. Asked(d, tx[d], m_pendingCommandResponse[d])
  BY DEF AInv, Modest
<1>2. tx[d] \in Seq(Command \union Packet \union Returned)
  BY AskedTyped
<1>3. m_pendingCommandResponse'[d] = m_pendingCommandResponse[d] \/ m_pendingCommandResponse'[d] = <<>>
  BY AskedTyped
<1> QED BY <1>1, <1>2, <1>3, AskedLess

\* A command is committed that has nothing to do with flow control.
LEMMA CommittedAccount ==
    ASSUME IInv, AInv, NEW c, NEW ops, "Reset" \notin ops, Responds(c, ops, TRUE), Answered(c),
           UNCHANGED <<flow, credits, tx>>,
           \A d \in Controllers : AsMany(m_pendingEvents[d], m_pendingEvents'[d], "acl")
    PROVE  AInv'
<1>1. c \in Controllers /\ UNCHANGED host
  BY Responded DEF Responds
<1>2. (\A d \in Controllers : AsMany(rx[d], rx'[d], "acl")) /\ Unreset(controllerToHostFlow, rx')
  BY RespondedAsMany DEF AInv
<1>3. Modest(tx', m_pendingCommandResponse')
  BY <1>1, AnsweredModest DEF Answered
<1>4. \A d \in Controllers : AsMany(tx[d], tx'[d], "returned")
  BY SameAsMany
<1>5. Account'
  BY <1>1, <1>2, <1>4, Steady DEF AInv, flow, credits
<1> QED BY <1>2, <1>3, <1>5 DEF AInv, flow

\* A refused command is answered and taken from the ring.
LEMMA RefuseAccount ==
    ASSUME IInv, AInv, NEW c, Refuse(c)
    PROVE  AInv'
<1>1. c \in Controllers /\ First(tx[c], "command")
  BY Responded DEF Refuse
<1>2. UNCHANGED <<flow, credits, m_pendingEvents, host>>
  BY DEF Refuse, Responds
<1>3. (\A d \in Controllers : AsMany(rx[d], rx'[d], "acl")) /\ Unreset(controllerToHostFlow, rx')
  BY RespondedAsMany DEF AInv, Refuse
<1>4. \A d \in Controllers :
          m_pendingCommandResponse'[d] = m_pendingCommandResponse[d] \/ m_pendingCommandResponse'[d] = <<>>
  BY <1>1, AskedTyped DEF Refuse, Answered
<1>5. Modest(tx', m_pendingCommandResponse') /\ \A d \in Controllers : AsMany(tx[d], tx'[d], "returned")
  BY <1>1, <1>4, TakenModest DEF Refuse, First
<1>6. Account'
  BY <1>2, <1>3, <1>5, SameAsMany, Steady DEF AInv, flow, credits
<1> QED BY <1>2, <1>3, <1>5, <1>6 DEF AInv, flow

\* An account that is opened, or goes on.
LEMMA Opened ==
    ASSUME NEW packets, NEW e, NEW r, NEW t, NEW held, packets \in Nat,
           \A h \in Handles : OnTheWay(e, r, t, held, h) = 0
    PROVE  Accounted(packets, packets, NothingOutstanding, e, r, t, held)
<1>1. SumFunction(NothingOutstanding) = 0
  <2>1. IsFiniteSet(Handles)
    BY Constants, FS_Interval DEF Handles
  <2> QED BY <2>1, SumOfZeroes DEF NothingOutstanding
<1> QED BY <1>1 DEF Accounted, NothingOutstanding

\* Flow control is set up: in time, so that there is nothing to account for yet.
LEMMA CommitStateAccount ==
    ASSUME IInv, AInv, NEW c, CommitState(c), Timely
    PROVE  AInv'
<1> DEFINE op == m_pendingCommandResponse[c][1].op
           arg == m_pendingCommandResponse[c][1].arg
           ops == {"FlowOn", "FlowOff", "HostBufferSize", "AdvertiseOn", "AdvertiseOff", "ScanOn", "ScanOff"}
<1>1. /\ c \in Controllers /\ m_pendingCommandResponse[c] # <<>> /\ Responds(c, ops, TRUE)
      /\ "Reset" \notin ops
  BY Responded DEF CommitState
<1>2. UNCHANGED <<m_hostAclOutstanding, m_pendingEvents, tx, host>>
  BY DEF CommitState, Responds
<1>3. FlowTyped /\ CreditsTyped
  BY DEF IInv, DataTyped
<1>4. /\ op = "HostBufferSize" /\ controllerToHostFlow[c] => m_hostAclOutstanding[c] = NothingOutstanding
      /\ op = "FlowOn" /\ ~ controllerToHostFlow[c] => NoneUnderWay(c)
  BY <1>1 DEF Timely
<1>5. /\ \A d \in Controllers \ {c} : /\ controllerToHostFlow'[d] = controllerToHostFlow[d]
                                     /\ hostAclPackets'[d] = hostAclPackets[d]
                                     /\ hostAclCredits'[d] = hostAclCredits[d]
      /\ controllerToHostFlow'[c] => controllerToHostFlow[c] \/ op = "FlowOn"
      /\ op # "HostBufferSize" => hostAclPackets' = hostAclPackets /\ hostAclCredits' = hostAclCredits
      /\ op = "HostBufferSize" => hostAclPackets'[c] = arg /\ hostAclCredits'[c] = arg
  <2>1. controllerToHostFlow' = [controllerToHostFlow EXCEPT ![c] = Switch(op, "FlowOn", "FlowOff", @)]
    BY DEF CommitState
  <2>2. /\ controllerToHostFlow'[c] => controllerToHostFlow[c] \/ op = "FlowOn"
        /\ \A d \in Controllers \ {c} : controllerToHostFlow'[d] = controllerToHostFlow[d]
    BY <1>1, <1>3, <2>1 DEF Switch, FlowTyped
  <2>3. CASE op # "HostBufferSize"
    BY <2>2, <2>3 DEF CommitState
  <2>4. CASE op = "HostBufferSize"
    <3>1. /\ hostAclPackets' = [hostAclPackets EXCEPT ![c] = arg]
          /\ hostAclCredits' = [hostAclCredits EXCEPT ![c] = arg]
      BY <2>4 DEF CommitState
    <3> QED BY <1>1, <1>3, <2>2, <2>4, <3>1 DEF FlowTyped, CreditsTyped
  <2> QED BY <2>3, <2>4
<1>6. op = "HostBufferSize" => arg \in Nat
  <2>1. m_pendingCommandResponse[c] \in Seq(Response)
    BY <1>1, AskedTyped
  <2>2. m_pendingCommandResponse[c][1] \in Response
    BY <1>1, <2>1, TailFacts
  <2> QED BY <2>2, Constants DEF Response, Fits
<1>7. Unreset(controllerToHostFlow', rx)
  <2>1. ASSUME NEW d \in Controllers, controllerToHostFlow'[d]
        PROVE  d \in Flow /\ \A i \in DOMAIN rx[d] : ~ ResetDone(rx[d][i])
    <3>1. CASE controllerToHostFlow[d]
      BY <3>1 DEF AInv, Unreset
    <3>2. CASE ~ controllerToHostFlow[d]
      <4>1. d = c /\ op = "FlowOn"
        BY <1>5, <2>1, <3>2
      <4>2. NoneUnderWay(d)
        BY <1>4, <3>2, <4>1
      <4> QED BY <4>2 DEF NoneUnderWay
    <3> QED BY <3>1, <3>2
  <2> QED BY <2>1 DEF Unreset
<1>8. (\A d \in Controllers : AsMany(rx[d], rx'[d], "acl")) /\ Unreset(controllerToHostFlow', rx')
  <2>1. PICK limited : limited = controllerToHostFlow'
    OBVIOUS
  <2>2. Unreset(limited, rx)
    BY <1>7, <2>1
  <2> HIDE DEF ops
  <2>3. (\A d \in Controllers : AsMany(rx[d], rx'[d], "acl")) /\ Unreset(limited, rx')
    BY <1>1, <2>2, RespondedAsMany
  <2> QED BY <2>1, <2>3
<1>9. Modest(tx', m_pendingCommandResponse')
  BY <1>1, <1>2, AnsweredModest DEF CommitState, Answered
<1> HIDE DEF op, arg, ops
<1>10. ASSUME NEW d \in Controllers, controllerToHostFlow'[d]
       PROVE  Accounted(hostAclPackets'[d], hostAclCredits'[d], m_hostAclOutstanding'[d], m_pendingEvents'[d],
                        rx'[d], tx'[d], host'[d].held)
  <2>1. \A h \in Handles : OnTheWay(m_pendingEvents'[d], rx'[d], tx'[d], host'[d].held, h)
                              = OnTheWay(m_pendingEvents[d], rx[d], tx[d], host[d].held, h)
    BY <1>2, <1>8 DEF OnTheWay, AsMany
  <2>2. controllerToHostFlow[d] =>
            Accounted(hostAclPackets[d], hostAclCredits[d], m_hostAclOutstanding[d], m_pendingEvents[d],
                      rx[d], tx[d], host[d].held)
    BY DEF AInv, Account
  <2>3. CASE controllerToHostFlow[d] /\ (d # c \/ op # "HostBufferSize")
    <3>1. hostAclPackets'[d] = hostAclPackets[d] /\ hostAclCredits'[d] = hostAclCredits[d]
      BY <1>5, <2>3
    <3> QED BY <1>2, <2>1, <2>2, <2>3, <3>1 DEF Accounted
  <2>4. CASE controllerToHostFlow[d] /\ d = c /\ op = "HostBufferSize"
    <3>1. /\ m_hostAclOutstanding'[d] = NothingOutstanding
          /\ hostAclPackets'[d] = arg /\ hostAclCredits'[d] = arg /\ arg \in Nat
      BY <1>2, <1>4, <1>5, <1>6, <2>4
    <3>2. \A h \in Handles : OnTheWay(m_pendingEvents'[d], rx'[d], tx'[d], host'[d].held, h) = 0
      BY <1>2, <2>1, <2>2, <2>4, <3>1 DEF Accounted, NothingOutstanding
    <3> QED BY <3>1, <3>2, Opened
  <2>5. CASE ~ controllerToHostFlow[d]
    <3>1. d = c /\ op = "FlowOn" /\ NoneUnderWay(d)
      BY <1>4, <1>5, <1>10, <2>5
    <3>2. /\ hostAclPackets'[d] = hostAclPackets[d] /\ hostAclCredits'[d] = hostAclPackets[d]
          /\ m_hostAclOutstanding'[d] = NothingOutstanding /\ hostAclPackets[d] \in Nat
      BY <1>2, <1>3, <1>5, <3>1, Constants DEF NoneUnderWay, FlowTyped
    <3>3. \A h \in Handles : OnTheWay(m_pendingEvents'[d], rx'[d], tx'[d], host'[d].held, h) = 0
      BY <2>1, <3>1 DEF NoneUnderWay
    <3> QED BY <3>2, <3>3, Opened
  <2> QED BY <2>3, <2>4, <2>5
<1> QED BY <1>8, <1>9, <1>10 DEF AInv, Account


\* Who leaves the medium is under flow control no more; its peer's packets stay as they are.
LEMMA DetachAccount ==
    ASSUME IInv, AInv, NEW c \in airControllers, NEW rest, Detach(c, rest),
           \A d \in Controllers \ {c} :
               /\ AsMany(rx[d], rx'[d], "acl") /\ tx'[d] = tx[d] /\ host'[d].held = host[d].held
    PROVE  /\ Account'
           /\ ~ controllerToHostFlow'[c]
           /\ \A d \in Controllers : controllerToHostFlow'[d] => controllerToHostFlow[d]
<1> DEFINE p == m_connection[c].peer
           cleared == [m_pendingEvents EXCEPT ![c] = <<>>]
<1>1. /\ MediumTyped /\ LinksTyped /\ Mutual /\ Queues(m_pendingEvents) /\ FlowTyped /\ CreditsTyped
  BY DEF IInv, DataTyped, EventsTyped
<1>2. c \in Controllers
  BY <1>1 DEF MediumTyped
<1>3. /\ ~ controllerToHostFlow'[c]
      /\ \A d \in Controllers : controllerToHostFlow'[d] => controllerToHostFlow[d]
  BY <1>1, <1>2 DEF Detach, FlowTyped
<1>4. \A d \in Controllers \ {c} :
          /\ hostAclPackets'[d] = hostAclPackets[d] /\ hostAclCredits'[d] = hostAclCredits[d]
          /\ m_hostAclOutstanding'[d] = m_hostAclOutstanding[d]
  BY <1>1, <1>2 DEF Detach, FlowTyped, CreditsTyped
<1>5. Queues(cleared)
  <2>1. <<>> \in Seq(Notice) /\ Len(<<>>) <= PENDING_EVENT_MAX
    BY EmptySeq, Constants
  <2> QED BY <1>1, <1>2, <2>1, Requeued
<1>6. \A d \in Controllers \ {c} : cleared[d] = m_pendingEvents[d]
  BY <1>1 DEF Queues
<1>7. \A d \in Controllers : AsMany(cleared[d], m_pendingEvents'[d], "acl")
  <2>1. CASE Connected(c)
    <3>1. m_connection[p].localHandle \in Handles
      BY <1>1, <1>2, <2>1, OtherEnd
    <3>2. Disconnected(p) \in Notice /\ Disconnected(p).type # "acl"
      BY <3>1, Constants DEF Disconnected, Event, Notice, Handles
    <3>3. m_pendingEvents' = queueReliable(cleared, p, Disconnected(p))
      BY <2>1 DEF Detach
    <3> HIDE DEF cleared
    <3> QED BY <1>5, <3>2, <3>3, QueuedAsMany
  <2>2. CASE ~ Connected(c)
    <3>1. m_pendingEvents' = cleared
      BY <2>2 DEF Detach
    <3> HIDE DEF cleared
    <3> QED BY <3>1, SameAsMany
  <2> QED BY <2>1, <2>2
<1> HIDE DEF cleared
<1>8. \A d \in Controllers \ {c} : AsMany(m_pendingEvents[d], m_pendingEvents'[d], "acl")
  BY <1>6, <1>7
<1>9. Account'
  BY <1>3, <1>4, <1>8, SameAsMany, Steady DEF AInv
<1> QED BY <1>3, <1>9

\* Reset gives up flow control before its response is there to be read.
LEMMA CommitResetAccount ==
    ASSUME IInv, AInv, NEW c, CommitReset(c)
    PROVE  AInv'
<1>1. c \in Controllers /\ c \in airControllers /\ UNCHANGED <<tx, host>> /\ Responds(c, {"Reset"}, TRUE)
  BY Responded DEF CommitReset, Responds
<1>2. PICK rest : Detach(c, rest)
  BY DEF CommitReset
<1>3. m_pendingCommandResponse' = [m_pendingCommandResponse EXCEPT ![c] = <<>>]
  BY <1>2 DEF Detach
<1>4. ~ controllerToHostFlow'[c]
      /\ \A d \in Controllers : controllerToHostFlow'[d] => controllerToHostFlow[d]
  <2>1. controllerToHostFlow' = [controllerToHostFlow EXCEPT ![c] = FALSE]
    BY <1>2 DEF Detach
  <2>2. controllerToHostFlow \in [Controllers -> BOOLEAN]
    BY DEF IInv, DataTyped, FlowTyped
  <2> QED BY <1>1, <2>1, <2>2
<1>5. Unreset(controllerToHostFlow', rx)
  BY <1>4 DEF AInv, Unreset
<1>6. (\A d \in Controllers : AsMany(rx[d], rx'[d], "acl")) /\ Unreset(controllerToHostFlow', rx')
  BY <1>1, <1>4, <1>5, RespondedAsMany
<1>7. Account'
  BY <1>1, <1>2, <1>6, DetachAccount
<1>8. Modest(tx', m_pendingCommandResponse')
  BY <1>1, <1>3, AnsweredModest
<1> QED BY <1>6, <1>7, <1>8 DEF AInv

\* A connection is news, and no packet.
LEMMA CompletedAsMany ==
    ASSUME IInv, NEW c \in airControllers, NEW p \in airAdvertisements \ {c}, ~ Connected(c),
           NEW x, completeConnection(c, p, x), NEW d \in Controllers
    PROVE  AsMany(m_pendingEvents[d], m_pendingEvents'[d], "acl")
<1> DEFINE h == allocateHandle(nextConnectionHandle)
           g == allocateHandle(after(h))
<1>1. MediumTyped /\ LinksTyped /\ Mutual /\ Queues(m_pendingEvents)
  BY DEF IInv, DataTyped, EventsTyped
<1>2. c \in Controllers /\ p \in Controllers /\ c # p
  BY <1>1 DEF MediumTyped
<1>3. m_connection[c] = NoConnection
  BY <1>1, <1>2, OtherEnd
<1>4. h \in Handles /\ g \in Handles
  BY <1>1, <1>2, <1>3, Allocated DEF LinksTyped
<1>5. /\ Event("connected", h, 1) \in Notice /\ Event("connected", h, 1).type # "acl"
      /\ Event("connected", g, 1) \in Notice /\ Event("connected", g, 1).type # "acl"
  BY <1>4, Constants DEF Event, Notice, Handles
<1>6. \/ UNCHANGED m_pendingEvents
      \/ m_pendingEvents' = [m_pendingEvents EXCEPT
             ![c] = Append(@, Event("connected", h, 1)), ![p] = Append(@, Event("connected", g, 1))]
  BY DEF completeConnection
<1> HIDE DEF h, g
<1>7. PICK e : e = Event("connected", h, 1)
  OBVIOUS
<1>8. PICK f : f = Event("connected", g, 1)
  OBVIOUS
<1>9. \/ m_pendingEvents'[d] = m_pendingEvents[d]
      \/ m_pendingEvents'[d] = Append(m_pendingEvents[d], e)
      \/ m_pendingEvents'[d] = Append(m_pendingEvents[d], f)
  BY <1>1, <1>2, <1>6, <1>7, <1>8 DEF Queues
<1>10. m_pendingEvents[d] \in Seq(Notice)
  BY <1>1 DEF Queues
<1> QED BY <1>5, <1>7, <1>8, <1>9, <1>10, AddedAsMany, SameAsMany

\* StartInitiation.
LEMMA CommitCreateAccount ==
    ASSUME IInv, AInv, NEW c, CommitCreate(c)
    PROVE  AInv'
<1>1. c \in airControllers /\ Responds(c, {"Create"}, TRUE) /\ "Reset" \notin {"Create"}
  BY Responded DEF CommitCreate
<1>2. ASSUME NEW d \in Controllers PROVE AsMany(m_pendingEvents[d], m_pendingEvents'[d], "acl")
  <2> DEFINE p == m_pendingCommandResponse[c][1].arg
  <2>1. CASE /\ p \in airAdvertisements \ {c} /\ ~ Connected(c)
             /\ completeConnection(c, p, [Top EXCEPT !.at = "committed"])
    BY <1>1, <2>1, CompletedAsMany
  <2>2. CASE UNCHANGED m_pendingEvents
    BY <2>2, SameAsMany
  <2> QED BY <2>1, <2>2 DEF CommitCreate
<1> QED BY <1>1, <1>2, CommittedAccount DEF CommitCreate

\* CancelInitiation.
LEMMA CommitCancelAccount ==
    ASSUME IInv, AInv, NEW c, CommitCancel(c)
    PROVE  AInv'
<1>1. Responds(c, {"Cancel"}, TRUE) /\ "Reset" \notin {"Cancel"}
  BY DEF CommitCancel
<1>2. PICK f : f = Event("connected", 0, 0)
  OBVIOUS
<1>3. f \in Notice /\ f.type # "acl" /\ m_pendingEvents' = queueReliable(m_pendingEvents, c, f)
  BY <1>2, Constants DEF Event, Notice, CommitCancel
<1>4. \A d \in Controllers : AsMany(m_pendingEvents[d], m_pendingEvents'[d], "acl")
  BY <1>3, QueuedAsMany DEF IInv, DataTyped, EventsTyped
<1> QED BY <1>1, <1>4, CommittedAccount DEF CommitCancel

\* DisconnectConnection: what the hosts hold, and what is out for it, stays.
LEMMA CommitDisconnectAccount ==
    ASSUME IInv, AInv, NEW c, CommitDisconnect(c)
    PROVE  AInv'
<1>1. c \in Controllers /\ Responds(c, {"Disconnect"}, TRUE) /\ "Reset" \notin {"Disconnect"}
  BY Responded DEF CommitDisconnect
<1>2. \A d \in Controllers : AsMany(m_pendingEvents[d], m_pendingEvents'[d], "acl")
  <2>1. CASE Connected(c)
    <3>1. PICK p : p = m_connection[c].peer
      OBVIOUS
    <3>2. PICK e : e = Disconnected(c)
      OBVIOUS
    <3>3. PICK f : f = Disconnected(p)
      OBVIOUS
    <3>4. /\ p \in Controllers
          /\ m_connection[c].localHandle \in Handles /\ m_connection[p].localHandle \in Handles
      BY <1>1, <2>1, <3>1, OtherEnd DEF IInv, DataTyped
    <3>5. e \in Notice /\ e.type # "acl" /\ f \in Notice /\ f.type # "acl"
      BY <3>2, <3>3, <3>4, Constants DEF Disconnected, Event, Notice, Handles
    <3>6. PICK q : q = queueReliable(m_pendingEvents, c, e)
      OBVIOUS
    <3>7. m_pendingEvents' = queueReliable(q, p, f)
      BY <2>1, <3>1, <3>2, <3>3, <3>6 DEF CommitDisconnect
    <3>8. Queues(m_pendingEvents) /\ Queues(q)
      BY <1>1, <3>5, <3>6, Queued DEF IInv, DataTyped, EventsTyped
    <3>9. ASSUME NEW d \in Controllers PROVE AsMany(m_pendingEvents[d], m_pendingEvents'[d], "acl")
      <4>1. AsMany(m_pendingEvents[d], q[d], "acl")
        BY <3>5, <3>6, <3>8, QueuedAsMany
      <4>2. AsMany(q[d], m_pendingEvents'[d], "acl")
        BY <3>5, <3>7, <3>8, QueuedAsMany
      <4> QED BY <4>1, <4>2 DEF AsMany
    <3> QED BY <3>9
  <2>2. CASE ~ Connected(c)
    BY <2>2, SameAsMany DEF CommitDisconnect
  <2> QED BY <2>1, <2>2
<1> QED BY <1>1, <1>2, CommittedAccount DEF CommitDisconnect

\* The remote features are no packet either.
LEMMA CommitReadRemoteAccount ==
    ASSUME IInv, AInv, NEW c, CommitReadRemote(c)
    PROVE  AInv'
<1>1. Responds(c, {"ReadRemote"}, TRUE) /\ "Reset" \notin {"ReadRemote"}
  BY DEF CommitReadRemote
<1>2. m_pendingCommandResponse[c][1] \in Response /\ m_pendingCommandResponse[c][1].op \in {"ReadRemote"}
  BY <1>1, Responded
<1>3. m_pendingCommandResponse[c][1].arg \in Handles
  BY <1>2 DEF Response, Fits
<1>4. PICK f : f = Event("remote", m_pendingCommandResponse[c][1].arg, 0)
  OBVIOUS
<1>5. f \in Notice /\ f.type # "acl" /\ m_pendingEvents' = queueReliable(m_pendingEvents, c, f)
  BY <1>3, <1>4, Constants DEF Event, Notice, CommitReadRemote, Handles
<1>6. \A d \in Controllers : AsMany(m_pendingEvents[d], m_pendingEvents'[d], "acl")
  BY <1>5, QueuedAsMany DEF IInv, DataTyped, EventsTyped
<1> QED BY <1>1, <1>6, CommittedAccount DEF CommitReadRemote

\* The medium hears of a commit: reports come and go.
LEMMA PumpCommittedAccount ==
    ASSUME IInv, AInv, PumpCommitted
    PROVE  AInv'
<1>1. stack # <<>> /\ Top.at = "committed"
  BY DEF PumpCommitted, In
<1>2. Top.of \in Controllers /\ First(tx[Top.of], "command")
  BY <1>1, TopFacts DEF Sure
<1>3. UNCHANGED <<flow, credits, m_pendingCommandResponse, rx, host>>
  BY DEF PumpCommitted
<1>4. Modest(tx', m_pendingCommandResponse') /\ \A d \in Controllers : AsMany(tx[d], tx'[d], "returned")
  BY <1>2, <1>3, TakenModest DEF PumpCommitted, First
<1>5. Queues(m_pendingEvents)
  BY DEF IInv, DataTyped, EventsTyped
<1>6. \A d \in Controllers : AsMany(m_pendingEvents[d], m_pendingEvents'[d], "acl")
  <2>1. CASE m_pendingEvents' = queueReports(m_pendingEvents, Top.of, Cardinality(airAdvertisements \ {Top.of}))
    <3>1. Cardinality(airAdvertisements \ {Top.of}) \in Nat
      <4>1. airAdvertisements \ {Top.of} \subseteq Controllers
        BY DEF IInv, DataTyped, MediumTyped
      <4>2. IsFiniteSet(airAdvertisements \ {Top.of})
        BY <4>1, QemuBtAssumption, FS_Subset
      <4> QED BY <4>2, FS_CardinalityType
    <3> QED BY <1>2, <1>5, <2>1, <3>1, ReportedAsMany
  <2>2. CASE m_pendingEvents' = dropBestEffortEvents(m_pendingEvents, Top.of)
    BY <1>5, <2>2, DroppedAsMany
  <2>3. CASE UNCHANGED m_pendingEvents
    BY <2>3, SameAsMany
  <2> QED BY <2>1, <2>2, <2>3 DEF PumpCommitted
<1>7. Account'
  BY <1>3, <1>4, <1>6, SameAsMany, Steady DEF AInv, flow, credits
<1> QED BY <1>3, <1>4, <1>7 DEF AInv, flow

\* Only the events change, and no packet among them.
LEMMA EventsAccount ==
    ASSUME AInv, UNCHANGED <<flow, credits, m_pendingCommandResponse, tx, rx, host>>,
           \A d \in Controllers : AsMany(m_pendingEvents[d], m_pendingEvents'[d], "acl")
    PROVE  AInv'
<1>1. Account' /\ Unreset(controllerToHostFlow', rx')
  BY SteadyEvents
<1> QED BY <1>1 DEF AInv

\* A scanner gets a report.
LEMMA PublishToScannersAccount ==
    ASSUME IInv, AInv, PublishToScanners
    PROVE  AInv'
<1>1. UNCHANGED <<flow, credits, m_pendingCommandResponse, tx, rx, host>>
  BY DEF PublishToScanners
<1>2. \A d \in Controllers : AsMany(m_pendingEvents[d], m_pendingEvents'[d], "acl")
  <2>1. stack # <<>>
    BY DEF PublishToScanners, In
  <2>2. Top.todo \subseteq Controllers
    BY <2>1, TopFacts DEF Calls
  <2>3. ASSUME NEW s \in Top.todo,
               m_pendingEvents' = queueReports(m_pendingEvents, s, IF scanning[s] THEN 1 ELSE 0)
        PROVE  \A d \in Controllers : AsMany(m_pendingEvents[d], m_pendingEvents'[d], "acl")
    <3>1. PICK n : n = IF scanning[s] THEN 1 ELSE 0
      OBVIOUS
    <3>2. n \in Nat /\ s \in Controllers /\ Queues(m_pendingEvents)
      BY <2>2, <3>1 DEF IInv, DataTyped, EventsTyped
    <3> QED BY <2>3, <3>1, <3>2, ReportedAsMany
  <2>4. CASE UNCHANGED m_pendingEvents
    BY <2>4, SameAsMany
  <2> QED BY <2>3, <2>4 DEF PublishToScanners
<1> QED BY <1>1, <1>2, EventsAccount

\* An initiator connects, or does not.
LEMMA PublishToInitiatorsAccount ==
    ASSUME IInv, AInv, PublishToInitiators
    PROVE  AInv'
<1>1. UNCHANGED <<flow, credits, m_pendingCommandResponse, tx, rx, host>>
  BY DEF PublishToInitiators
<1>2. ASSUME NEW e \in Controllers PROVE AsMany(m_pendingEvents[e], m_pendingEvents'[e], "acl")
  <2>1. stack # <<>>
    BY DEF PublishToInitiators, In
  <2>2. Top.todo \subseteq airControllers
    BY <2>1, TopFacts
  <2>3. ASSUME NEW d \in Top.todo, MayConnect(d, m_initiation[d]),
               NEW next, completeConnection(d, m_initiation[d], next)
        PROVE  AsMany(m_pendingEvents[e], m_pendingEvents'[e], "acl")
    BY <2>2, <2>3, CompletedAsMany DEF MayConnect
  <2>4. CASE UNCHANGED m_pendingEvents
    BY <2>4, SameAsMany
  <2> QED BY <2>3, <2>4 DEF PublishToInitiators
<1> QED BY <1>1, <1>2, EventsAccount

\* An event goes to the ring: a packet moves.
LEMMA PushEventAccount ==
    ASSUME IInv, AInv, PushEvent
    PROVE  AInv'
<1> DEFINE c == Top.of
<1>1. /\ stack # <<>> /\ m_pendingEvents[c] # <<>>
      /\ rx' = [rx EXCEPT ![c] = Append(@, Head(m_pendingEvents[c]))]
      /\ m_pendingEvents' = [m_pendingEvents EXCEPT ![c] = Tail(@)]
      /\ UNCHANGED <<flow, credits, m_pendingCommandResponse, tx, host>>
  BY DEF PushEvent, Draining, In
<1>2. c \in Controllers
  BY <1>1, TopFacts
<1> HIDE DEF c
<1>3. PICK f : f = Head(m_pendingEvents[c])
  OBVIOUS
<1>4. rx[c] \in Seq(Notice \union Answer) /\ m_pendingEvents[c] \in Seq(Notice)
  BY <1>2 DEF IInv, DataTyped, RxTyped, EventsTyped, Queues
<1>5. f \in Notice /\ f.type # "response"
  <2>1. f \in Notice
    BY <1>1, <1>3, <1>4, TailFacts
  <2> QED BY <2>1 DEF Notice
<1>6. \A d \in Controllers :
          /\ rx'[d] = IF d = c THEN Append(rx[c], f) ELSE rx[d]
          /\ m_pendingEvents'[d] = IF d = c THEN Tail(m_pendingEvents[c]) ELSE m_pendingEvents[d]
  BY <1>1, <1>3 DEF IInv, DataTyped, RxTyped, EventsTyped, Queues
<1>7. Unreset(controllerToHostFlow', rx')
  <2>1. \A i \in DOMAIN Append(rx[c], f) :
            (i \in DOMAIN rx[c] /\ Append(rx[c], f)[i] = rx[c][i]) \/ Append(rx[c], f)[i] = f
    BY <1>4
  <2>2. ~ ResetDone(f)
    BY <1>5 DEF ResetDone
  <2>3. ASSUME NEW d \in Controllers, controllerToHostFlow'[d]
        PROVE  d \in Flow /\ \A i \in DOMAIN rx'[d] : ~ ResetDone(rx'[d][i])
    <3>1. controllerToHostFlow[d] /\ d \in Flow /\ \A i \in DOMAIN rx[d] : ~ ResetDone(rx[d][i])
      BY <1>1, <2>3 DEF AInv, Unreset, flow
    <3>2. CASE d # c
      BY <1>6, <3>1, <3>2
    <3>3. CASE d = c
      <4>1. PICK longer : longer = Append(rx[c], f)
        OBVIOUS
      <4>2. \A i \in DOMAIN longer : ~ ResetDone(longer[i])
        BY <2>1, <2>2, <3>1, <3>3, <4>1
      <4>3. rx'[d] = longer
        BY <1>2, <1>6, <3>3, <4>1
      <4> QED BY <3>1, <4>2, <4>3
    <3> QED BY <3>2, <3>3
  <2> QED BY <2>3 DEF Unreset
<1>8. ASSUME NEW d \in Controllers, NEW h \in Handles
      PROVE  OnTheWay(m_pendingEvents'[d], rx'[d], tx'[d], host'[d].held, h)
                 = OnTheWay(m_pendingEvents[d], rx[d], tx[d], host[d].held, h)
  <2>1. CASE d # c
    BY <1>1, <1>6, <2>1
  <2>2. CASE d = c
    <3>1. /\ Count(m_pendingEvents[c], "acl", h)
                = Count(Tail(m_pendingEvents[c]), "acl", h) + IF Hit(f, "acl", h) THEN 1 ELSE 0
          /\ Count(Tail(m_pendingEvents[c]), "acl", h) \in Nat
      BY <1>1, <1>3, <1>4, CountTail
    <3>2. f \in Notice \union Answer
      BY <1>5
    <3>3. /\ Count(Append(rx[c], f), "acl", h) = Count(rx[c], "acl", h) + IF Hit(f, "acl", h) THEN 1 ELSE 0
          /\ Count(rx[c], "acl", h) \in Nat
      BY <1>4, <3>2, CountAppend
    <3>4. host[c].held[h] \in Nat /\ Count(tx[c], "returned", h) \in Nat
      BY <1>2, Counts
    <3>5. /\ m_pendingEvents'[c] = Tail(m_pendingEvents[c]) /\ rx'[c] = Append(rx[c], f)
          /\ tx'[c] = tx[c] /\ host'[c].held = host[c].held
      BY <1>1, <1>2, <1>6
    <3> QED BY <2>2, <3>1, <3>3, <3>4, <3>5 DEF OnTheWay
  <2> QED BY <2>1, <2>2
<1>9. Account'
  BY <1>1, <1>8, Moved DEF AInv, flow, credits
<1> QED BY <1>1, <1>7, <1>9 DEF AInv

\* ~QemuBtController.
LEMMA DestroyAccount ==
    ASSUME IInv, AInv, NEW c \in Controllers, Destroy(c)
    PROVE  AInv'
<1>1. c \in airControllers /\ Detach(c, <<>>)
  BY DEF Destroy
<1>2. \A d \in Controllers \ {c} :
          /\ AsMany(rx[d], rx'[d], "acl") /\ tx'[d] = tx[d] /\ host'[d].held = host[d].held /\ rx'[d] = rx[d]
  <2>1. \A d \in Controllers \ {c} : rx'[d] = rx[d] /\ tx'[d] = tx[d] /\ host'[d] = host[d]
    BY AskedTyped DEF Destroy, IInv, DataTyped, HostTyped
  <2> QED BY <2>1, SameAsMany
<1>3. /\ Account' /\ ~ controllerToHostFlow'[c]
      /\ \A d \in Controllers : controllerToHostFlow'[d] => controllerToHostFlow[d]
  BY <1>1, <1>2, DetachAccount
<1>4. Unreset(controllerToHostFlow', rx')
  BY <1>2, <1>3 DEF AInv, Unreset
<1>5. Modest(tx', m_pendingCommandResponse')
  <2>1. \A d \in Controllers : tx'[d] = tx[d] \/ tx'[d] = <<>>
    BY AskedTyped DEF Destroy
  <2> QED BY <1>1, <2>1, AnsweredModest DEF Detach
<1> QED BY <1>3, <1>4, <1>5 DEF AInv

\* A host puts a frame that asks for nothing that is not modest.
LEMMA PutModest ==
    ASSUME IInv, AInv, NEW c \in Controllers, NEW f \in Command \union Packet \union Returned,
           HostPuts(c, f), f.type = "returned" => f.n = 1, f.type = "command" => Wanted(c, f.op)
    PROVE  /\ Modest(tx', m_pendingCommandResponse')
           /\ UNCHANGED <<flow, credits, m_pendingEvents, rx>>
           /\ \A d \in Controllers : tx'[d] = IF d = c THEN Append(tx[c], f) ELSE tx[d]
           /\ tx[c] \in Seq(Command \union Packet \union Returned)
<1>1. tx \in [Controllers -> Seq(Command \union Packet \union Returned)]
  BY AskedTyped
<1>2. \A d \in Controllers : tx'[d] = IF d = c THEN Append(tx[c], f) ELSE tx[d]
  BY <1>1 DEF HostPuts
<1>3. ASSUME NEW d \in Controllers PROVE Asked(d, tx'[d], m_pendingCommandResponse[d])
  <2>1. Asked(d, tx[d], m_pendingCommandResponse[d])
    BY DEF AInv, Modest
  <2>2. CASE d = c
    <3>1. Asked(c, Append(tx[c], f), m_pendingCommandResponse[c])
      BY <1>1, <2>1, <2>2, AskedMore
    <3> QED BY <1>2, <2>2, <3>1
  <2> QED BY <1>2, <2>1, <2>2
<1> QED BY <1>1, <1>2, <1>3 DEF Modest, HostPuts

\* A command of the host's program, or a packet of the host's own.
LEMMA PutAccount ==
    ASSUME IInv, AInv, NEW c \in Controllers, NEW f \in Command \union Packet, HostPuts(c, f),
           f.type = "command" => Wanted(c, f.op),
           \A d \in Controllers : host'[d].held = host[d].held
    PROVE  AInv'
<1>1. f.type # "returned"
  BY DEF Command, Packet
<1>2. /\ Modest(tx', m_pendingCommandResponse')
      /\ UNCHANGED <<flow, credits, m_pendingEvents, rx>>
      /\ \A d \in Controllers : tx'[d] = IF d = c THEN Append(tx[c], f) ELSE tx[d]
      /\ tx[c] \in Seq(Command \union Packet \union Returned)
  BY <1>1, PutModest
<1>3. AsMany(tx[c], Append(tx[c], f), "returned")
  BY <1>1, <1>2, AddedAsMany
<1>4. \A d \in Controllers : AsMany(tx[d], tx'[d], "returned")
  BY <1>2, <1>3, SameAsMany
<1>5. Account'
  BY <1>2, <1>4, SameAsMany, Steady DEF AInv, flow, credits
<1> QED BY <1>2, <1>5 DEF AInv, flow

\* A host asks for what its program says.
LEMMA HostCommandAccount ==
    ASSUME IInv, AInv, NEW c \in Controllers, HostCommand(c)
    PROVE  AInv'
<1>1. host[c].commands \in Nat /\ host \in [Controllers -> Host]
  BY DEF IInv, DataTyped, HostTyped, Host
<1>2. Programs[c] \in Seq(SUBSET Ops) /\ host[c].commands < Len(Programs[c]) /\ Len(Programs[c]) \in Nat
  BY QemuBtAssumption, LenProperties DEF HostCommand
<1>3. host[c].commands + 1 \in DOMAIN Programs[c]
  BY <1>1, <1>2
<1>4. PICK op \in Programs[c][host[c].commands + 1] : \E arg \in Arguments(c, op) :
          /\ HostPuts(c, [type |-> "command", op |-> op, arg |-> arg])
          /\ host' = [host EXCEPT ![c].waiting = op, ![c].commands = @ + 1]
  BY DEF HostCommand
<1>5. PICK arg \in Arguments(c, op) :
          /\ HostPuts(c, [type |-> "command", op |-> op, arg |-> arg])
          /\ host' = [host EXCEPT ![c].waiting = op, ![c].commands = @ + 1]
  BY <1>4
<1>6. PICK f : f = [type |-> "command", op |-> op, arg |-> arg]
  OBVIOUS
<1>7. Wanted(c, f.op)
  BY <1>3, <1>6 DEF Wanted
<1>8. f \in Command
  BY <1>3, <1>5, <1>6, CommandTyped
<1>9. \A d \in Controllers : host'[d].held = host[d].held
  BY <1>1, <1>5 DEF Host
<1> QED BY <1>5, <1>6, <1>7, <1>8, <1>9, PutAccount

\* A host sends a packet over its connection.
LEMMA HostAclAccount ==
    ASSUME IInv, AInv, NEW c \in Controllers, HostAcl(c)
    PROVE  AInv'
<1>1. host \in [Controllers -> Host]
  BY DEF IInv, DataTyped, HostTyped
<1>2. host[c].handle \in Handles /\ host[c].sent \in Nat
  BY <1>1, Constants DEF Host, HostAcl, Handles
<1>3. PICK f : f = [type |-> "acl", handle |-> host[c].handle, n |-> host[c].sent + 1]
  OBVIOUS
<1>4. f \in Packet /\ HostPuts(c, f) /\ f.type # "command"
  BY <1>2, <1>3 DEF Packet, HostAcl
<1>5. \A d \in Controllers : host'[d].held = host[d].held
  BY <1>1 DEF Host, HostAcl
<1> QED BY <1>4, <1>5, PutAccount

\* A host gives a packet back: it is on its way to the controller.
LEMMA HostReturnsAccount ==
    ASSUME IInv, AInv, NEW c \in Controllers, HostReturns(c)
    PROVE  AInv'
<1>1. PICK g \in Handles : /\ host[c].held[g] > 0
                           /\ HostPuts(c, [type |-> "returned", handle |-> g, n |-> 1])
                           /\ host' = [host EXCEPT ![c].held[g] = @ - 1]
  BY DEF HostReturns
<1>2. PICK f : f = [type |-> "returned", handle |-> g, n |-> 1]
  OBVIOUS
<1>3. f \in Returned /\ f.n = 1 /\ f.type = "returned" /\ f.handle = g
  BY <1>1, <1>2 DEF Returned
<1>4. /\ Modest(tx', m_pendingCommandResponse')
      /\ UNCHANGED <<flow, credits, m_pendingEvents, rx>>
      /\ \A d \in Controllers : tx'[d] = IF d = c THEN Append(tx[c], f) ELSE tx[d]
      /\ tx[c] \in Seq(Command \union Packet \union Returned)
  BY <1>1, <1>2, <1>3, PutModest
<1>5. host \in [Controllers -> Host]
  BY DEF IInv, DataTyped, HostTyped
<1>6. \A d \in Controllers \ {c} : host'[d].held = host[d].held
  BY <1>1, <1>5
<1>7. /\ host[c].held \in [Handles -> Nat]
      /\ host'[c].held = [host[c].held EXCEPT ![g] = @ - 1]
  BY <1>1, <1>5 DEF Host
<1>8. ASSUME NEW d \in Controllers, NEW h \in Handles
      PROVE  OnTheWay(m_pendingEvents'[d], rx'[d], tx'[d], host'[d].held, h)
                 = OnTheWay(m_pendingEvents[d], rx[d], tx[d], host[d].held, h)
  <2>1. CASE d # c
    BY <1>4, <1>6, <2>1
  <2>2. CASE d = c
    <3>1. /\ Count(Append(tx[c], f), "returned", h)
                = Count(tx[c], "returned", h) + IF Hit(f, "returned", h) THEN 1 ELSE 0
          /\ Count(tx[c], "returned", h) \in Nat
      BY <1>3, <1>4, CountAppend
    <3>2. Hit(f, "returned", h) <=> h = g
      BY <1>3 DEF Hit
    <3>3. /\ Count(rx[c], "acl", h) \in Nat /\ Count(m_pendingEvents[c], "acl", h) \in Nat
          /\ host[c].held[h] \in Nat
      BY Counts
    <3>4. PICK k : k = host'[c].held[h]
      OBVIOUS
    <3>5. k = host[c].held[h] - (IF h = g THEN 1 ELSE 0)
      BY <1>7, <3>4
    <3>6. tx'[c] = Append(tx[c], f) /\ rx'[c] = rx[c] /\ m_pendingEvents'[c] = m_pendingEvents[c]
      BY <1>4
    <3> QED BY <2>2, <3>1, <3>2, <3>3, <3>4, <3>5, <3>6 DEF OnTheWay
  <2> QED BY <2>1, <2>2
<1>9. Account'
  BY <1>4, <1>8, Moved DEF AInv, flow, credits
<1> QED BY <1>4, <1>9 DEF AInv, flow

\* What a host holds after a frame it takes: one packet more, or as many as before, as long as
\* it is not the answer to its reset.
LEMMA HeldAfter ==
    ASSUME IInv, NEW c \in Controllers, HostReads(c), NEW f, f = Head(rx[c]), NEW h \in Handles
    PROVE  /\ f \in Notice \union Answer
           /\ ~ ResetDone(f) => host'[c].held[h] = host[c].held[h]
                                    + (IF c \in Flow /\ Hit(f, "acl", h) THEN 1 ELSE 0)
           /\ \A d \in Controllers \ {c} : host'[d] = host[d]
<1> DEFINE NewLink(x) == [host[c] EXCEPT !.handle = x, !.sent = 0, !.completed = 0, !.heard = 0]
<1>1. /\ host \in [Controllers -> Host] /\ host[c] \in Host /\ host[c].held \in [Handles -> Nat]
      /\ host[c].held[h] \in Nat
  BY DEF IInv, DataTyped, HostTyped, Host
<1>2. f \in Notice \union Answer
  <2>1. rx[c] \in Seq(Notice \union Answer) /\ rx[c] # <<>>
    BY DEF IInv, DataTyped, RxTyped, HostReads
  <2> QED BY <2>1, TailFacts
<1>3. \A d \in Controllers \ {c} : host'[d] = host[d]
  BY <1>1 DEF HostReads
<1>4. ASSUME ~ ResetDone(f)
      PROVE  host'[c].held[h] = host[c].held[h] + (IF c \in Flow /\ Hit(f, "acl", h) THEN 1 ELSE 0)
  <2>1. CASE f.type = "acl"
    <3>1. PICK i : i = IF c \in Flow THEN 1 ELSE 0
      OBVIOUS
    <3>2. host'[c] = [host[c] EXCEPT !.heard = f.n, !.held[f.handle] = @ + i]
      BY <1>1, <2>1, <3>1 DEF HostReads
    <3>3. host'[c].held = [host[c].held EXCEPT ![f.handle] = @ + i]
      BY <1>1, <3>2 DEF Host
    <3>4. host'[c].held[h] = IF f.handle = h THEN host[c].held[h] + i ELSE host[c].held[h]
      BY <1>1, <3>3
    <3>5. Hit(f, "acl", h) <=> f.handle = h
      BY <2>1 DEF Hit
    <3> QED BY <1>1, <3>1, <3>4, <3>5
  <2>2. CASE f.type # "acl"
    <3>1. ~ Hit(f, "acl", h)
      BY <2>2 DEF Hit
    <3>2. ASSUME NEW x, host' = [host EXCEPT ![c] = x], x.held = host[c].held
          PROVE  host'[c].held = host[c].held
      BY <1>1, <3>2
    <3>3. CASE f.type = "response"
      <4>1. f.op # "Reset" \/ ~ f.ok
        BY <1>4, <3>3 DEF ResetDone
      <4>2. host' = [host EXCEPT ![c] = [host[c] EXCEPT !.waiting = "nothing"]]
        BY <3>3, <4>1 DEF HostReads
      <4>3. [host[c] EXCEPT !.waiting = "nothing"].held = host[c].held
        BY <1>1 DEF Host
      <4> QED BY <1>1, <3>1, <3>2, <4>2, <4>3
    <3>4. \A x : NewLink(x).held = host[c].held
      BY <1>1 DEF Host
    <3>5. CASE f.type = "connected" /\ f.n = 1
      <4>1. host' = [host EXCEPT ![c] = NewLink(f.handle)]
        BY <3>5 DEF HostReads
      <4> QED BY <1>1, <3>1, <3>2, <3>4, <4>1
    <3>6. CASE f.type = "disconnected"
      <4>1. host' = [host EXCEPT ![c] = NewLink(0)]
        BY <3>6 DEF HostReads
      <4> QED BY <1>1, <3>1, <3>2, <3>4, <4>1
    <3>7. CASE f.type = "completed"
      <4>1. host' = [host EXCEPT ![c] = [host[c] EXCEPT !.completed = @ + 1]]
        BY <1>1, <3>7 DEF HostReads
      <4>2. [host[c] EXCEPT !.completed = @ + 1].held = host[c].held
        BY <1>1 DEF Host
      <4> QED BY <1>1, <3>1, <3>2, <4>1, <4>2
    <3>8. CASE (f.type = "connected" /\ f.n # 1) \/ f.type \in {"remote", "report"}
      <4>1. host' = [host EXCEPT ![c] = host[c]]
        BY <3>8 DEF HostReads
      <4> QED BY <1>1, <3>1, <3>2, <4>1
    <3>9. f.type \in {"response", "connected", "disconnected", "acl", "completed", "remote", "report"}
      BY <1>2 DEF Notice, Answer
    <3> QED BY <2>2, <3>3, <3>5, <3>6, <3>7, <3>8, <3>9
  <2> QED BY <2>1, <2>2
<1> QED BY <1>2, <1>3, <1>4

\* A host takes a frame from its ring: a packet moves to the host.
LEMMA HostReadsAccount ==
    ASSUME IInv, AInv, NEW c \in Controllers, HostReads(c)
    PROVE  AInv'
<1>1. /\ rx[c] # <<>> /\ rx' = [rx EXCEPT ![c] = Tail(@)]
      /\ UNCHANGED <<flow, credits, m_pendingEvents, m_pendingCommandResponse, tx>>
  BY DEF HostReads
<1>2. rx \in [Controllers -> Seq(Notice \union Answer)]
  BY AskedTyped
<1>3. PICK f : f = Head(rx[c])
  OBVIOUS
<1>4. PICK rest : rest = Tail(rx[c])
  OBVIOUS
<1>5. \A d \in Controllers : rx'[d] = IF d = c THEN rest ELSE rx[d]
  BY <1>1, <1>2, <1>4
<1>6. rx[c] \in Seq(Notice \union Answer)
  BY <1>2
<1>7. f = rx[c][1] /\ 1 \in DOMAIN rx[c] /\ \A i \in DOMAIN rest : \E j \in DOMAIN rx[c] : rest[i] = rx[c][j]
  BY <1>1, <1>3, <1>4, <1>6
<1>8. Unreset(controllerToHostFlow', rx')
  <2>1. ASSUME NEW d \in Controllers, controllerToHostFlow'[d]
        PROVE  d \in Flow /\ \A i \in DOMAIN rx'[d] : ~ ResetDone(rx'[d][i])
    <3>1. d \in Flow /\ \A i \in DOMAIN rx[d] : ~ ResetDone(rx[d][i])
      BY <1>1, <2>1 DEF AInv, Unreset, flow
    <3>2. CASE d # c
      BY <1>5, <3>1, <3>2
    <3>3. CASE d = c
      BY <1>5, <1>7, <3>1, <3>3
    <3> QED BY <3>2, <3>3
  <2> QED BY <2>1 DEF Unreset
<1>9. ASSUME NEW d \in Controllers, controllerToHostFlow'[d], NEW h \in Handles
      PROVE  OnTheWay(m_pendingEvents'[d], rx'[d], tx'[d], host'[d].held, h)
                 = OnTheWay(m_pendingEvents[d], rx[d], tx[d], host[d].held, h)
  <2>1. CASE d # c
    <3>1. host'[d] = host[d]
      BY <1>3, <2>1, HeldAfter
    <3> QED BY <1>1, <1>5, <2>1, <3>1
  <2>2. CASE d = c
    <3>1. c \in Flow /\ ~ ResetDone(f)
      BY <1>1, <1>7, <1>9, <2>2 DEF AInv, Unreset, flow
    <3>2. host'[c].held[h] = host[c].held[h] + (IF Hit(f, "acl", h) THEN 1 ELSE 0)
      BY <1>3, <3>1, HeldAfter
    <3>3. /\ Count(rx[c], "acl", h) = Count(rest, "acl", h) + IF Hit(f, "acl", h) THEN 1 ELSE 0
          /\ Count(rest, "acl", h) \in Nat
      BY <1>1, <1>3, <1>4, <1>6, CountTail
    <3>4. /\ host[c].held[h] \in Nat /\ Count(tx[c], "returned", h) \in Nat
          /\ Count(m_pendingEvents[c], "acl", h) \in Nat
      BY Counts
    <3>5. rx'[c] = rest /\ tx'[c] = tx[c] /\ m_pendingEvents'[c] = m_pendingEvents[c]
      BY <1>1, <1>5
    <3> QED BY <2>2, <3>2, <3>3, <3>4, <3>5 DEF OnTheWay
  <2> QED BY <2>1, <2>2
<1>10. Account'
  BY <1>1, <1>9, Moved DEF AInv, flow, credits
<1> QED BY <1>1, <1>8, <1>10 DEF AInv

-----------------------------------------------------------------------------
\* At the start all credits are there.
LEMMA InitAInv == Init => AInv
<1> SUFFICES ASSUME Init PROVE AInv
  OBVIOUS
<1>1. \A c \in Controllers : /\ tx[c] = <<>> /\ rx[c] = <<>> /\ m_pendingEvents[c] = <<>>
                             /\ m_pendingCommandResponse[c] = <<>> /\ host[c] = NewHost
                             /\ controllerToHostFlow[c] <=> c \in Flow
                             /\ hostAclCredits[c] = hostAclPackets[c] /\ hostAclPackets[c] \in Nat
                             /\ m_hostAclOutstanding[c] = NothingOutstanding
  BY Constants DEF Init
<1>2. DOMAIN <<>> = {}
  OBVIOUS
<1>3. Modest(tx, m_pendingCommandResponse) /\ Unreset(controllerToHostFlow, rx)
  BY <1>1, <1>2 DEF Modest, Asked, Unreset
<1>4. ASSUME NEW h \in Handles PROVE OnTheWay(<<>>, <<>>, <<>>, NewHost.held, h) = 0
  <2>1. Count(<<>>, "acl", h) = 0 /\ Count(<<>>, "returned", h) = 0
    BY CountBasics
  <2>2. NewHost.held[h] = 0
    BY DEF NothingOutstanding, NewHost
  <2> QED BY <2>1, <2>2 DEF OnTheWay
<1>5. ASSUME NEW c \in Controllers
      PROVE  Accounted(hostAclPackets[c], hostAclCredits[c], m_hostAclOutstanding[c], m_pendingEvents[c],
                       rx[c], tx[c], host[c].held)
  BY <1>1, <1>4, Opened
<1> QED BY <1>3, <1>5 DEF AInv, Account

\* Every step keeps the account, when those that set flow control up are timely.
LEMMA NextAInv ==
    ASSUME Timely, IInv, AInv, [Next]_vars
    PROVE  AInv'
<1>1. CASE Thread
  <2>1. CASE PumpTx
    BY <2>1, PumpTxAccount
  <2>2. CASE PumpAcl
    BY <2>2, PumpAclAccount
  <2>3. CASE PumpRead
    BY <2>3, PumpReadAccount
  <2>4. CASE HostCompletedPackets
    BY <2>4, HostCompletedPacketsAccount
  <2>5. CASE DispatchCommand
    BY <2>5, DispatchCommandAccount
  <2>6. ASSUME NEW c \in Controllers, Commit(c) PROVE AInv'
    BY <2>6, RefuseAccount, CommitStateAccount, CommitResetAccount, CommitCreateAccount,
       CommitCancelAccount, CommitDisconnectAccount, CommitReadRemoteAccount DEF Commit
  <2>7. CASE PumpCommitted
    BY <2>7, PumpCommittedAccount
  <2>8. CASE PublishToScanners
    BY <2>8, PublishToScannersAccount
  <2>9. CASE PublishToInitiators
    BY <2>9, PublishToInitiatorsAccount
  <2>10. CASE PushEvent
    BY <2>10, PushEventAccount
  <2>11. CASE PumpEvents \/ Leave \/ ResponseWaits \/ Done \/ PumpAgain \/ EndDrain \/ Drained
    <3>1. UNCHANGED <<flow, credits, m_pendingEvents, m_pendingCommandResponse, tx, rx, host>>
      BY <2>11 DEF PumpEvents, Leave, ResponseWaits, Done, PumpAgain, EndDrain, Drained
    <3> QED BY <3>1, Undisturbed
  <2> QED BY <1>1, <2>1, <2>2, <2>3, <2>4, <2>5, <2>6, <2>7, <2>8, <2>9, <2>10, <2>11 DEF Thread
<1>2. ASSUME NEW c \in Controllers, RunTick(c) \/ Construct(c) PROVE AInv'
  <2>1. UNCHANGED <<flow, credits, m_pendingEvents, m_pendingCommandResponse, tx, rx, host>>
    BY <1>2 DEF RunTick, Construct
  <2> QED BY <2>1, Undisturbed
<1>3. ASSUME NEW c \in Controllers,
             Destroy(c) \/ HostCommand(c) \/ HostAcl(c) \/ HostReturns(c) \/ HostReads(c)
      PROVE  AInv'
  BY <1>3, DestroyAccount, HostCommandAccount, HostAclAccount, HostReturnsAccount, HostReadsAccount
<1>4. CASE UNCHANGED vars
  BY <1>4, Undisturbed DEF vars
<1> QED BY <1>1, <1>2, <1>3, <1>4 DEF Next

\* An account that holds for every controller, as the property says it.
LEMMA AInvAccounted == IInv /\ AInv => CreditsAccounted
<1> SUFFICES ASSUME IInv, AInv, NEW c \in airControllers, controllerToHostFlow[c]
             PROVE  /\ hostAclCredits[c] + SumFunction(m_hostAclOutstanding[c]) = hostAclPackets[c]
                    /\ \A h \in Handles :
                         m_hostAclOutstanding[c][h] =
                            Count(News(c), "acl", h) + host[c].held[h] + Count(tx[c], "returned", h)
  BY DEF CreditsAccounted
<1>1. c \in Controllers
  BY DEF IInv, DataTyped, MediumTyped
<1>2. Accounted(hostAclPackets[c], hostAclCredits[c], m_hostAclOutstanding[c], m_pendingEvents[c],
                rx[c], tx[c], host[c].held)
  BY <1>1 DEF AInv, Account
<1>3. ASSUME NEW h \in Handles
      PROVE  Count(News(c), "acl", h) = Count(rx[c], "acl", h) + Count(m_pendingEvents[c], "acl", h)
  <2>1. PICK S : S = Notice \union Answer
    OBVIOUS
  <2>2. rx[c] \in Seq(S) /\ m_pendingEvents[c] \in Seq(S)
    <3>1. rx[c] \in Seq(S) /\ m_pendingEvents[c] \in Seq(Notice) /\ Notice \subseteq S
      BY <1>1, <1>3, <2>1, Counts
    <3> QED BY <3>1
  <2> QED BY <2>2, CountConcat DEF News
<1> QED BY <1>2, <1>3 DEF Accounted, OnTheWay

-----------------------------------------------------------------------------
(***************************************************************************)
(* The theorems.                                                           *)
(***************************************************************************)

\* At the start there are all controllers, and nothing else.
LEMMA InitIInv == Init => IInv
<1> SUFFICES ASSUME Init PROVE IInv
  OBVIOUS
<1>1. /\ AclPackets \in Nat /\ 0 \in 0 .. AclPackets /\ AclPackets \in 0 .. AclPackets
      /\ 0 \in 0 .. MAX_HANDLE /\ 1 \in Handles /\ PENDING_EVENT_MAX \in Nat
      /\ RING_FRAMES \in Nat /\ RING_FRAMES >= 2
  BY Constants DEF Handles
<1>2. NothingOutstanding \in [Handles -> Nat] /\ NewHost \in Host
  <2>1. NothingOutstanding \in [Handles -> Nat]
    BY DEF NothingOutstanding
  <2> QED BY <1>1, <2>1 DEF NewHost, Host
<1>3. MediumTyped /\ FlowTyped /\ CreditsTyped /\ PumpsTyped /\ HostTyped
  <2>1. MediumTyped /\ PumpsTyped
    BY DEF Init, MediumTyped, PumpsTyped
  <2>2. FlowTyped
    BY <1>1 DEF Init, FlowTyped
  <2>3. CreditsTyped
    BY <1>1, <1>2 DEF Init, CreditsTyped
  <2>4. HostTyped
    BY <1>2 DEF Init, HostTyped
  <2> QED BY <2>1, <2>2, <2>3, <2>4
<1>4. ResponseTyped /\ AclTyped /\ EventsTyped /\ TxTyped /\ RxTyped
  <2>1. Len(<<>>) = 0 /\ \A S : <<>> \in Seq(S)
    BY EmptySeq
  <2> QED BY <1>1, <2>1
          DEF Init, ResponseTyped, AclTyped, EventsTyped, Queues, TxTyped, RxTyped
<1>5. NoConnection \in Connection
  BY <1>1 DEF NoConnection, Connection
<1>6. LinksTyped /\ Mutual
  BY <1>1, <1>5 DEF Init, LinksTyped, Mutual
<1>7. StackRight
  <2>1. stack = <<>> /\ DOMAIN stack = {} /\ stack \in Seq(Calls)
    BY EmptySeq DEF Init
  <2>2. \A c \in Controllers : ~ m_pumping[c]
    BY DEF Init
  <2>3. Answering(tx, m_pendingCommandResponse)
    BY DEF Init, Answering
  <2> QED BY <2>1, <2>2, <2>3 DEF StackRight, Right, Alone
<1> QED BY <1>3, <1>4, <1>6, <1>7 DEF IInv, DataTyped

\* Nothing changes when nothing happens.
LEMMA StutterStep ==
    ASSUME IInv, UNCHANGED vars
    PROVE  IInv'
<1>1. UNCHANGED <<medium, links, flow, credits, m_pendingCommandResponse, m_pendingAcl,
                  m_pendingEvents, pumps, tx, rx, stack, host>>
  BY DEF vars
<1>2. DataTyped' /\ LinksTyped' /\ Mutual'
  <2> USE <1>1
  <2> QED BY Same DEF DataTyped
<1>3. StackRight'
  BY <1>1 DEF IInv, StackRight
<1> QED BY <1>2, <1>3 DEF IInv

\* Every step of the thread and of the hosts keeps the invariant.
LEMMA NextIInv == IInv /\ [Next]_vars => IInv'
<1> SUFFICES ASSUME IInv, [Next]_vars PROVE IInv'
  OBVIOUS
<1>1. CASE Thread
  <2>1. CASE PumpTx
    BY <2>1, PumpTxStep
  <2>2. CASE PumpEvents
    BY <2>2, PumpEventsStep
  <2>3. CASE Leave
    BY <2>3, LeaveStep
  <2>4. CASE PumpAcl
    BY <2>4, PumpAclStep
  <2>5. CASE PumpRead
    BY <2>5, PumpReadStep
  <2>6. CASE HostCompletedPackets
    BY <2>6, HostCompletedPacketsStep
  <2>7. CASE DispatchCommand
    BY <2>7, DispatchCommandStep
  <2>8. CASE ResponseWaits
    BY <2>8, ResponseWaitsStep
  <2>9. CASE \E c \in Controllers : Commit(c)
    <3>1. PICK c \in Controllers : Commit(c)
      BY <2>9
    <3> QED BY <3>1, RefuseStep, CommitStateStep, CommitResetStep, CommitCreateStep, CommitCancelStep,
               CommitDisconnectStep, CommitReadRemoteStep DEF Commit
  <2>10. CASE PumpCommitted
    BY <2>10, PumpCommittedStep
  <2>11. CASE PublishToScanners
    BY <2>11, PublishToScannersStep
  <2>12. CASE PublishToInitiators
    BY <2>12, PublishToInitiatorsStep
  <2>13. CASE Done
    BY <2>13, DoneStep
  <2>14. CASE PumpAgain
    BY <2>14, PumpAgainStep
  <2>15. CASE PushEvent
    BY <2>15, PushEventStep
  <2>16. CASE EndDrain
    BY <2>16, EndDrainStep
  <2>17. CASE Drained
    BY <2>17, DrainedStep
  <2> QED BY <1>1, <2>1, <2>2, <2>3, <2>4, <2>5, <2>6, <2>7, <2>8, <2>9, <2>10, <2>11, <2>12, <2>13,
             <2>14, <2>15, <2>16, <2>17 DEF Thread
<1>2. ASSUME NEW c \in Controllers,
             \/ RunTick(c) \/ Destroy(c) \/ Construct(c)
             \/ HostCommand(c) \/ HostAcl(c) \/ HostReturns(c) \/ HostReads(c)
      PROVE  IInv'
  BY <1>2, RunTickStep, DestroyStep, ConstructStep, HostCommandStep, HostAclStep, HostReturnsStep,
     HostReadsStep
<1>3. CASE UNCHANGED vars
  BY <1>3, StutterStep
<1> QED BY <1>1, <1>2, <1>3 DEF Next

\* A frame that is in its queue is a frame.
LEMMA AllFrames ==
    /\ Command \subseteq Frame /\ Packet \subseteq Frame /\ Returned \subseteq Frame
    /\ Notice \subseteq Frame /\ Answer \subseteq Frame
<1>1. Handles \subseteq 0 .. MAX_HANDLE
  BY DEF Handles
<1>2. Command \subseteq Frame
  BY DEF Command, Frame
<1>3. Packet \subseteq Frame /\ Returned \subseteq Frame
  BY <1>1 DEF Packet, Returned, Frame
<1>4. Notice \subseteq Frame
  BY DEF Notice, Frame
<1>5. Answer \subseteq Frame
  BY DEF Answer, Frame
<1> QED BY <1>2, <1>3, <1>4, <1>5

\* m_pumping is up exactly while one call works on the controller's commands.
LEMMA PumpingCounts ==
    ASSUME IInv, NEW c \in Controllers
    PROVE  m_pumping[c] =
               (Cardinality({i \in DOMAIN stack :
                   stack[i].of = c /\ stack[i].at \notin {"pump", "again", "drain", "draining"}}) = 1)
<1> DEFINE W == {i \in DOMAIN stack :
                   stack[i].of = c /\ stack[i].at \notin {"pump", "again", "drain", "draining"}}
<1>1. /\ W = {i \in DOMAIN stack : Working(stack[i]) /\ stack[i].of = c}
      /\ m_pumping[c] \in BOOLEAN
      /\ \A i \in DOMAIN stack : Working(stack[i]) => m_pumping[stack[i].of]
      /\ \A i, j \in DOMAIN stack :
            Working(stack[i]) /\ Working(stack[j]) /\ stack[i].of = stack[j].of => i = j
      /\ m_pumping[c] => \E i \in DOMAIN stack : Working(stack[i]) /\ stack[i].of = c
  BY DEF IInv, DataTyped, PumpsTyped, StackRight, Right, Alone, Working
<1> HIDE DEF W
<1>2. CASE m_pumping[c]
  <2>1. PICK i \in DOMAIN stack : Working(stack[i]) /\ stack[i].of = c
    BY <1>1, <1>2
  <2>2. W = {i}
    BY <1>1, <2>1
  <2>3. Cardinality(W) = 1
    BY <2>2, FS_Singleton
  <2> QED BY <1>1, <1>2, <2>3 DEF W
<1>3. CASE ~ m_pumping[c]
  <2>1. W = {}
    BY <1>1, <1>3
  <2>2. Cardinality(W) = 0
    BY <2>1, FS_EmptySet
  <2> QED BY <1>1, <1>3, <2>2 DEF W
<1> QED BY <1>1, <1>2, <1>3

\* The invariant says more than TypeOK does.
LEMMA IInvTypeOK == IInv => TypeOK
<1> SUFFICES ASSUME IInv PROVE TypeOK
  OBVIOUS
<1>1. /\ MediumTyped /\ FlowTyped /\ CreditsTyped /\ ResponseTyped /\ AclTyped /\ EventsTyped
      /\ TxTyped /\ RxTyped /\ PumpsTyped /\ LinksTyped
  BY DEF IInv, DataTyped
<1>2. ASSUME NEW c \in Controllers
      PROVE  /\ \A q \in {tx[c], rx[c], m_pendingEvents[c], m_pendingAcl[c]} :
                   \A i \in DOMAIN q : q[i] \in Frame
             /\ Len(tx[c]) < RING_FRAMES /\ Len(rx[c]) < RING_FRAMES
             /\ Len(m_pendingEvents[c]) <= PENDING_EVENT_MAX
             /\ Len(m_pendingAcl[c]) <= 1 /\ Len(m_pendingCommandResponse[c]) <= 1
  <2>1. /\ tx[c] \in Seq(Command \union Packet \union Returned) /\ rx[c] \in Seq(Notice \union Answer)
        /\ m_pendingEvents[c] \in Seq(Notice) /\ m_pendingAcl[c] \in Seq(Packet)
    BY <1>1 DEF TxTyped, RxTyped, EventsTyped, Queues, AclTyped
  <2>2. ASSUME NEW S, S \subseteq Frame, NEW q \in Seq(S), NEW i \in DOMAIN q
        PROVE  q[i] \in Frame
    <3>1. i \in 1 .. Len(q)
      BY LenProperties
    <3> QED BY <2>2, <3>1, ElementOfSeq
  <2>3. /\ Command \union Packet \union Returned \subseteq Frame
        /\ Notice \union Answer \subseteq Frame /\ Notice \subseteq Frame /\ Packet \subseteq Frame
    BY AllFrames
  <2>4. /\ \A i \in DOMAIN tx[c] : tx[c][i] \in Frame
        /\ \A i \in DOMAIN rx[c] : rx[c][i] \in Frame
        /\ \A i \in DOMAIN m_pendingEvents[c] : m_pendingEvents[c][i] \in Frame
        /\ \A i \in DOMAIN m_pendingAcl[c] : m_pendingAcl[c][i] \in Frame
    BY <2>1, <2>2, <2>3
  <2> QED BY <1>1, <2>4 DEF TxTyped, RxTyped, EventsTyped, Queues, AclTyped, ResponseTyped
<1>3. \A i \in DOMAIN stack : stack[i].at \in Labels /\ stack[i].of \in airControllers
  <2> SUFFICES ASSUME NEW i \in DOMAIN stack
               PROVE  stack[i].at \in Labels /\ stack[i].of \in airControllers
    OBVIOUS
  <2>1. /\ stack \in Seq(Calls)
        /\ Sure(stack[i], airControllers, tx, m_pendingCommandResponse)
    BY DEF IInv, StackRight, Right
  <2>2. stack[i] \in Calls
    BY <2>1, LenProperties, ElementOfSeq
  <2> QED BY <2>1, <2>2 DEF Calls, Sure
<1>4. /\ airControllers \subseteq Controllers
      /\ airAdvertisements \union airScanners \subseteq airControllers
      /\ advertising \in [Controllers -> BOOLEAN] /\ scanning \in [Controllers -> BOOLEAN]
      /\ controllerToHostFlow \in [Controllers -> BOOLEAN]
      /\ hostAclPackets \in [Controllers -> 0 .. AclPackets]
      /\ hostAclCredits \in [Controllers -> 0 .. AclPackets]
      /\ m_hostAclOutstanding \in [Controllers -> [Handles -> Nat]]
      /\ m_pumping \in [Controllers -> BOOLEAN] /\ m_pumpRequested \in [Controllers -> BOOLEAN]
      /\ m_deferredWake \in [Controllers -> Controllers \union {NoOne}]
      /\ nextConnectionHandle \in Handles /\ m_connection \in [Controllers -> Connection]
      /\ m_initiation \in [Controllers -> Controllers \union {NoOne}]
  BY <1>1 DEF MediumTyped, FlowTyped, CreditsTyped, PumpsTyped, LinksTyped
<1> QED BY <1>2, <1>3, <1>4, PumpingCounts DEF TypeOK

\* The invariant is one of every behaviour.
LEMMA Invariant == Spec => []IInv
<1> HIDE DEF IInv, Init, Next, vars
<1> QED BY InitIInv, NextIInv, PTL DEF Spec

\* However the controllers call each other, every ring and queue stays within
\* its bound and holds the frames that belong there, and m_pumping says that
\* one call of pumpTx works for the controller (pumpTx, pumpPendingEvents).
THEOREM TypeCorrect == Spec => []TypeOK
<1> HIDE DEF IInv, TypeOK
<1> QED BY Invariant, IInvTypeOK, PTL

\* A connection has two ends, each of which knows the other, with handles
\* nobody else has, for any number of controllers (completeConnection,
\* teardownConnection, detachFromMedium).
THEOREM ConnectionsMutual == Spec => []Mutual
<1>1. IInv => Mutual
  BY DEF IInv
<1> HIDE DEF IInv, Mutual
<1> QED BY <1>1, Invariant, PTL

\* Who has set flow control up before the start is always in time.
LEMMA SettledTimely ==
    ASSUME Settled, IInv, AInv
    PROVE  Timely
<1> SUFFICES ASSUME NEW c \in Controllers, CommitState(c)
             PROVE  LET op == m_pendingCommandResponse[c][1].op IN
                    /\ ~ (op = "HostBufferSize" /\ controllerToHostFlow[c])
                    /\ op # "FlowOn"
  BY DEF Timely
<1>1. m_pendingCommandResponse[c] # <<>> /\ m_pendingCommandResponse[c] \in Seq(Response)
  BY Responded, AskedTyped DEF CommitState
<1>2. 1 \in DOMAIN m_pendingCommandResponse[c]
  BY <1>1
<1>3. Wanted(c, m_pendingCommandResponse[c][1].op)
  BY <1>2 DEF AInv, Modest, Asked
<1>4. controllerToHostFlow[c] => c \in Flow
  BY DEF AInv, Unreset
<1> QED BY <1>3, <1>4 DEF Settled

\* No credit is lost or made, for any number of controllers and packets and whoever resets,
\* disconnects or leaves in whatever callback, unless flow control is set up with packets under
\* way: that is all that can break the account (handleAclFrame, handleHostCompletedPackets,
\* teardownConnection, commitPendingAction).
THEOREM CreditsKept == Spec /\ [][Timely]_vars => []CreditsAccounted
<1>1. IInv /\ AInv /\ IInv' /\ [Next]_vars /\ [Timely]_vars => AInv'
  <2>1. CASE Timely
    BY <2>1, NextAInv
  <2>2. CASE UNCHANGED vars
    BY <2>2, Undisturbed DEF vars
  <2> QED BY <2>1, <2>2
<1>2. IInv /\ AInv => CreditsAccounted
  BY AInvAccounted
<1> HIDE DEF IInv, AInv, Init, Next, Timely, vars, CreditsAccounted
<1> QED BY <1>1, <1>2, Invariant, InitAInv, PTL DEF Spec

\* So no credit is lost or made when all hosts have set flow control up before the start
\* (handleAclFrame, handleHostCompletedPackets, teardownConnection).
THEOREM CreditsSettled ==
    ASSUME Settled
    PROVE  Spec => []CreditsAccounted
<1>1. IInv /\ AInv /\ [Next]_vars => AInv'
  BY NextAInv, SettledTimely
<1>2. IInv /\ AInv => CreditsAccounted
  BY AInvAccounted
<1> HIDE DEF IInv, AInv, Init, Next, vars, CreditsAccounted
<1> QED BY <1>1, <1>2, Invariant, InitAInv, PTL DEF Spec
=============================================================================
