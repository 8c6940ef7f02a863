-------------------------- MODULE EventListProofs --------------------------
(***************************************************************************)
(* The linked list keeps every promise of EventQueue, for every set of     *)
(* elements: the types and the shape of the list, and the refinement.      *)
(*                                                                         *)
(* The inductive invariant says that some sequence of elements is what the *)
(* pointers spell and that this sequence is a queue in order.  The walks   *)
(* of the code are a recursive function of the pointers, reached, which    *)
(* meets the sequence one element after the other.                         *)
(***************************************************************************)
EXTENDS EventList, FiniteSetTheorems, TLAPS

\* The lemmas about queues that are inserted to and deleted from, and about lists
\* threaded through the elements.
Links == INSTANCE EventQueueProofs
    WITH Time  <- 1 .. MaxTime,
         queue <- events,
         due   <- [e \in Elements |-> IF Stale(e) THEN 0 ELSE eventTime[e]],
         now   <- m_circTime

-----------------------------------------------------------------------------

\* The assumption of EventQueue.
LEMMA TimesOfList == 1 .. MaxTime \subseteq Nat \ {0} /\ 1 \in 1 .. MaxTime
  BY ListAssumption

\* A list without repetitions is no longer than there are elements.
LEMMA ChainLength ==
    ASSUME NEW q \in Seq(Elements),
           \A i, j \in 1 .. Len(q) : q[i] = q[j] => i = j
    PROVE  Len(q) <= Cardinality(Elements) /\ Cardinality(Elements) \in Nat
<1>1. Len(q) \in Nat /\ q \in [1 .. Len(q) -> Elements]
  BY Links!SeqIsFunction, TimesOfList
<1>2. q \in Injection(1 .. Len(q), Elements)
  BY <1>1 DEF Injection, IsInjective
<1>3. Cardinality(1 .. Len(q)) <= Cardinality(Elements)
  BY <1>2, FS_Injection, ListAssumption
<1>4. Cardinality(1 .. Len(q)) = Len(q)
  BY <1>1, FS_Interval
<1> QED BY <1>3, <1>4, FS_CardinalityType, ListAssumption

\* The walk of the model is bounded by a number.
LEMMA ElementCount == Cardinality(Elements) \in Nat
  BY FS_CardinalityType, ListAssumption

\* reached is the walk along the list.
LEMMA Reached ==
    ASSUME NEW q, Links!Chain(q, m_firstEvent, nextEvent)
    PROVE  /\ DOMAIN reached = 0 .. Cardinality(Elements)
           /\ \A n \in 0 .. Cardinality(Elements) : reached[n] = Links!At(q, n + 1)
<1> DEFINE C == Cardinality(Elements)
<1>1. C \in Nat
  BY ElementCount
<1> HIDE DEF C
<1>2. \E w : Links!IsWalk(w, m_firstEvent, nextEvent, C)
  BY <1>1, Links!WalkExists, ListAssumption
<1>3. Links!IsWalk(reached, m_firstEvent, nextEvent, C)
  BY <1>2 DEF reached, C, Links!IsWalk
<1>4. DOMAIN reached = 0 .. C /\ \A n \in 0 .. C : reached[n] = Links!At(q, n + 1)
  BY <1>1, <1>3, Links!WalkMeets, ListAssumption
<1> QED BY <1>4 DEF C

\* The elements a walk meets are those of q ...
LEMMA ChainLinked ==
    ASSUME NEW q, Links!Chain(q, m_firstEvent, nextEvent)
    PROVE  Linked = {q[i] : i \in 1 .. Len(q)}
<1>1. Len(q) <= Cardinality(Elements) /\ Cardinality(Elements) \in Nat
  BY ChainLength DEF Links!Chain
<1>2. /\ DOMAIN reached = 0 .. Cardinality(Elements)
      /\ \A n \in 0 .. Cardinality(Elements) : reached[n] = Links!At(q, n + 1)
  BY Reached
<1>3. {reached[n] : n \in 0 .. Cardinality(Elements)} \ {null} = Links!Elems(q)
  BY <1>1, <1>2, Links!WalkElems, ListAssumption
<1> QED BY <1>2, <1>3 DEF Linked, Links!Elems

\* ... in the order of q.
LEMMA ChainEvents ==
    ASSUME NEW q, Links!Chain(q, m_firstEvent, nextEvent)
    PROVE  events = q
<1> DEFINE C == Cardinality(Elements)
<1>0. /\ C \in Nat
      /\ Len(q) \in Nat /\ q \in [1 .. Len(q) -> Elements]
      /\ Len(q) <= C
  BY ChainLength, TimesOfList, Links!SeqIsFunction, ListAssumption DEF Links!Chain
<1> HIDE DEF C
<1>1. /\ DOMAIN reached = 0 .. C
      /\ \A n \in 0 .. C : reached[n] = Links!At(q, n + 1)
  BY Reached DEF C
<1>2. \A n \in 0 .. C : reached[n] = null <=> n >= Len(q)
  <2>1. ASSUME NEW n \in 0 .. C, n < Len(q) PROVE reached[n] # null
    <3>1. n + 1 \in 1 .. Len(q) /\ n + 1 <= Len(q) /\ q[n + 1] \in Elements
      BY <1>0, <2>1
    <3> QED BY <1>1, <3>1, ListAssumption DEF Links!At
  <2>2. ASSUME NEW n \in 0 .. C, n >= Len(q) PROVE reached[n] = null
    <3>1. ~ (n + 1 <= Len(q))
      BY <1>0, <2>2
    <3> QED BY <1>1, <3>1 DEF Links!At
  <2> QED BY <1>0, <2>1, <2>2
<1> DEFINE Ends(n) == /\ reached[n] = null
                      /\ \A k \in DOMAIN reached : k < n => reached[k] # null
<1>4. Len(q) \in 0 .. C
  BY <1>0
<1>3. ASSUME NEW n \in 0 .. C
      PROVE  Ends(n) <=> n = Len(q)
  <2>1. ASSUME Ends(n) PROVE n = Len(q)
    <3>1. n >= Len(q)
      BY <1>2, <2>1
    <3>2. ~ (Len(q) < n)
      BY <1>1, <1>2, <1>4, <2>1
    <3>3. n \in Nat /\ Len(q) \in Nat
      BY <1>0
    <3> QED BY <3>1, <3>2, <3>3
  <2>2. ASSUME n = Len(q) PROVE Ends(n)
    <3>1. ASSUME NEW k \in 0 .. C, k < n PROVE reached[k] # null
      BY <1>0, <1>2, <2>2, <3>1
    <3> QED BY <1>0, <1>1, <1>2, <2>2, <3>1
  <2> QED BY <2>1, <2>2
<1>5. (CHOOSE n \in DOMAIN reached : Ends(n)) = Len(q)
  BY <1>1, <1>3, <1>4
<1>6. events = [i \in 1 .. Len(q) |-> reached[i - 1]]
  BY <1>5 DEF events
<1>7. \A i \in 1 .. Len(q) : reached[i - 1] = q[i]
  <2> SUFFICES ASSUME NEW i \in 1 .. Len(q) PROVE reached[i - 1] = q[i]
    OBVIOUS
  <2>1. i - 1 \in 0 .. C /\ (i - 1) + 1 = i
    BY <1>0
  <2> QED BY <1>0, <1>1, <2>1 DEF Links!At
<1> QED BY <1>0, <1>6, <1>7

-----------------------------------------------------------------------------

(***************************************************************************)
(* addEventAt's walk and links: el comes in at the first place whose event *)
(* is not before t.  The place is the least of its kind, and the number of *)
(* elements before it is what insert counts.                               *)
(***************************************************************************)
LEMMA InsertChain ==
    ASSUME NEW q, Links!LinkedIn(q, m_firstEvent, nextEvent),
           NEW times \in [Elements -> Nat], NEW t \in Nat, NEW el \in Elements,
           \A i \in 1 .. Len(q) : q[i] # el,
           \A i, j \in 1 .. Len(q) : i < j => times[q[i]] <= times[q[j]],
           insert(times, t, el)
    PROVE  \E k \in 1 .. Len(q) + 1 :
              /\ \A i \in 1 .. k - 1 : times[q[i]] < t
              /\ \A i \in k .. Len(q) : t <= times[q[i]]
              /\ Links!LinkedIn(Queue!Inserted(q, k, el), m_firstEvent', nextEvent')
<1> DEFINE n == Len(q)
<1>0. /\ Cardinality(Elements) \in Nat
      /\ n \in Nat /\ q \in [1 .. n -> Elements]
      /\ n <= Cardinality(Elements)
      /\ \A i, j \in 1 .. n : q[i] = q[j] => i = j
  BY ChainLength, TimesOfList, Links!SeqIsFunction, ListAssumption DEF Links!LinkedIn, Links!Chain
<1> HIDE DEF n
<1>a. /\ m_firstEvent = Links!At(q, 1)
      /\ \A i \in 1 .. n : nextEvent[q[i]] = Links!At(q, i + 1)
      /\ m_firstEvent \in Elements \cup {null}
      /\ nextEvent \in [Elements -> Elements \cup {null}]
      /\ \A i \in 1 .. n : q[i] # el
      /\ \A i, j \in 1 .. n : i < j => times[q[i]] <= times[q[j]]
      /\ Links!Chain(q, m_firstEvent, nextEvent)
  BY DEF Links!LinkedIn, Links!Chain, n
<1>1. \E k \in 1 .. n + 1 :
         /\ \A i \in 1 .. k - 1 : times[q[i]] < t
         /\ \A i \in k .. n : t <= times[q[i]]
  <2> DEFINE Later == {i \in 1 .. n : t <= times[q[i]]}
  <2>1. CASE Later = {}
    <3>1. \A i \in 1 .. n : times[q[i]] < t
      BY <1>0, <2>1
    <3>2. n + 1 \in 1 .. n + 1 /\ (n + 1) - 1 = n /\ (n + 1) .. n = {}
      BY <1>0
    <3> QED BY <3>1, <3>2
  <2>2. CASE Later # {}
    <3>1. PICK k \in Later : \A i \in Later : k <= i
      <4>1. Later \subseteq Nat
        BY <1>0
      <4> QED BY <2>2, <4>1, TimesOfList, Links!LeastNatural
    <3>2. k \in 1 .. n /\ t <= times[q[k]]
      BY <3>1
    <3>3. ASSUME NEW i \in 1 .. k - 1 PROVE times[q[i]] < t
      <4>1. i \in 1 .. n /\ ~(k <= i)
        BY <1>0, <3>2
      <4>2. i \notin Later
        BY <3>1, <4>1
      <4>3. times[q[i]] \in Nat
        BY <1>0, <4>1
      <4> QED BY <4>1, <4>2, <4>3
    <3>4. ASSUME NEW i \in k .. n PROVE t <= times[q[i]]
      <4>1. i \in 1 .. n /\ (i = k \/ k < i)
        BY <1>0, <3>2
      <4>2. times[q[i]] \in Nat /\ times[q[k]] \in Nat
        BY <1>0, <4>1, <3>2
      <4> QED BY <1>a, <3>2, <4>1, <4>2
    <3>5. k \in 1 .. n + 1
      BY <1>0, <3>2
    <3> QED BY <3>3, <3>4, <3>5
  <2> QED BY <2>1, <2>2
<1>2. PICK k \in 1 .. n + 1 :
         /\ \A i \in 1 .. k - 1 : times[q[i]] < t
         /\ \A i \in k .. n : t <= times[q[i]]
  BY <1>1
<1>b. k \in Nat /\ k - 1 \in 0 .. Cardinality(Elements) /\ k - 1 \in 0 .. n
  BY <1>0
<1>3. Cardinality({e \in Linked : times[e] < t}) = k - 1
  <2> DEFINE S == {e \in Linked : times[e] < t}
             f == [i \in 1 .. k - 1 |-> q[i]]
  <2>1. Linked = {q[i] : i \in 1 .. n}
    BY <1>a, ChainLinked DEF n
  <2>2. \A i \in 1 .. k - 1 : i \in 1 .. n
    BY <1>0, <1>b
  <2>3. S = {q[i] : i \in 1 .. k - 1}
    <3>1. ASSUME NEW i \in 1 .. n, times[q[i]] < t PROVE i \in 1 .. k - 1
      <4>1. ~(i \in k .. n)
        <5>1. times[q[i]] \in Nat
          BY <1>0
        <5> QED BY <1>2, <3>1, <5>1
      <4> QED BY <1>0, <1>b, <4>1
    <3>2. ASSUME NEW e \in S PROVE e \in {q[i] : i \in 1 .. k - 1}
      BY <2>1, <3>1
    <3>3. ASSUME NEW i \in 1 .. k - 1 PROVE q[i] \in S
      BY <1>2, <2>1, <2>2
    <3> QED BY <3>2, <3>3
  <2>4. f \in Surjection(1 .. k - 1, S) /\ f \in Injection(1 .. k - 1, S)
    <3>1. f \in [1 .. k - 1 -> S]
      BY <2>3
    <3>2. \A i, j \in 1 .. k - 1 : f[i] = f[j] => i = j
      BY <1>0, <2>2
    <3>3. \A e \in S : \E i \in 1 .. k - 1 : f[i] = e
      BY <2>3
    <3> HIDE DEF f, S
    <3> QED BY <3>1, <3>2, <3>3 DEF Surjection, Injection, IsInjective
  <2> HIDE DEF f, S
  <2>5. ExistsBijection(1 .. k - 1, S)
    BY <2>4 DEF ExistsBijection, Bijection
  <2>6. k - 1 \in Nat
    BY <1>b
  <2>7. Cardinality(S) = k - 1
    BY <2>5, <2>6, FS_CountingElements
  <2> QED BY <2>7 DEF S
<1>4. reached[k - 1] = Links!At(q, k)
  <2>1. (k - 1) + 1 = k
    BY <1>b
  <2> QED BY <1>a, <1>b, <2>1, Reached
<1> DEFINE last == IF k = 1 THEN null ELSE q[k - 1]
<1>5. k # 1 => k - 1 \in 1 .. n /\ q[k - 1] \in Elements /\ reached[(k - 1) - 1] = q[k - 1]
  <2> SUFFICES ASSUME k # 1
               PROVE  k - 1 \in 1 .. n /\ q[k - 1] \in Elements /\ reached[(k - 1) - 1] = q[k - 1]
    OBVIOUS
  <2>1. k - 1 \in 1 .. n /\ (k - 1) - 1 \in 0 .. Cardinality(Elements) /\ ((k - 1) - 1) + 1 = k - 1
    BY <1>0, <1>b
  <2>2. reached[(k - 1) - 1] = Links!At(q, k - 1)
    BY <1>a, <2>1, Reached
  <2> QED BY <1>0, <2>1, <2>2 DEF Links!At, n
<1>6. /\ m_firstEvent' = IF last = null THEN el ELSE m_firstEvent
      /\ nextEvent' = [e \in Elements |-> IF e = el THEN Links!At(q, k)
                                          ELSE IF e = last THEN el
                                          ELSE nextEvent[e]]
  <2>1. (k - 1 = 0) <=> k = 1
    BY <1>b
  <2> QED BY <1>3, <1>4, <1>5, <2>1 DEF insert
<1>7. last # null <=> k # 1
  BY <1>5, ListAssumption
<1> DEFINE p == Queue!Inserted(q, k, el)
<1>8. p = Links!Inserted(q, k, el)
  BY DEF Queue!Inserted, Links!Inserted
<1> HIDE DEF p
<1>9. m_firstEvent' = IF k = 1 THEN el ELSE m_firstEvent
  BY <1>6, <1>7
<1>10. nextEvent' \in [Elements -> Elements \cup {null}] /\ nextEvent'[el] = Links!At(q, k)
  <2>1. Links!At(q, k) \in Elements \cup {null}
    BY <1>0, <1>b DEF Links!At, n
  <2> QED BY <1>a, <1>6, <2>1
<1>11. ASSUME NEW i \in 1 .. n
       PROVE  nextEvent'[q[i]] = IF i = k - 1 THEN el ELSE nextEvent[q[i]]
  <2>1. q[i] \in Elements /\ q[i] # el /\ nextEvent'[q[i]] = IF q[i] = last THEN el ELSE nextEvent[q[i]]
    BY <1>0, <1>a, <1>6
  <2>2. q[i] = last <=> i = k - 1
    <3>1. CASE k = 1
      BY <1>b, <2>1, <3>1, ListAssumption
    <3>2. CASE k # 1
      BY <1>0, <1>5, <3>2
    <3> QED BY <3>1, <3>2
  <2> QED BY <2>1, <2>2
<1>12. Links!LinkedIn(p, m_firstEvent', nextEvent')
  <2>1. /\ k \in 1 .. Len(q) + 1
        /\ \A i \in 1 .. Len(q) : nextEvent'[q[i]] = IF i = k - 1 THEN el ELSE nextEvent[q[i]]
    BY <1>b, <1>2, <1>11 DEF n
  <2>2. Links!LinkedIn(Links!Inserted(q, k, el), m_firstEvent', nextEvent')
    BY <1>9, <1>10, <2>1, TimesOfList, Links!InsertLinks, SMTT(30)
  <2> QED BY <1>8, <2>2
<1> QED BY <1>2, <1>12 DEF p, n

-----------------------------------------------------------------------------

\* eventTime without the leftovers of the last simulation.
scheduled == [e \in Elements |-> IF Stale(e) THEN 0 ELSE eventTime[e]]

\* The pointers spell q, and q is a queue in order of the elements that have an
\* event.
Held(q) ==
    /\ Links!LinkedIn(q, m_firstEvent, nextEvent)
    /\ Links!InOrder(Elements, Len(q), q, scheduled)

\* None of them is late that was not overtaken.
NoneLate == \A e \in Elements : scheduled[e] # 0 => e \in overtaken \/ m_circTime <= scheduled[e]

\* Elements wait for initialize() only during startSim; a frame that runs ends
\* now or later.  An event with less than nothing left was overtaken.
FrameOpen ==
    /\ todo # {} => pc = "init"
    /\ pc \in {"loop", "solve", "event", "broken"} => m_circTime <= endRun
    /\ putOff \subseteq overtaken

\* The inductive invariant.
IInv == TypeOK /\ FrameOpen /\ NoneLate /\ \E q : Held(q)

\* If the elements of the list are p afterwards, the step was one of the queue.
Simulated(p) == events' = p => [Queue!Next]_Queue!vars

\* The invariant in the terms of the lemmas about queues.
LEMMA HeldFacts ==
    ASSUME NEW q, Held(q), TypeOK
    PROVE  /\ Len(q) \in Nat /\ q \in [1 .. Len(q) -> Elements]
           /\ scheduled \in [Elements -> 0 .. MaxTime]
           /\ scheduled \in [Elements -> Nat]
           /\ m_circTime \in Nat
           /\ Links!InOrder(Elements, Len(q), q, scheduled)
           /\ Links!LinkedIn(q, m_firstEvent, nextEvent)
<1>1. Len(q) \in Nat /\ q \in [1 .. Len(q) -> Elements]
  BY Links!SeqIsFunction DEF Held, Links!LinkedIn, Links!Chain
<1>2. scheduled \in [Elements -> 0 .. MaxTime]
  BY ListAssumption DEF TypeOK, scheduled
<1>3. m_circTime \in Nat /\ 0 .. MaxTime \subseteq Nat
  BY ListAssumption DEF TypeOK
<1> QED BY <1>1, <1>2, <1>3 DEF Held

(***************************************************************************)
(* A step that inserts an element which had no event is Queue!Schedule.    *)
(***************************************************************************)
LEMMA ScheduleStep ==
    ASSUME TypeOK, NEW q, Held(q), events = q,
           NEW times \in [Elements -> Nat], NEW t \in 1 .. MaxTime, NEW el \in Elements,
           scheduled[el] = 0, el \in overtaken \/ m_circTime <= t,
           \A e \in Elements : scheduled[e] # 0 => times[e] = scheduled[e],
           insert(times, t, el),
           scheduled' = [scheduled EXCEPT ![el] = t],
           m_circTime' = m_circTime, UNCHANGED aux, NoneLate
    PROVE  /\ m_firstEvent' \in Elements \cup {null}
           /\ nextEvent' \in [Elements -> Elements \cup {null}]
           /\ NoneLate' /\ \E p : Held(p)' /\ Simulated(p)
<1>1. /\ Len(q) \in Nat /\ q \in [1 .. Len(q) -> Elements]
      /\ scheduled \in [Elements -> Nat]
      /\ m_circTime \in Nat
      /\ Links!InOrder(Elements, Len(q), q, scheduled)
      /\ Links!LinkedIn(q, m_firstEvent, nextEvent)
  BY HeldFacts
<1>2. t \in Nat /\ t # 0
  BY ListAssumption
<1>3. \A i \in 1 .. Len(q) : q[i] \in Elements /\ scheduled[q[i]] # 0 /\ q[i] # el
                             /\ times[q[i]] = scheduled[q[i]]
  BY <1>1 DEF Links!InOrder
<1>4. \A i, j \in 1 .. Len(q) : i < j => times[q[i]] <= times[q[j]]
  BY <1>1, <1>3 DEF Links!InOrder
<1>5. PICK k \in 1 .. Len(q) + 1 :
              /\ \A i \in 1 .. k - 1 : times[q[i]] < t
              /\ \A i \in k .. Len(q) : t <= times[q[i]]
              /\ Links!LinkedIn(Queue!Inserted(q, k, el), m_firstEvent', nextEvent')
  BY <1>1, <1>2, <1>3, <1>4, InsertChain, ZenonT(60)
<1>6. /\ \A i \in 1 .. k - 1 : scheduled[q[i]] < t
      /\ \A i \in k .. Len(q) : t <= scheduled[q[i]]
  <2>1. \A i \in 1 .. k - 1 : i \in 1 .. Len(q)
    BY <1>1
  <2>2. \A i \in k .. Len(q) : i \in 1 .. Len(q)
    BY <1>1
  <2> QED BY <1>3, <1>5, <2>1, <2>2
<1> DEFINE p == Queue!Inserted(q, k, el)
<1>7. p = [i \in 1 .. Len(q) + 1 |-> IF i < k THEN q[i] ELSE IF i = k THEN el ELSE q[i - 1]]
  BY DEF Queue!Inserted
<1> HIDE DEF p
<1>8. p \in [1 .. Len(q) + 1 -> Elements] /\ Links!InOrder(Elements, Len(q) + 1, p, scheduled')
  <2>1. Links!Insertion(Elements, Len(q), q, scheduled, el, t, k, p, scheduled')
    BY <1>1, <1>2, <1>6, <1>7 DEF Links!Insertion
  <2>2. 1 .. MaxTime \subseteq Nat \ {0} /\ 1 \in 1 .. MaxTime
    BY ListAssumption
  <2> QED BY <2>1, <2>2, Links!InsertInOrder, Zenon
<1>9. Len(p) = Len(q) + 1
  BY <1>1, <1>8, Links!FunctionIsSeq
<1>10. Held(p)'
  BY <1>5, <1>8, <1>9 DEF Held, p
<1>11. Simulated(p)
  <2>1. ASSUME events' = p PROVE Queue!Schedule(el, t)
    BY <1>6, <2>1 DEF Queue!Schedule, scheduled, p, aux
  <2> QED BY <2>1 DEF Simulated, Queue!Next
<1>12. NoneLate'
  BY <1>1 DEF NoneLate, aux
<1> QED BY <1>5, <1>10, <1>11, <1>12 DEF Links!LinkedIn


\* A step that unlinks what is at place k.
LEMMA DeleteStep ==
    ASSUME TypeOK, NEW q, Held(q),
           NEW k \in 1 .. Len(q),
           m_firstEvent' = IF k = 1 THEN nextEvent[q[k]] ELSE m_firstEvent,
           nextEvent' \in [Elements -> Elements \cup {null}],
           \A i \in 1 .. Len(q) :
              i # k => nextEvent'[q[i]] = IF i = k - 1 THEN nextEvent[q[k]] ELSE nextEvent[q[i]],
           scheduled' = [scheduled EXCEPT ![q[k]] = 0]
    PROVE  Held(Queue!Deleted(q, k))' /\ m_firstEvent' \in Elements \cup {null}
<1>1. /\ Len(q) \in Nat /\ q \in [1 .. Len(q) -> Elements]
      /\ scheduled \in [Elements -> Nat]
      /\ m_circTime \in Nat
      /\ Links!InOrder(Elements, Len(q), q, scheduled)
      /\ Links!LinkedIn(q, m_firstEvent, nextEvent)
  BY HeldFacts
<1> DEFINE p == Queue!Deleted(q, k)
<1>2. Links!LinkedIn(p, m_firstEvent', nextEvent')
  <2>1. p = Links!Deleted(q, k)
    BY DEF Queue!Deleted, Links!Deleted
  <2>2. Links!LinkedIn(Links!Deleted(q, k), m_firstEvent', nextEvent')
    BY <1>1, TimesOfList, Links!DeleteLinks, Zenon
  <2> QED BY <2>1, <2>2
<1>3. p = [i \in 1 .. Len(q) - 1 |-> IF i < k THEN q[i] ELSE q[i + 1]]
  BY DEF Queue!Deleted
<1> HIDE DEF p
<1>4. p \in [1 .. Len(q) - 1 -> Elements] /\ Links!InOrder(Elements, Len(q) - 1, p, scheduled')
  <2>1. Links!Deletion(Elements, Len(q), q, scheduled, k, p, scheduled')
    BY <1>1, <1>3 DEF Links!Deletion
  <2>2. 1 .. MaxTime \subseteq Nat \ {0} /\ 1 \in 1 .. MaxTime
    BY ListAssumption
  <2> QED BY <2>1, <2>2, Links!DeleteInOrder, Zenon
<1>5. Len(p) = Len(q) - 1
  <2>1. Len(q) - 1 \in Nat
    BY <1>1
  <2> QED BY <1>4, <2>1, Links!FunctionIsSeq
<1> QED BY <1>2, <1>4, <1>5 DEF Held, Links!LinkedIn, p

\* A step that leaves the list alone.
LEMMA KeepStep ==
    ASSUME TypeOK, NEW q, Held(q),
           m_firstEvent' = m_firstEvent, nextEvent' = nextEvent, scheduled' = scheduled
    PROVE  Held(q)'
  BY DEF Held, Links!InOrder

\* A step after which the list is empty.
LEMMA EmptyStep ==
    ASSUME m_firstEvent' = null,
           nextEvent' \in [Elements -> Elements \cup {null}],
           scheduled' = [e \in Elements |-> 0]
    PROVE  Held(<<>>)' /\ NoneLate'
  BY DEF Held, Links!LinkedIn, Links!Chain, Links!At, Links!InOrder, NoneLate

\* A step of the simulator that is none of the queue.
LEMMA StutterStep ==
    ASSUME TypeOK, NEW q, Held(q), events = q,
           m_firstEvent' = m_firstEvent, nextEvent' = nextEvent, scheduled' = scheduled,
           m_circTime' = m_circTime, UNCHANGED aux, NoneLate
    PROVE  NoneLate' /\ \E p : Held(p)' /\ Simulated(p)
<1>1. Held(q)' /\ NoneLate'
  BY DEF Held, NoneLate, aux
<1>2. ASSUME events' = q PROVE UNCHANGED Queue!vars
  BY <1>2 DEF Queue!vars, scheduled, aux
<1> QED BY <1>1, <1>2 DEF Simulated

(***************************************************************************)
(* cancelEvents is Queue!Cancel; of an element that has only the leftover  *)
(* of the last simulation it changes nothing in the queue.                 *)
(***************************************************************************)
LEMMA CancelStep ==
    ASSUME IInv, NEW q, Held(q), events = q,
           NEW el \in Elements, cancelEvents(el),
           pc' = pc, todo' = todo, m_circTime' = m_circTime, todo = {}, UNCHANGED aux
    PROVE  /\ m_firstEvent' \in Elements \cup {null}
           /\ nextEvent' \in [Elements -> Elements \cup {null}]
           /\ eventTime' \in [Elements -> 0 .. MaxTime]
           /\ NoneLate' /\ \E p : Held(p)' /\ Simulated(p)
<1>1. /\ Len(q) \in Nat /\ q \in [1 .. Len(q) -> Elements]
      /\ scheduled \in [Elements -> Nat]
      /\ m_circTime \in Nat
      /\ Links!InOrder(Elements, Len(q), q, scheduled)
      /\ Links!LinkedIn(q, m_firstEvent, nextEvent)
  BY HeldFacts DEF IInv
<1>2. Linked = {q[i] : i \in 1 .. Len(q)}
  BY <1>1, ChainLinked DEF Links!LinkedIn
<1>3. /\ m_firstEvent \in Elements \cup {null}
      /\ nextEvent \in [Elements -> Elements \cup {null}]
      /\ eventTime \in [Elements -> 0 .. MaxTime]
      /\ eventTime' = [eventTime EXCEPT ![el] = 0]
      /\ 0 \in 0 .. MaxTime
  BY ListAssumption DEF IInv, TypeOK, cancelEvents
<1>4. CASE pc = "off"
  <2>1. scheduled = [e \in Elements |-> 0] /\ scheduled' = scheduled
    BY <1>4 DEF scheduled, Stale
  <2>2. el \notin Linked
    BY <1>1, <1>2, <2>1 DEF Links!InOrder
  <2>3. m_firstEvent' = m_firstEvent /\ nextEvent' = nextEvent
    BY <2>2 DEF cancelEvents
  <2>4. NoneLate' /\ \E p : Held(p)' /\ Simulated(p)
    BY <2>1, <2>3, StutterStep DEF IInv
  <2> QED BY <1>3, <2>3, <2>4
<1>5. CASE pc # "off"
  <2>1. /\ scheduled = eventTime
        /\ scheduled' = [scheduled EXCEPT ![el] = 0]
    BY <1>3, <1>5 DEF scheduled, Stale
  <2>2. PICK k \in 1 .. Len(q) : q[k] = el
    BY <1>1, <2>1 DEF cancelEvents, Links!InOrder
  <2>3. /\ nextEvent' \in [Elements -> Elements \cup {null}]
        /\ m_firstEvent' = IF k = 1 THEN nextEvent[el] ELSE m_firstEvent
        /\ \A i \in 1 .. Len(q) :
              i # k => nextEvent'[q[i]] = IF i = k - 1 THEN nextEvent[el] ELSE nextEvent[q[i]]
    <3>1. el \in Linked
      BY <1>2, <2>2
    <3>2. /\ m_firstEvent = Links!At(q, 1)
          /\ \A i \in 1 .. Len(q) : nextEvent[q[i]] = Links!At(q, i + 1)
          /\ \A i, j \in 1 .. Len(q) : q[i] = q[j] => i = j
      BY <1>1 DEF Links!LinkedIn, Links!Chain
    <3>3. m_firstEvent = q[1] /\ 1 \in 1 .. Len(q)
      BY <1>1, <3>2 DEF Links!At
    <3>4. m_firstEvent = el <=> k = 1
      BY <2>2, <3>2, <3>3
    <3>5. CASE k = 1
      <4>1. m_firstEvent' = nextEvent[el] /\ nextEvent' = [nextEvent EXCEPT ![el] = null]
        BY <3>1, <3>4, <3>5 DEF cancelEvents
      <4>2. ASSUME NEW i \in 1 .. Len(q), i # k
            PROVE  q[i] # el /\ i # k - 1 /\ q[i] \in Elements
        <5>1. q[i] # el
          BY <2>2, <3>2, <4>2
        <5>2. i # k - 1 /\ q[i] \in Elements
          BY <1>1, <3>5
        <5> QED BY <5>1, <5>2
      <4> QED BY <1>3, <3>5, <4>1, <4>2
    <3>6. CASE k # 1
      <4>1. /\ m_firstEvent' = m_firstEvent
            /\ nextEvent' = [e \in Elements |->
                                 IF e = el THEN null
                                 ELSE IF e \in Linked /\ nextEvent[e] = el
                                        THEN nextEvent[el] ELSE nextEvent[e]]
        BY <3>1, <3>4, <3>6 DEF cancelEvents
      <4>2. ASSUME NEW i \in 1 .. Len(q), i # k
            PROVE  nextEvent'[q[i]] = IF i = k - 1 THEN nextEvent[el] ELSE nextEvent[q[i]]
        <5>1. q[i] # el /\ q[i] \in Elements /\ q[i] \in Linked
          BY <1>1, <1>2, <2>2, <3>2, <4>2
        <5>2. nextEvent[q[i]] = el <=> i = k - 1
          <6>1. CASE i + 1 <= Len(q)
            <7>1. i + 1 \in 1 .. Len(q) /\ nextEvent[q[i]] = q[i + 1]
              BY <1>1, <3>2, <6>1 DEF Links!At
            <7>2. q[i + 1] = el <=> i + 1 = k
              BY <2>2, <3>2, <7>1
            <7> QED BY <1>1, <7>1, <7>2
          <6>2. CASE ~(i + 1 <= Len(q))
            <7>1. nextEvent[q[i]] = null
              BY <3>2, <6>2 DEF Links!At
            <7>2. i # k - 1
              BY <1>1, <6>2
            <7> QED BY <7>1, <7>2, ListAssumption
          <6> QED BY <6>1, <6>2
        <5> QED BY <4>1, <5>1, <5>2
      <4>3. nextEvent' \in [Elements -> Elements \cup {null}]
        BY <1>3, <4>1
      <4> QED BY <3>6, <4>1, <4>2, <4>3
    <3> QED BY <3>5, <3>6
  <2>4. NoneLate'
    BY <1>1, <2>1 DEF IInv, NoneLate, aux
  <2>5. Held(Queue!Deleted(q, k))' /\ m_firstEvent' \in Elements \cup {null}
    BY <1>1, <2>1, <2>2, <2>3, DeleteStep DEF IInv
  <2>6. Simulated(Queue!Deleted(q, k))
    <3>1. ASSUME events' = Queue!Deleted(q, k) PROVE Queue!Cancel(el)
      BY <2>1, <2>2, <3>1 DEF Queue!Cancel, scheduled, aux
    <3> QED BY <3>1 DEF Simulated, Queue!Next
  <2> QED BY <1>3, <2>3, <2>4, <2>5, <2>6
<1> QED BY <1>4, <1>5

\* Taking the first event out, the clock at its time, is Queue!Deliver.
LEMMA DeliverStep ==
    ASSUME IInv, NEW q, Held(q), events = q, pc # "off", todo = {},
           m_firstEvent # null, popEvent, todo' = todo, resumed' = resumed,
           m_circTime' = eventTime[m_firstEvent]
    PROVE  /\ m_circTime' \in 1 .. MaxTime
           /\ m_firstEvent' \in Elements \cup {null}
           /\ nextEvent' \in [Elements -> Elements \cup {null}]
           /\ eventTime' \in [Elements -> 0 .. MaxTime]
           /\ NoneLate' /\ \E p : Held(p)' /\ Simulated(p)
<1>1. /\ Len(q) \in Nat /\ q \in [1 .. Len(q) -> Elements]
      /\ scheduled \in [Elements -> 0 .. MaxTime]
      /\ scheduled \in [Elements -> Nat]
      /\ m_circTime \in Nat
      /\ Links!InOrder(Elements, Len(q), q, scheduled)
      /\ Links!LinkedIn(q, m_firstEvent, nextEvent)
  BY HeldFacts DEF IInv
<1>2. /\ m_firstEvent = q[1] /\ 1 \in 1 .. Len(q) /\ q[1] \in Elements
      /\ \A i \in 1 .. Len(q) : q[i] \in Elements /\ (i # 1 => q[i] # q[1])
  <2>1. /\ m_firstEvent = IF 1 <= Len(q) THEN q[1] ELSE null
        /\ \A i, j \in 1 .. Len(q) : q[i] = q[j] => i = j
    BY <1>1 DEF Links!LinkedIn, Links!Chain, Links!At
  <2>2. m_firstEvent = q[1] /\ 1 \in 1 .. Len(q)
    BY <1>1, <2>1
  <2> QED BY <1>1, <2>1, <2>2
<1>3. /\ nextEvent \in [Elements -> Elements \cup {null}]
      /\ eventTime \in [Elements -> 0 .. MaxTime]
      /\ m_firstEvent' = nextEvent[q[1]]
      /\ nextEvent' = [nextEvent EXCEPT ![q[1]] = null]
      /\ eventTime' = [eventTime EXCEPT ![q[1]] = 0]
      /\ pc' = "event"
      /\ 0 \in 0 .. MaxTime
  BY <1>2, ListAssumption DEF IInv, TypeOK, popEvent
<1>4. /\ scheduled = eventTime
      /\ scheduled' = [scheduled EXCEPT ![q[1]] = 0]
  BY <1>3 DEF scheduled, Stale
<1>5. /\ m_circTime' \in 1 .. MaxTime /\ m_circTime' \in Nat
      /\ m_circTime' = scheduled[q[1]]
      /\ \A i \in 1 .. Len(q) : i # 1 => m_circTime' <= scheduled[q[i]]
  <2>1. scheduled[q[1]] # 0 /\ \A i \in 1 .. Len(q) : 1 < i => scheduled[q[1]] <= scheduled[q[i]]
    BY <1>1, <1>2 DEF Links!InOrder
  <2> QED BY <1>1, <1>2, <1>4, <2>1
<1>6. /\ nextEvent' \in [Elements -> Elements \cup {null}]
      /\ eventTime' \in [Elements -> 0 .. MaxTime]
      /\ \A i \in 1 .. Len(q) :
              i # 1 => nextEvent'[q[i]] = IF i = 1 - 1 THEN nextEvent[q[1]] ELSE nextEvent[q[i]]
  BY <1>2, <1>3
<1>7. Held(Queue!Deleted(q, 1))' /\ m_firstEvent' \in Elements \cup {null}
  BY <1>2, <1>3, <1>4, <1>6, DeleteStep DEF IInv
<1>9. NoneLate'
  <2> SUFFICES ASSUME NEW e \in Elements, scheduled'[e] # 0
               PROVE  m_circTime' <= scheduled'[e]
    BY DEF NoneLate
  <2>1. e # q[1] /\ scheduled'[e] = scheduled[e]
    BY <1>1, <1>2, <1>4
  <2>2. PICK i \in 1 .. Len(q) : q[i] = e
    BY <1>1, <2>1 DEF Links!InOrder
  <2> QED BY <1>2, <1>5, <2>1, <2>2
<1>10. overtaken' \in {overtaken, overtaken \ {q[1]}}
  BY <1>2 DEF IInv, FrameOpen, popEvent
<1>8. Simulated(Queue!Deleted(q, 1))
  <2>1. ASSUME events' = Queue!Deleted(q, 1) PROVE Queue!Deliver
    <3>1. q # <<>>
      BY <1>2
    <3> QED BY <1>4, <1>5, <1>10, <2>1, <3>1 DEF Queue!Deliver, scheduled
  <2> QED BY <2>1 DEF Simulated, Queue!Next
<1> QED BY <1>5, <1>6, <1>7, <1>8, <1>9

-----------------------------------------------------------------------------

\* At the start nothing is scheduled and the empty list is in order.
LEMMA InitIInv == Init => IInv /\ scheduled = [e \in Elements |-> 0] /\ Held(<<>>)
<1> SUFFICES ASSUME Init PROVE IInv /\ scheduled = [e \in Elements |-> 0] /\ Held(<<>>)
  OBVIOUS
<1>1. TypeOK /\ FrameOpen
  <2>1. /\ pc \in Phases /\ todo \subseteq Elements
        /\ m_circTime \in 1 .. MaxTime /\ endRun \in 0 .. MaxTime
        /\ m_firstEvent \in Elements \cup {null}
        /\ nextEvent \in [Elements -> Elements \cup {null}]
        /\ eventTime \in [Elements -> 0 .. MaxTime]
    BY ListAssumption DEF Init, Phases
  <2>2. m_pendingTime \in [Sleepers -> -MaxTime .. MaxTime]
    BY ListAssumption DEF Init
  <2>3. resumed \in BOOLEAN /\ overtaken \subseteq Elements /\ putOff = {}
    <3>1. \A e \in Sleepers : ~(m_pendingTime[e] < 0)
      BY DEF Init
    <3>2. resumed \in BOOLEAN /\ overtaken \subseteq Elements
      BY DEF Init
    <3> QED BY <3>1, <3>2, Zenon DEF putOff
  <2>4. FrameOpen
    BY <2>3 DEF Init, FrameOpen
  <2> QED BY <2>1, <2>2, <2>3, <2>4 DEF TypeOK
<1>2. scheduled = [e \in Elements |-> 0] /\ NoneLate
  BY DEF Init, scheduled, Stale, NoneLate
<1>3. Held(<<>>)
  BY <1>2 DEF Init, Held, Links!LinkedIn, Links!Chain, Links!At, Links!InOrder
<1> QED BY <1>1, <1>2, <1>3 DEF IInv

\* What every step has to show.
Preserved == TypeOK' /\ FrameOpen' /\ NoneLate' /\ \E p : Held(p)' /\ Simulated(p)

\* Action by action.
LEMMA NextStep ==
    ASSUME IInv, NEW q, Held(q), events = q, Next
    PROVE  Preserved
<1>0. /\ Len(q) \in Nat /\ q \in [1 .. Len(q) -> Elements]
      /\ scheduled \in [Elements -> 0 .. MaxTime]
      /\ scheduled \in [Elements -> Nat]
      /\ m_circTime \in Nat
      /\ Links!InOrder(Elements, Len(q), q, scheduled)
      /\ Links!LinkedIn(q, m_firstEvent, nextEvent)
      /\ TypeOK /\ FrameOpen /\ NoneLate
  BY HeldFacts DEF IInv
<1>a. /\ MaxTime \in Nat /\ MaxTime # 0 /\ 0 \in 0 .. MaxTime /\ 1 \in 1 .. MaxTime
      /\ m_psPF \in Nat /\ Delays \subseteq Nat /\ Sleepers \subseteq Elements
  BY ListAssumption
<1>b. ASSUME pc' = "off" PROVE scheduled' = [e \in Elements |-> 0]
  BY <1>b DEF scheduled, Stale
<1>c. ASSUME m_pendingTime' = m_pendingTime PROVE putOff' = putOff
  BY <1>c DEF putOff
<1>d. putOff \subseteq overtaken /\ overtaken \subseteq Elements
  BY <1>0 DEF FrameOpen, TypeOK
<1>1. CASE StartSim
  <2>1. scheduled' = [e \in Elements |-> 0]
    BY <1>1 DEF StartSim, scheduled, Stale
  <2>2. Held(<<>>)' /\ NoneLate'
    BY <1>0, <1>1, <2>1, EmptyStep DEF StartSim, TypeOK
  <2>3. Simulated(<<>>)
    <3>1. ASSUME events' = <<>> PROVE Queue!Discard
      BY <1>1, <1>d, <2>1, <3>1 DEF StartSim, Queue!Discard, scheduled
    <3> QED BY <3>1 DEF Simulated, Queue!Next
  <2>4. TypeOK' /\ FrameOpen'
    BY <1>0, <1>1, <1>a, <1>c, <1>d DEF StartSim, TypeOK, FrameOpen, Phases
  <2> QED BY <2>2, <2>3, <2>4 DEF Preserved
<1>2. CASE Initialised
  <2>1. scheduled' = scheduled
    BY <1>2 DEF Initialised, list, scheduled, Stale
  <2>2. TypeOK' /\ FrameOpen'
    BY <1>0, <1>2, <1>c DEF Initialised, list, aux, TypeOK, FrameOpen, Phases
  <2> QED BY <1>0, <1>2, <2>1, <2>2, StutterStep DEF Initialised, list, Preserved
<1>3. CASE Stamped
  <2>1. scheduled' = scheduled
    BY <1>3 DEF Stamped, list, scheduled, Stale
  <2>2. TypeOK' /\ FrameOpen'
    BY <1>0, <1>3, <1>c DEF Stamped, list, aux, TypeOK, FrameOpen, Phases
  <2> QED BY <1>0, <1>3, <2>1, <2>2, StutterStep DEF Stamped, list, Preserved
<1>4. ASSUME NEW el \in Elements, InitElement(el) PROVE Preserved
  <2>1. /\ pc = "init" /\ pc' = "init" /\ el \in todo /\ todo' = todo \ {el}
        /\ m_circTime' = m_circTime /\ endRun' = endRun /\ m_pendingTime' = m_pendingTime
        /\ UNCHANGED aux /\ resumed' = resumed /\ overtaken' = overtaken /\ putOff' = putOff
    BY <1>4, <1>c DEF InitElement, aux
  <2> DEFINE fresh == [eventTime EXCEPT ![el] = 0]
  <2>2. fresh \in [Elements -> 0 .. MaxTime] /\ fresh \in [Elements -> Nat]
    <3>1. 0 .. MaxTime \subseteq Nat
      OBVIOUS
    <3> QED BY <1>0, <1>a, <3>1 DEF TypeOK
  <2>3. scheduled[el] = 0 /\ \A e \in Elements : scheduled[e] # 0 => fresh[e] = scheduled[e]
    BY <1>0, <2>1 DEF scheduled, Stale, TypeOK
  <2>4. CASE eventTime' = fresh /\ UNCHANGED <<m_firstEvent, nextEvent>>
    <3>1. scheduled' = scheduled
      BY <1>0, <2>1, <2>4 DEF scheduled, Stale, TypeOK
    <3>2. TypeOK' /\ FrameOpen'
      BY <1>0, <2>1, <2>2, <2>4 DEF TypeOK, FrameOpen
    <3> QED BY <1>0, <2>1, <2>4, <3>1, <3>2, StutterStep DEF Preserved
  <2>5. ASSUME NEW d \in Delays, m_circTime + d <= MaxTime,
               insert(fresh, m_circTime + d, el)
        PROVE  Preserved
    <3>1. m_circTime + d \in 1 .. MaxTime /\ m_circTime <= m_circTime + d
      BY <1>0, <1>a, <2>5 DEF TypeOK
    <3>2. eventTime' = [fresh EXCEPT ![el] = m_circTime + d]
      BY <2>5 DEF insert
    <3>3. scheduled' = [scheduled EXCEPT ![el] = m_circTime + d]
      BY <1>0, <2>1, <3>2 DEF scheduled, Stale, TypeOK
    <3>4. /\ m_firstEvent' \in Elements \cup {null}
          /\ nextEvent' \in [Elements -> Elements \cup {null}]
          /\ NoneLate' /\ \E p : Held(p)' /\ Simulated(p)
      <4> DEFINE t == m_circTime + d
      <4> HIDE DEF fresh, t
      <4>1. /\ t \in 1 .. MaxTime /\ m_circTime <= t /\ insert(fresh, t, el)
            /\ scheduled' = [scheduled EXCEPT ![el] = t]
        BY <2>5, <3>1, <3>3 DEF t
      <4> QED BY <1>0, <2>1, <2>2, <2>3, <4>1, ScheduleStep
    <3>5. TypeOK' /\ FrameOpen'
      <4>1. eventTime' \in [Elements -> 0 .. MaxTime]
        BY <2>2, <3>1, <3>2
      <4> QED BY <1>0, <2>1, <3>4, <4>1 DEF TypeOK, FrameOpen
    <3> QED BY <3>4, <3>5 DEF Preserved
  <2> QED BY <1>4, <2>4, <2>5 DEF InitElement
<1>5. ASSUME NEW el \in Elements, NEW t \in 1 .. MaxTime, pc \in Calling,
             el \in overtaken \/ m_circTime <= t,
             addEventAt(t, el), UNCHANGED <<pc, todo, m_circTime, endRun, aux>>,
             m_pendingTime' \in [Sleepers -> -MaxTime .. MaxTime], putOff' \subseteq overtaken
      PROVE  Preserved
  <2>1. todo = {} /\ pc # "off"
    BY <1>0, <1>5 DEF FrameOpen, Calling
  <2>2. scheduled = eventTime
    BY <1>0, <2>1 DEF scheduled, Stale, TypeOK
  <2>3. eventTime[el] = 0 /\ insert(eventTime, t, el) /\ eventTime' = [eventTime EXCEPT ![el] = t]
    BY <1>5 DEF addEventAt, insert
  <2>4. scheduled' = [scheduled EXCEPT ![el] = t] /\ eventTime' \in [Elements -> 0 .. MaxTime]
    <3>1. eventTime \in [Elements -> 0 .. MaxTime] /\ eventTime' \in [Elements -> 0 .. MaxTime]
      BY <1>0, <1>5, <2>3 DEF TypeOK
    <3>2. scheduled' = eventTime'
      BY <1>5, <2>1, <3>1 DEF scheduled, Stale
    <3> QED BY <2>2, <2>3, <3>1, <3>2
  <2>5. /\ m_firstEvent' \in Elements \cup {null}
        /\ nextEvent' \in [Elements -> Elements \cup {null}]
        /\ NoneLate' /\ \E p : Held(p)' /\ Simulated(p)
    <3>1. eventTime \in [Elements -> Nat] /\ \A e \in Elements : scheduled[e] # 0 => eventTime[e] = scheduled[e]
      BY <1>0, <2>2
    <3> QED BY <1>0, <1>5, <2>2, <2>3, <2>4, <3>1, ScheduleStep
  <2>6. TypeOK' /\ FrameOpen'
    BY <1>0, <1>5, <2>4, <2>5 DEF TypeOK, FrameOpen, aux
  <2> QED BY <2>5, <2>6 DEF Preserved
<1>6. ASSUME NEW el \in Elements, NEW d \in Delays, AddEvent(el, d) PROVE Preserved
  <2>1. m_circTime + d \in 1 .. MaxTime /\ m_circTime <= m_circTime + d
    BY <1>0, <1>6, <1>a DEF AddEvent, TypeOK
  <2>2. /\ UNCHANGED <<pc, todo, m_circTime, endRun, aux>> /\ pc \in Calling
        /\ addEventAt(m_circTime + d, el)
        /\ m_pendingTime' = m_pendingTime
    BY <1>6 DEF AddEvent
  <2>3. m_pendingTime' \in [Sleepers -> -MaxTime .. MaxTime] /\ putOff' \subseteq overtaken
    BY <1>0, <1>c, <1>d, <2>2 DEF TypeOK
  <2> QED BY <1>5, <2>1, <2>2, <2>3
<1>7. ASSUME NEW el \in Elements, cancelEvents(el), pc \in Calling \cup {"stop", "off"},
             UNCHANGED <<pc, todo, m_circTime, endRun, aux>>,
             m_pendingTime' \in [Sleepers -> -MaxTime .. MaxTime], putOff' \subseteq overtaken
      PROVE  Preserved
  <2>1. todo = {}
    BY <1>0, <1>7 DEF FrameOpen, Calling
  <2>2. /\ m_firstEvent' \in Elements \cup {null}
        /\ nextEvent' \in [Elements -> Elements \cup {null}]
        /\ eventTime' \in [Elements -> 0 .. MaxTime]
        /\ NoneLate' /\ \E p : Held(p)' /\ Simulated(p)
    BY <1>7, <2>1, CancelStep
  <2>3. TypeOK' /\ FrameOpen'
    BY <1>0, <1>7, <2>2 DEF TypeOK, FrameOpen, aux
  <2> QED BY <2>2, <2>3 DEF Preserved
<1>8. ASSUME NEW el \in Elements, CancelEvents(el) PROVE Preserved
  <2>1. /\ UNCHANGED <<pc, todo, m_circTime, endRun, aux>>
        /\ pc \in Calling \cup {"stop", "off"} /\ cancelEvents(el)
        /\ m_pendingTime' = m_pendingTime
    BY <1>8 DEF CancelEvents
  <2>2. m_pendingTime' \in [Sleepers -> -MaxTime .. MaxTime] /\ putOff' \subseteq overtaken
    BY <1>0, <1>c, <1>d, <2>1 DEF TypeOK
  <2> QED BY <1>7, <2>1, <2>2
<1>9. ASSUME UNCHANGED <<pc, todo, m_circTime, endRun, aux>>, UNCHANGED list,
             m_pendingTime' \in [Sleepers -> -MaxTime .. MaxTime], putOff' \subseteq overtaken
      PROVE  Preserved
  <2>1. scheduled' = scheduled
    BY <1>9 DEF list, scheduled, Stale
  <2>2. TypeOK' /\ FrameOpen'
    BY <1>0, <1>9 DEF list, aux, TypeOK, FrameOpen
  <2> QED BY <1>0, <1>9, <2>1, <2>2, StutterStep DEF list, Preserved
<1>10. ASSUME NEW el \in Sleepers, PauseEvents(el) PROVE Preserved
  <2>1. el \in Elements
    BY <1>a
  <2>2. /\ pc \in Calling /\ UNCHANGED <<pc, todo, m_circTime, endRun, aux>>
        /\ m_pendingTime \in [Sleepers -> -MaxTime .. MaxTime]
    BY <1>0, <1>10 DEF PauseEvents, TypeOK
  <2>3. CASE eventTime[el] # 0
    <3>1. cancelEvents(el) /\ m_pendingTime' = [m_pendingTime EXCEPT ![el] = eventTime[el] - m_circTime]
      BY <1>10, <2>3 DEF PauseEvents
    <3>2. /\ eventTime[el] - m_circTime \in -MaxTime .. MaxTime
          /\ el \in overtaken \/ ~(eventTime[el] - m_circTime < 0)
      <4>1. scheduled = eventTime
        BY <1>0, <2>2 DEF scheduled, Stale, FrameOpen, Calling, TypeOK
      <4>2. /\ eventTime[el] \in 0 .. MaxTime /\ m_circTime \in 1 .. MaxTime
            /\ el \in overtaken \/ m_circTime <= eventTime[el]
        BY <1>0, <2>1, <2>3, <4>1 DEF NoneLate, TypeOK
      <4> QED BY <1>a, <4>2
    <3>3. m_pendingTime' \in [Sleepers -> -MaxTime .. MaxTime]
      BY <2>2, <3>1, <3>2
    <3>4. putOff' \subseteq overtaken
      BY <1>d, <2>2, <3>1, <3>2 DEF putOff
    <3> QED BY <1>7, <2>1, <2>2, <3>1, <3>3, <3>4
  <2>4. CASE eventTime[el] = 0
    <3>1. m_pendingTime' = [m_pendingTime EXCEPT ![el] = 0] /\ UNCHANGED list
      BY <1>10, <2>4 DEF PauseEvents
    <3>2. m_pendingTime' \in [Sleepers -> -MaxTime .. MaxTime] /\ putOff' \subseteq overtaken
      BY <1>a, <1>d, <2>2, <3>1 DEF putOff
    <3> QED BY <1>9, <2>2, <3>1, <3>2
  <2> QED BY <2>3, <2>4
<1>11. ASSUME NEW el \in Sleepers, ResumeEvents(el) PROVE Preserved
  <2>1. /\ pc \in Calling /\ UNCHANGED <<pc, todo, m_circTime, endRun, aux>>
        /\ m_pendingTime \in [Sleepers -> -MaxTime .. MaxTime]
        /\ m_pendingTime' = [m_pendingTime EXCEPT ![el] = 0]
        /\ el \in Elements
    BY <1>0, <1>11, <1>a DEF ResumeEvents, TypeOK
  <2>2. m_pendingTime' \in [Sleepers -> -MaxTime .. MaxTime] /\ putOff' \subseteq overtaken
    BY <1>a, <1>d, <2>1 DEF putOff
  <2>3. CASE eventTime[el] = 0
    <3>1. /\ m_circTime + m_pendingTime[el] \in 1 .. MaxTime
          /\ el \in overtaken \/ m_circTime <= m_circTime + m_pendingTime[el]
      <4>1. m_pendingTime[el] \in -MaxTime .. MaxTime /\ m_circTime \in Nat
        BY <1>0, <2>1
      <4>2. m_circTime + m_pendingTime[el] \in 1 .. MaxTime
        BY <1>11 DEF ResumeEvents
      <4>3. m_pendingTime[el] < 0 => el \in overtaken
        BY <1>d DEF putOff
      <4> QED BY <1>a, <4>1, <4>2, <4>3
    <3>2. addEventAt(m_circTime + m_pendingTime[el], el)
      BY <1>11, <2>3 DEF ResumeEvents
    <3> QED BY <1>5, <2>1, <2>2, <3>1, <3>2
  <2>4. CASE eventTime[el] # 0
    <3>1. UNCHANGED list
      BY <1>11, <2>4 DEF ResumeEvents
    <3> QED BY <1>9, <2>1, <2>2, <3>1
  <2> QED BY <2>3, <2>4
<1>12. CASE RunCircuit
  <2>1. scheduled' = scheduled
    BY <1>12 DEF RunCircuit, list, scheduled, Stale
  <2>2. TypeOK' /\ FrameOpen'
    <3>1. endRun' \in 0 .. MaxTime /\ m_circTime <= endRun'
      BY <1>0, <1>12, <1>a DEF RunCircuit
    <3> QED BY <1>0, <1>12, <1>c, <3>1 DEF RunCircuit, list, aux, TypeOK, FrameOpen, Phases
  <2> QED BY <1>0, <1>12, <2>1, <2>2, StutterStep DEF RunCircuit, list, Preserved
<1>13. ASSUME pc \in {"loop", "solve", "event"}, m_firstEvent # null, popEvent,
              m_circTime' = eventTime[m_firstEvent], eventTime[m_firstEvent] <= endRun,
              UNCHANGED <<todo, endRun, m_pendingTime, resumed>>
       PROVE  Preserved
  <2>1. pc # "off" /\ todo = {} /\ todo' = todo
    BY <1>0, <1>13 DEF FrameOpen
  <2>2. /\ m_circTime' \in 1 .. MaxTime
        /\ m_firstEvent' \in Elements \cup {null}
        /\ nextEvent' \in [Elements -> Elements \cup {null}]
        /\ eventTime' \in [Elements -> 0 .. MaxTime]
        /\ NoneLate' /\ \E p : Held(p)' /\ Simulated(p)
    BY <1>13, <2>1, DeliverStep
  <2>3. TypeOK' /\ FrameOpen'
    <3>1. putOff' \subseteq overtaken' /\ overtaken' \subseteq Elements
      BY <1>13, <1>a, <1>c, <1>d DEF popEvent, putOff
    <3> QED BY <1>0, <1>13, <2>1, <2>2, <3>1 DEF TypeOK, FrameOpen, Phases, popEvent
  <2> QED BY <2>2, <2>3 DEF Preserved
<1>14. CASE NextTimeStep
  BY <1>13, <1>14 DEF NextTimeStep
<1>15. CASE SameTimeStep
  BY <1>0, <1>13, <1>15 DEF SameTimeStep, FrameOpen
<1>16. CASE Solve
  <2>1. scheduled' = scheduled
    BY <1>16 DEF Solve, list, scheduled, Stale
  <2>2. TypeOK' /\ FrameOpen'
    BY <1>0, <1>16, <1>c DEF Solve, list, aux, TypeOK, FrameOpen, Phases
  <2> QED BY <1>0, <1>16, <2>1, <2>2, StutterStep DEF Solve, list, Preserved
<1>17. CASE EndFrame
  <2>1. /\ pc \in {"loop", "solve"} /\ pc' = "idle" /\ m_circTime' \in {m_circTime, endRun}
        /\ endRun' = 0
        /\ UNCHANGED <<todo, m_firstEvent, nextEvent, eventTime, m_pendingTime>>
        /\ UNCHANGED aux
        /\ m_firstEvent # null => eventTime[m_firstEvent] > endRun
    BY <1>17 DEF EndFrame, list
  <2>2. scheduled' = scheduled
    BY <2>1 DEF scheduled, Stale
  <2>3. endRun \in 1 .. MaxTime /\ m_circTime <= endRun /\ todo = {}
    BY <1>0, <1>a, <2>1 DEF TypeOK, FrameOpen
  <2>4. \A i \in 1 .. Len(q) : endRun < scheduled[q[i]]
    <3> SUFFICES ASSUME NEW i \in 1 .. Len(q) PROVE endRun < scheduled[q[i]]
      OBVIOUS
    <3>1. 1 \in 1 .. Len(q) /\ m_firstEvent = q[1] /\ q[1] \in Elements /\ q[i] \in Elements
      BY <1>0 DEF Links!LinkedIn, Links!Chain, Links!At
    <3>2. m_firstEvent # null
      BY <3>1, ListAssumption
    <3>3. scheduled[q[1]] = eventTime[q[1]]
      BY <2>1, <2>3, <3>1 DEF scheduled, Stale
    <3>4. scheduled[q[1]] <= scheduled[q[i]]
      <4>1. i = 1 \/ 1 < i
        BY <1>0
      <4>2. scheduled[q[1]] \in Nat
        BY <1>0, <3>1
      <4> QED BY <1>0, <3>1, <4>1, <4>2 DEF Links!InOrder
    <3>5. scheduled[q[1]] \in Nat /\ scheduled[q[i]] \in Nat /\ endRun \in Nat
      BY <1>0, <2>3, <3>1
    <3> QED BY <2>1, <3>1, <3>2, <3>3, <3>4, <3>5
  <2>5. CASE m_circTime' = m_circTime
    <3>1. TypeOK' /\ FrameOpen'
      BY <1>0, <1>a, <1>c, <2>1, <2>3, <2>5 DEF TypeOK, FrameOpen, Phases, aux
    <3> QED BY <1>0, <2>1, <2>2, <2>5, <3>1, StutterStep DEF Preserved
  <2>6. CASE m_circTime' = endRun
    <3>1. Held(q)'
      BY <1>0, <2>1, <2>2, KeepStep
    <3>2. Simulated(q)
      <4>1. ASSUME events' = q PROVE Queue!PassTime(endRun)
        BY <2>1, <2>2, <2>3, <2>4, <2>6, <4>1 DEF Queue!PassTime, scheduled, aux
      <4> QED BY <2>3, <4>1 DEF Simulated, Queue!Next
    <3>3. NoneLate'
      <4> SUFFICES ASSUME NEW e \in Elements, scheduled[e] # 0 PROVE endRun <= scheduled[e]
        BY <2>1, <2>2, <2>6 DEF NoneLate, aux
      <4>1. PICK i \in 1 .. Len(q) : q[i] = e
        BY <1>0 DEF Links!InOrder
      <4>2. endRun < scheduled[e] /\ scheduled[e] \in Nat /\ endRun \in Nat
        BY <1>0, <2>3, <2>4, <4>1
      <4> QED BY <4>2
    <3>4. TypeOK' /\ FrameOpen'
      BY <1>0, <1>a, <1>c, <2>1, <2>3, <2>6 DEF TypeOK, FrameOpen, Phases, aux
    <3> QED BY <3>1, <3>2, <3>3, <3>4 DEF Preserved
  <2> QED BY <2>1, <2>5, <2>6
<1>18. CASE BreakFrame
  <2>1. scheduled' = scheduled
    BY <1>18 DEF BreakFrame, list, scheduled, Stale
  <2>2. TypeOK' /\ FrameOpen'
    BY <1>0, <1>18, <1>a, <1>c DEF BreakFrame, list, aux, TypeOK, FrameOpen, Phases
  <2> QED BY <1>0, <1>18, <2>1, <2>2, StutterStep DEF BreakFrame, list, Preserved
<1>21. CASE ResumeSim
  <2>1. scheduled' = scheduled
    BY <1>21 DEF ResumeSim, list, scheduled, Stale
  <2>2. TypeOK' /\ FrameOpen'
    BY <1>0, <1>21, <1>c DEF ResumeSim, list, TypeOK, FrameOpen
  <2>3. Held(q)' /\ NoneLate'
    BY <1>0, <1>21, <2>1, KeepStep DEF ResumeSim, list, NoneLate
  <2>4. Simulated(q)
    <3>1. ASSUME events' = q PROVE Queue!Resume
      BY <1>21, <2>1, <3>1 DEF ResumeSim, list, Queue!Resume, scheduled
    <3> QED BY <3>1 DEF Simulated, Queue!Next
  <2> QED BY <2>2, <2>3, <2>4 DEF Preserved
<1>22. CASE LeaveFrame
  <2>1. /\ pc = "broken" /\ pc' = "idle" /\ endRun' = 0 /\ resumed' = FALSE
        /\ UNCHANGED <<todo, m_firstEvent, nextEvent, eventTime, m_pendingTime>>
    BY <1>22 DEF LeaveFrame, list
  <2>2. scheduled' = scheduled
    BY <2>1 DEF scheduled, Stale
  <2>3. endRun \in 1 .. MaxTime /\ m_circTime <= endRun /\ todo = {} /\ scheduled = eventTime
    BY <1>0, <1>a, <2>1 DEF TypeOK, FrameOpen, scheduled, Stale
  <2>4. Held(q)'
    BY <1>0, <2>1, <2>2, KeepStep
  <2>5. CASE resumed
    <3>1. /\ m_circTime' = endRun
          /\ overtaken' = overtaken \cup {e \in Elements : scheduled[e] # 0 /\ scheduled[e] < endRun}
      BY <1>22, <2>3, <2>5 DEF LeaveFrame
    <3>2. NoneLate'
      <4> SUFFICES ASSUME NEW e \in Elements, scheduled[e] # 0
                   PROVE  e \in overtaken' \/ endRun <= scheduled[e]
        BY <2>2, <3>1 DEF NoneLate
      <4>1. scheduled[e] \in Nat /\ endRun \in Nat
        BY <1>0, <2>3
      <4> QED BY <3>1, <4>1
    <3>3. Simulated(q)
      <4>1. ASSUME events' = q PROVE Queue!Overtake(endRun)
        <5>1. overtaken' = overtaken \cup
                 {e \in Elements : (IF Stale(e) THEN 0 ELSE eventTime[e]) # 0
                                     /\ (IF Stale(e) THEN 0 ELSE eventTime[e]) < endRun}
          BY <2>1, <2>3, <3>1 DEF Stale
        <5> QED BY <2>1, <2>2, <2>3, <2>5, <3>1, <4>1, <5>1 DEF Queue!Overtake, scheduled
      <4> QED BY <2>3, <4>1 DEF Simulated, Queue!Next
    <3>4. TypeOK' /\ FrameOpen'
      <4>1. overtaken' \subseteq Elements /\ putOff' \subseteq overtaken'
        BY <1>c, <1>d, <2>1, <3>1
      <4> QED BY <1>0, <1>a, <2>1, <2>3, <3>1, <4>1 DEF TypeOK, FrameOpen, Phases
    <3> QED BY <2>4, <3>2, <3>3, <3>4 DEF Preserved
  <2>6. CASE ~resumed
    <3>1. m_circTime' = m_circTime /\ overtaken' = overtaken /\ resumed' = resumed
      BY <1>0, <1>22, <2>1, <2>6 DEF LeaveFrame, TypeOK
    <3>2. TypeOK' /\ FrameOpen'
      BY <1>0, <1>a, <1>c, <1>d, <2>1, <2>3, <3>1 DEF TypeOK, FrameOpen, Phases
    <3> QED BY <1>0, <2>1, <2>2, <3>1, <3>2, StutterStep DEF aux, Preserved
  <2> QED BY <2>5, <2>6
<1>19. CASE StopSim
  <2>1. scheduled' = scheduled
    BY <1>19 DEF StopSim, list, scheduled, Stale
  <2>2. TypeOK' /\ FrameOpen'
    BY <1>0, <1>19, <1>c DEF StopSim, list, aux, TypeOK, FrameOpen, Phases
  <2> QED BY <1>0, <1>19, <2>1, <2>2, StutterStep DEF StopSim, list, Preserved
<1>20. CASE Stopped
  <2>1. scheduled' = [e \in Elements |-> 0]
    BY <1>20, <1>b DEF Stopped
  <2>2. Held(<<>>)' /\ NoneLate'
    BY <1>0, <1>20, <2>1, EmptyStep DEF Stopped, TypeOK
  <2>3. Simulated(<<>>)
    <3>1. ASSUME events' = <<>> PROVE Queue!Discard
      BY <1>20, <2>1, <3>1 DEF Stopped, Queue!Discard, scheduled, aux
    <3> QED BY <3>1 DEF Simulated, Queue!Next
  <2>4. TypeOK' /\ FrameOpen'
    BY <1>0, <1>20, <1>c DEF Stopped, aux, TypeOK, FrameOpen, Phases
  <2> QED BY <2>2, <2>3, <2>4 DEF Preserved
<1> QED BY <1>1, <1>2, <1>3, <1>4, <1>6, <1>8, <1>10, <1>11, <1>12, <1>14, <1>15,
           <1>16, <1>17, <1>18, <1>19, <1>20, <1>21, <1>22 DEF Next

\* Whatever sequence the pointers spell is the one the model calls events.
LEMMA HeldEvents == \A q : Held(q) => events = q
  BY ChainEvents DEF Held, Links!LinkedIn

\* Every step preserves the invariant and is a step of the queue, or none.
LEMMA StepIInv ==
    IInv /\ [Next]_vars => IInv' /\ \E p : Held(p)' /\ Simulated(p)
<1> SUFFICES ASSUME IInv, [Next]_vars PROVE IInv' /\ \E p : Held(p)' /\ Simulated(p)
  OBVIOUS
<1>1. PICK q : Held(q)
  BY DEF IInv
<1>2. events = q
  BY <1>1, HeldEvents
<1>3. CASE Next
  BY <1>1, <1>2, <1>3, NextStep DEF Preserved, IInv
<1>4. CASE UNCHANGED vars
  <2>1. scheduled' = scheduled
    BY <1>4 DEF vars, scheduled, Stale
  <2>2. TypeOK' /\ FrameOpen'
    BY <1>4 DEF IInv, vars, aux, TypeOK, FrameOpen, putOff
  <2>3. NoneLate' /\ \E p : Held(p)' /\ Simulated(p)
    BY <1>1, <1>2, <1>4, <2>1, StutterStep DEF vars, IInv
  <2> QED BY <2>2, <2>3 DEF IInv
<1> QED BY <1>3, <1>4

\* The invariant holds in every state.
LEMMA InvariantHolds == Spec => []IInv
  BY InitIInv, StepIInv, PTL DEF Spec

(***************************************************************************)
(* Type correctness: every pointer is an element's or null, every time one *)
(* that was asked for, and pauseEvents' remainder no larger.               *)
(***************************************************************************)
THEOREM TypeCorrect == Spec => []TypeOK
<1>1. IInv => TypeOK
  BY DEF IInv
<1> QED BY <1>1, InvariantHolds, PTL

(***************************************************************************)
(* The walk of addEventAt and cancelEvents always comes to an end, and the *)
(* list holds the elements that have an event and no others, nothing of an *)
(* earlier simulation among them.                                          *)
(***************************************************************************)
THEOREM ListStaysIntact == Spec => []ListIntact
<1>1. IInv => ListIntact
  <2> SUFFICES ASSUME IInv PROVE ListIntact
    OBVIOUS
  <2>1. PICK q : Held(q)
    BY DEF IInv
  <2>2. /\ Len(q) \in Nat /\ q \in [1 .. Len(q) -> Elements]
        /\ scheduled \in [Elements -> Nat]
        /\ Links!InOrder(Elements, Len(q), q, scheduled)
        /\ Links!LinkedIn(q, m_firstEvent, nextEvent)
    BY <2>1, HeldFacts DEF IInv
  <2>3. Len(q) <= Cardinality(Elements) /\ Cardinality(Elements) \in Nat
    BY <2>2, ChainLength DEF Links!LinkedIn, Links!Chain
  <2>4. reached[Cardinality(Elements)] = null
    <3>1. ~(Cardinality(Elements) + 1 <= Len(q)) /\ Cardinality(Elements) \in 0 .. Cardinality(Elements)
      BY <2>2, <2>3
    <3> QED BY <2>2, <3>1, Reached DEF Links!LinkedIn, Links!At
  <2>5. Linked = {q[i] : i \in 1 .. Len(q)}
    BY <2>2, ChainLinked DEF Links!LinkedIn
  <2>6. \A e \in Elements : e \in Linked <=> scheduled[e] # 0
    BY <2>2, <2>5 DEF Links!InOrder
  <2>7. \A e \in Elements : scheduled[e] = IF Stale(e) THEN 0 ELSE eventTime[e]
    BY DEF scheduled
  <2>8. Linked \subseteq Elements
    BY <2>2, <2>5
  <2> QED BY <2>4, <2>6, <2>7, <2>8 DEF ListIntact
<1> QED BY <1>1, InvariantHolds, PTL

(***************************************************************************)
(* The pointers of simulator.cpp and e-element.cpp implement EventQueue:   *)
(* what EventQueueProofs proves of the queue (events in order, none lost,  *)
(* none late and the clock never backwards but for what it overtook when   *)
(* the simulation was resumed in a broken frame) holds of the linked list. *)
(***************************************************************************)
THEOREM ListImplementsQueue == Spec => Implements
<1>1. Init => Queue!Init
  <2> SUFFICES ASSUME Init PROVE Queue!Init
    OBVIOUS
  <2>1. scheduled = [e \in Elements |-> 0] /\ events = <<>>
    BY InitIInv, HeldEvents
  <2> QED BY <2>1 DEF Init, Queue!Init, scheduled
<1>2. (\A q : Held(q) => events = q)' /\ (\E p : Held(p)' /\ Simulated(p)) => [Queue!Next]_Queue!vars
  BY DEF Simulated
<1> QED BY <1>1, <1>2, InitIInv, StepIInv, HeldEvents, PTL DEF Spec, Implements, Queue!Spec

=============================================================================
