------------------------- MODULE EventQueueProofs -------------------------
(***************************************************************************)
(* The promises of EventQueue hold for every set of elements and times.    *)
(* Below them are lemmas about lists that are threaded through what they   *)
(* hold, for the modules that have such lists.                             *)
(***************************************************************************)
EXTENDS EventQueue, Integers, NaturalsInduction, WellFoundedInduction, TLAPS

CONSTANT null   \* no pointer

\* NothingLate, element by element.
NoneLate == \A e \in Elements : due[e] # 0 => e \in overtaken \/ now <= due[e]

IInv == TypeOK /\ Sorted /\ Distinct /\ QueuedIffDue /\ NothingLate /\ NoneLate

(***************************************************************************)
(* The same invariant of a queue given as a function on 1 .. n, so that the *)
(* two lemmas about inserting and deleting are about functions and         *)
(* arithmetic only.                                                        *)
(***************************************************************************)
InOrder(E, n, q, d) ==
    /\ \A i, j \in 1 .. n : i < j => d[q[i]] <= d[q[j]]
    /\ \A i, j \in 1 .. n : q[i] = q[j] => i = j
    /\ \A e \in E : d[e] # 0 <=> \E i \in 1 .. n : q[i] = e

(***************************************************************************)
(* p and f are q and d with an event for e, due at t, put in at position k. *)
(***************************************************************************)
Insertion(E, n, q, d, e, t, k, p, f) ==
    /\ n \in Nat /\ q \in [1 .. n -> E] /\ d \in [E -> Nat]
    /\ InOrder(E, n, q, d)
    /\ e \in E /\ d[e] = 0
    /\ t \in Nat /\ t # 0
    /\ k \in 1 .. n + 1
    /\ \A i \in 1 .. k - 1 : d[q[i]] < t
    /\ \A i \in k .. n : t <= d[q[i]]
    /\ p = [i \in 1 .. n + 1 |->
               IF i < k THEN q[i] ELSE IF i = k THEN e ELSE q[i - 1]]
    /\ f = [d EXCEPT ![e] = t]

(***************************************************************************)
(* p and f are q and d without the event at position k.                    *)
(***************************************************************************)
Deletion(E, n, q, d, k, p, f) ==
    /\ n \in Nat /\ q \in [1 .. n -> E] /\ d \in [E -> Nat]
    /\ InOrder(E, n, q, d)
    /\ k \in 1 .. n
    /\ p = [i \in 1 .. n - 1 |-> IF i < k THEN q[i] ELSE q[i + 1]]
    /\ f = [d EXCEPT ![q[k]] = 0]

\* A sequence as a function on its indices.
LEMMA SeqIsFunction ==
    ASSUME NEW S, NEW s \in Seq(S)
    PROVE  Len(s) \in Nat /\ s \in [1 .. Len(s) -> S]
  OBVIOUS

\* And back.
LEMMA FunctionIsSeq ==
    ASSUME NEW S, NEW n \in Nat, NEW s \in [1 .. n -> S]
    PROVE  s \in Seq(S) /\ Len(s) = n
  OBVIOUS

\* The types, and the invariant in terms of places in the queue, as the lemmas
\* about sequences have them.
LEMMA InvariantInOrder ==
    ASSUME TypeOK
    PROVE  /\ Len(queue) \in Nat
           /\ queue \in [1 .. Len(queue) -> Elements]
           /\ due \in [Elements -> Nat]
           /\ now \in Nat
           /\ (Sorted /\ Distinct /\ QueuedIffDue) <=>
                  InOrder(Elements, Len(queue), queue, due)
<1>1. Len(queue) \in Nat /\ queue \in [1 .. Len(queue) -> Elements]
  BY SeqIsFunction DEF TypeOK
<1>2. due \in [Elements -> Nat] /\ now \in Nat
  <2>1. Time \cup {0} \subseteq Nat
    BY TimeAssumption
  <2> QED BY <2>1 DEF TypeOK
<1>3. (Sorted /\ Distinct /\ QueuedIffDue) <=>
          InOrder(Elements, Len(queue), queue, due)
  BY Zenon DEF Sorted, Distinct, QueuedIffDue, InOrder
<1> QED BY <1>1, <1>2, <1>3

(***************************************************************************)
(* An event put in before everything due at its time or later.             *)
(***************************************************************************)
LEMMA InsertInOrder ==
    ASSUME NEW E, NEW n, NEW q, NEW d, NEW e, NEW t, NEW k, NEW p, NEW f,
           Insertion(E, n, q, d, e, t, k, p, f)
    PROVE  p \in [1 .. n + 1 -> E] /\ InOrder(E, n + 1, p, f)
<1> /\ n \in Nat /\ q \in [1 .. n -> E] /\ d \in [E -> Nat]
    /\ e \in E /\ t \in Nat /\ k \in 1 .. n + 1 /\ d[e] = 0 /\ t # 0
    /\ \A i \in 1 .. k - 1 : d[q[i]] < t
    /\ \A i \in k .. n : t <= d[q[i]]
    /\ InOrder(E, n, q, d)
  BY DEF Insertion
<1>0. /\ p = [i \in 1 .. n + 1 |->
               IF i < k THEN q[i] ELSE IF i = k THEN e ELSE q[i - 1]]
      /\ f = [d EXCEPT ![e] = t]
  BY DEF Insertion
<1>1. /\ p[k] = e
      /\ \A i \in 1 .. n + 1 : i < k => i \in 1 .. n /\ p[i] = q[i]
      /\ \A i \in 1 .. n + 1 : i > k => i - 1 \in 1 .. n /\ p[i] = q[i - 1]
  BY <1>0
<1>2. p \in [1 .. n + 1 -> E]
  <2>1. ASSUME NEW i \in 1 .. n + 1
        PROVE  (IF i < k THEN q[i] ELSE IF i = k THEN e ELSE q[i - 1]) \in E
    OBVIOUS
  <2> QED BY <1>0, <2>1
<1>3. \A i \in 1 .. n : q[i] \in E /\ q[i] # e /\ d[q[i]] \in Nat
  BY DEF InOrder
<1>4. f[e] = t /\ \A x \in E : x # e => f[x] = d[x]
  BY <1>0
<1>5. ASSUME NEW i \in 1 .. n + 1, NEW j \in 1 .. n + 1, i < j
      PROVE  f[p[i]] <= f[p[j]]
  <2>1. CASE j < k
    BY <1>1, <1>3, <1>4, <1>5, <2>1 DEF InOrder
  <2>2. CASE j = k
    BY <1>1, <1>3, <1>4, <1>5, <2>2
  <2>3. CASE i < k /\ j > k
    <3>1. i \in 1 .. n /\ j - 1 \in 1 .. n /\ p[i] = q[i] /\ p[j] = q[j - 1]
      BY <1>1, <2>3
    <3>2. d[q[i]] < t /\ t <= d[q[j - 1]] /\ d[q[i]] \in Nat /\ d[q[j - 1]] \in Nat
      BY <1>3, <2>3, <3>1
    <3>3. f[p[i]] = d[q[i]] /\ f[p[j]] = d[q[j - 1]]
      BY <1>3, <1>4, <3>1
    <3> QED BY <3>2, <3>3
  <2>4. CASE i = k
    BY <1>1, <1>3, <1>4, <1>5, <2>4
  <2>5. CASE i > k
    <3>1. /\ i - 1 \in 1 .. n /\ j - 1 \in 1 .. n /\ i - 1 < j - 1
          /\ p[i] = q[i - 1] /\ p[j] = q[j - 1]
      BY <1>1, <1>5, <2>5
    <3>2. d[q[i - 1]] <= d[q[j - 1]]
      BY <3>1 DEF InOrder
    <3>3. f[p[i]] = d[q[i - 1]] /\ f[p[j]] = d[q[j - 1]]
      BY <1>3, <1>4, <3>1
    <3> QED BY <3>2, <3>3
  <2> QED BY <1>5, <2>1, <2>2, <2>3, <2>4, <2>5
<1>6. ASSUME NEW i \in 1 .. n + 1, NEW j \in 1 .. n + 1, p[i] = p[j]
      PROVE  i = j
  <2>1. CASE i = k
    BY <1>1, <1>3, <1>6, <2>1
  <2>2. CASE j = k
    BY <1>1, <1>3, <1>6, <2>2
  <2>3. CASE i < k /\ j < k
    BY <1>1, <1>6, <2>3 DEF InOrder
  <2>4. CASE i > k /\ j > k
    BY <1>1, <1>6, <2>4 DEF InOrder
  <2>5. CASE i < k /\ j > k
    BY <1>1, <1>6, <2>5 DEF InOrder
  <2>6. CASE i > k /\ j < k
    BY <1>1, <1>6, <2>6 DEF InOrder
  <2> QED BY <2>1, <2>2, <2>3, <2>4, <2>5, <2>6
<1>7. ASSUME NEW x \in E
      PROVE  f[x] # 0 <=> \E i \in 1 .. n + 1 : p[i] = x
  <2>1. CASE x = e
    BY <1>1, <1>4, <2>1
  <2>2. CASE x # e
    <3>1. ASSUME NEW i \in 1 .. n, q[i] = x
          PROVE  \E j \in 1 .. n + 1 : p[j] = x
      <4>1. CASE i < k
        <5>1. i \in 1 .. n + 1 /\ p[i] = q[i]
          BY <1>1, <4>1
        <5> QED BY <3>1, <5>1
      <4>2. CASE i >= k
        <5>1. i + 1 \in 1 .. n + 1 /\ i + 1 > k /\ (i + 1) - 1 = i
          BY <4>2
        <5>2. p[i + 1] = q[i]
          BY <1>1, <5>1
        <5> QED BY <3>1, <5>1, <5>2
      <4> QED BY <4>1, <4>2
    <3>2. ASSUME NEW j \in 1 .. n + 1, p[j] = x
          PROVE  \E i \in 1 .. n : q[i] = x
      BY <1>1, <2>2, <3>2
    <3>3. f[x] = d[x]
      BY <1>4, <2>2
    <3> QED BY <3>1, <3>2, <3>3 DEF InOrder
  <2> QED BY <2>1, <2>2
<1> QED BY <1>2, <1>5, <1>6, <1>7 DEF InOrder

(***************************************************************************)
(* An event taken out, wherever it is.                                     *)
(***************************************************************************)
LEMMA DeleteInOrder ==
    ASSUME NEW E, NEW n, NEW q, NEW d, NEW k, NEW p, NEW f,
           Deletion(E, n, q, d, k, p, f)
    PROVE  p \in [1 .. n - 1 -> E] /\ InOrder(E, n - 1, p, f)
<1> /\ n \in Nat /\ q \in [1 .. n -> E] /\ d \in [E -> Nat]
    /\ k \in 1 .. n
    /\ InOrder(E, n, q, d)
  BY DEF Deletion
<1>0. /\ p = [i \in 1 .. n - 1 |-> IF i < k THEN q[i] ELSE q[i + 1]]
      /\ f = [d EXCEPT ![q[k]] = 0]
  BY DEF Deletion
<1>1. /\ \A i \in 1 .. n - 1 : i < k => i \in 1 .. n /\ p[i] = q[i]
      /\ \A i \in 1 .. n - 1 : i >= k => i + 1 \in 1 .. n /\ p[i] = q[i + 1]
  BY <1>0
<1>2. p \in [1 .. n - 1 -> E]
  <2>1. ASSUME NEW i \in 1 .. n - 1
        PROVE  (IF i < k THEN q[i] ELSE q[i + 1]) \in E
    OBVIOUS
  <2> QED BY <1>0, <2>1
<1>3. /\ \A i \in 1 .. n : q[i] \in E /\ d[q[i]] \in Nat
      /\ \A i \in 1 .. n : i # k => q[i] # q[k]
  BY DEF InOrder
<1>4. f[q[k]] = 0 /\ \A x \in E : x # q[k] => f[x] = d[x]
  BY <1>0, <1>3
<1>5. ASSUME NEW i \in 1 .. n - 1, NEW j \in 1 .. n - 1, i < j
      PROVE  f[p[i]] <= f[p[j]]
  <2>1. CASE j < k
    BY <1>1, <1>3, <1>4, <1>5, <2>1 DEF InOrder
  <2>2. CASE i < k /\ j >= k
    <3>1. i \in 1 .. n /\ j + 1 \in 1 .. n /\ p[i] = q[i] /\ p[j] = q[j + 1]
      BY <1>1, <2>2
    <3>2. d[q[i]] <= d[q[j + 1]]
      BY <1>5, <3>1 DEF InOrder
    <3>3. f[p[i]] = d[q[i]] /\ f[p[j]] = d[q[j + 1]]
      BY <1>3, <1>4, <2>2, <3>1
    <3> QED BY <3>2, <3>3
  <2>3. CASE i >= k
    <3>1. /\ i + 1 \in 1 .. n /\ j + 1 \in 1 .. n /\ i + 1 < j + 1
          /\ i + 1 # k /\ j + 1 # k
          /\ p[i] = q[i + 1] /\ p[j] = q[j + 1]
      BY <1>1, <1>5, <2>3
    <3>2. d[q[i + 1]] <= d[q[j + 1]]
      BY <3>1 DEF InOrder
    <3>3. f[p[i]] = d[q[i + 1]] /\ f[p[j]] = d[q[j + 1]]
      BY <1>3, <1>4, <3>1
    <3> QED BY <3>2, <3>3
  <2> QED BY <2>1, <2>2, <2>3
<1>6. ASSUME NEW i \in 1 .. n - 1, NEW j \in 1 .. n - 1, p[i] = p[j]
      PROVE  i = j
  <2>1. CASE i < k /\ j < k
    BY <1>1, <1>6, <2>1 DEF InOrder
  <2>2. CASE i < k /\ j >= k
    BY <1>1, <1>6, <2>2 DEF InOrder
  <2>3. CASE i >= k /\ j < k
    BY <1>1, <1>6, <2>3 DEF InOrder
  <2>4. CASE i >= k /\ j >= k
    <3>1. i + 1 = j + 1
      BY <1>1, <1>6, <2>4 DEF InOrder
    <3> QED BY <3>1
  <2> QED BY <2>1, <2>2, <2>3, <2>4
<1>7. ASSUME NEW x \in E
      PROVE  f[x] # 0 <=> \E i \in 1 .. n - 1 : p[i] = x
  <2>1. CASE x = q[k]
    BY <1>1, <1>3, <1>4, <2>1
  <2>2. CASE x # q[k]
    <3>1. ASSUME NEW i \in 1 .. n, q[i] = x
          PROVE  \E j \in 1 .. n - 1 : p[j] = x
      <4>1. CASE i < k
        <5>1. i \in 1 .. n - 1 /\ p[i] = q[i]
          BY <1>1, <4>1
        <5> QED BY <3>1, <5>1
      <4>2. CASE i > k
        <5>1. i - 1 \in 1 .. n - 1 /\ i - 1 >= k /\ (i - 1) + 1 = i
          BY <4>2
        <5>2. p[i - 1] = q[i]
          BY <1>1, <5>1
        <5> QED BY <3>1, <5>1, <5>2
      <4>3. i # k
        BY <2>2, <3>1
      <4> QED BY <4>1, <4>2, <4>3
    <3>2. ASSUME NEW j \in 1 .. n - 1, p[j] = x
          PROVE  \E i \in 1 .. n : q[i] = x
      <4>1. CASE j < k
        BY <1>1, <3>2, <4>1
      <4>2. CASE j >= k
        <5>1. j + 1 \in 1 .. n /\ p[j] = q[j + 1]
          BY <1>1, <4>2
        <5> QED BY <3>2, <5>1
      <4> QED BY <4>1, <4>2
    <3>3. f[x] = d[x]
      BY <1>4, <2>2
    <3> QED BY <3>1, <3>2, <3>3 DEF InOrder
  <2> QED BY <2>1, <2>2
<1> QED BY <1>2, <1>5, <1>6, <1>7 DEF InOrder

-----------------------------------------------------------------------------

\* The empty queue satisfies the invariant.
LEMMA InitIInv == Init => IInv
<1> SUFFICES ASSUME Init PROVE IInv
  OBVIOUS
<1>1. TypeOK
  <2>1. queue \in Seq(Elements) /\ due \in [Elements -> Time \cup {0}]
    BY DEF Init
  <2>2. now \in Time /\ resumed \in BOOLEAN /\ overtaken \subseteq Elements
    BY TimeAssumption DEF Init
  <2> QED BY <2>1, <2>2 DEF TypeOK
<1>2. Sorted /\ Distinct /\ QueuedIffDue /\ NothingLate /\ NoneLate
  BY DEF Init, Sorted, Distinct, QueuedIffDue, NothingLate, NoneLate
<1> QED BY <1>1, <1>2 DEF IInv

\* What is true of every element with an event is true of every place.
LEMMA LateIffInQueue ==
    (TypeOK /\ QueuedIffDue /\ NoneLate => NothingLate)
    /\ (TypeOK /\ QueuedIffDue /\ NoneLate => NothingLate)'
<1>1. TypeOK /\ QueuedIffDue /\ NoneLate => NothingLate
  <2> SUFFICES ASSUME TypeOK, QueuedIffDue, NoneLate, NEW i \in 1 .. Len(queue)
               PROVE  queue[i] \in overtaken \/ now <= due[queue[i]]
    BY DEF NothingLate
  <2>1. queue[i] \in Elements
    BY InvariantInOrder
  <2> QED BY <2>1 DEF QueuedIffDue, NoneLate
<1>2. (TypeOK /\ QueuedIffDue /\ NoneLate => NothingLate)'
  <2> SUFFICES ASSUME TypeOK', QueuedIffDue', NoneLate', NEW i \in 1 .. Len(queue')
               PROVE  queue'[i] \in overtaken' \/ now' <= due'[queue'[i]]
    BY DEF NothingLate
  <2>1. queue'[i] \in Elements
    BY SeqIsFunction DEF TypeOK
  <2> QED BY <2>1 DEF QueuedIffDue, NoneLate
<1> QED BY <1>1, <1>2

\* Scheduling preserves it: the queue with an element inserted in order.
LEMMA ScheduleIInv ==
    ASSUME IInv, NEW e \in Elements, NEW t \in Time, Schedule(e, t)
    PROVE  IInv'
<1>1. PICK k \in 1 .. Len(queue) + 1 :
          /\ \A i \in 1 .. k - 1 : due[queue[i]] < t
          /\ \A i \in k .. Len(queue) : t <= due[queue[i]]
          /\ queue' = Inserted(queue, k, e)
  BY DEF Schedule
<1>2. /\ Len(queue) \in Nat
      /\ queue \in [1 .. Len(queue) -> Elements]
      /\ due \in [Elements -> Nat]
      /\ now \in Nat
      /\ InOrder(Elements, Len(queue), queue, due)
  BY InvariantInOrder DEF IInv
<1>3. /\ due[e] = 0
      /\ due' = [due EXCEPT ![e] = t]
      /\ now' = now /\ resumed' = resumed /\ overtaken' = overtaken
      /\ t \in Nat /\ t # 0 /\ (e \in overtaken \/ now <= t)
  BY TimeAssumption DEF Schedule, IInv, TypeOK
<1>4. /\ queue' \in [1 .. Len(queue) + 1 -> Elements]
      /\ InOrder(Elements, Len(queue) + 1, queue', due')
  <2>1. Insertion(Elements, Len(queue), queue, due, e, t, k, queue', due')
    BY <1>1, <1>2, <1>3 DEF Insertion, Inserted
  <2> QED BY <2>1, InsertInOrder, Zenon
<1>5. queue' \in Seq(Elements) /\ Len(queue') = Len(queue) + 1
  <2>1. Len(queue) + 1 \in Nat
    BY <1>2
  <2> QED BY <1>4, <2>1, FunctionIsSeq
<1>6. TypeOK'
  BY <1>3, <1>5 DEF IInv, TypeOK
<1>7. (Sorted /\ Distinct /\ QueuedIffDue)'
  BY <1>4, <1>5 DEF Sorted, Distinct, QueuedIffDue, InOrder
<1>8. NoneLate'
  BY <1>2, <1>3 DEF IInv, NoneLate
<1> QED BY <1>6, <1>7, <1>8, LateIffInQueue DEF IInv

\* So does taking an element out, by cancelling or delivering it, as long as the
\* clock does not pass one that stays and was not overtaken.
LEMMA RemoveIInv ==
    ASSUME IInv, NEW k \in 1 .. Len(queue),
           queue' = Deleted(queue, k),
           due' = [due EXCEPT ![queue[k]] = 0],
           now' \in Time, resumed' \in BOOLEAN, overtaken' \subseteq Elements,
           \A i \in 1 .. Len(queue) :
              i # k => queue[i] \in overtaken' \/ now' <= due[queue[i]]
    PROVE  IInv'
<1>1. /\ Len(queue) \in Nat
      /\ queue \in [1 .. Len(queue) -> Elements]
      /\ due \in [Elements -> Nat]
      /\ now \in Nat
      /\ now' \in Nat
      /\ InOrder(Elements, Len(queue), queue, due)
  BY InvariantInOrder, TimeAssumption DEF IInv
<1>2. /\ queue' \in [1 .. Len(queue) - 1 -> Elements]
      /\ InOrder(Elements, Len(queue) - 1, queue', due')
  <2>1. Deletion(Elements, Len(queue), queue, due, k, queue', due')
    BY <1>1 DEF Deletion, Deleted
  <2> QED BY <2>1, DeleteInOrder
<1>3. queue' \in Seq(Elements) /\ Len(queue') = Len(queue) - 1
  <2>1. Len(queue) - 1 \in Nat
    BY <1>1
  <2> QED BY <1>2, <2>1, FunctionIsSeq
<1>4. TypeOK'
  <2>1. queue[k] \in Elements
    BY <1>1
  <2> QED BY <1>3, <2>1 DEF IInv, TypeOK
<1>5. (Sorted /\ Distinct /\ QueuedIffDue)'
  BY <1>2, <1>3 DEF Sorted, Distinct, QueuedIffDue, InOrder
<1>6. NoneLate'
  <2> SUFFICES ASSUME NEW e \in Elements, due'[e] # 0
               PROVE  e \in overtaken' \/ now' <= due'[e]
    BY DEF NoneLate
  <2>1. e # queue[k] /\ due'[e] = due[e]
    BY <1>1
  <2>2. PICK i \in 1 .. Len(queue) : queue[i] = e
    BY <1>1, <2>1 DEF InOrder
  <2> QED BY <2>1, <2>2
<1> QED BY <1>4, <1>5, <1>6, LateIffInQueue DEF IInv

\* Every step preserves the invariant.
LEMMA NextIInv == IInv /\ [Next]_vars => IInv'
<1> SUFFICES ASSUME IInv, [Next]_vars PROVE IInv'
  OBVIOUS
<1>1. CASE UNCHANGED vars
  BY <1>1 DEF IInv, vars, TypeOK, Sorted, Distinct, QueuedIffDue, NothingLate, NoneLate
<1>2. ASSUME NEW e \in Elements, NEW t \in Time, Schedule(e, t) PROVE IInv'
  BY <1>2, ScheduleIInv
<1>3. ASSUME NEW e \in Elements, Cancel(e) PROVE IInv'
  <2>1. PICK k \in 1 .. Len(queue) : queue[k] = e /\ queue' = Deleted(queue, k)
    BY <1>3 DEF Cancel
  <2>2. /\ due' = [due EXCEPT ![queue[k]] = 0] /\ now' = now
        /\ resumed' = resumed /\ overtaken' = overtaken
    BY <1>3, <2>1 DEF Cancel
  <2>3. /\ now' \in Time /\ resumed' \in BOOLEAN /\ overtaken' \subseteq Elements
        /\ \A i \in 1 .. Len(queue) : queue[i] \in overtaken' \/ now' <= due[queue[i]]
    BY <2>2 DEF IInv, TypeOK, NothingLate
  <2> QED BY <2>1, <2>2, <2>3, RemoveIInv
<1>4. CASE Deliver
  <2>1. 1 \in 1 .. Len(queue) /\ queue[1] \in Elements
    BY <1>4 DEF Deliver, IInv, TypeOK
  <2>2. now' \in Time /\ resumed' \in BOOLEAN /\ overtaken' \subseteq Elements
    BY <1>4, <2>1 DEF Deliver, IInv, TypeOK, QueuedIffDue
  <2>3. \A i \in 1 .. Len(queue) : i # 1 => now' <= due[queue[i]]
    BY <1>4, <2>1 DEF Deliver, IInv, Sorted
  <2> QED BY <1>4, <2>1, <2>2, <2>3, RemoveIInv DEF Deliver
<1>5. ASSUME NEW t \in Time, PassTime(t) PROVE IInv'
  <2>1. TypeOK' /\ Sorted' /\ Distinct' /\ QueuedIffDue'
    BY <1>5 DEF PassTime, IInv, TypeOK, Sorted, Distinct, QueuedIffDue
  <2>2. NoneLate'
    <3> SUFFICES ASSUME NEW e \in Elements, due[e] # 0 PROVE t <= due[e]
      BY <1>5 DEF PassTime, NoneLate
    <3>1. PICK i \in 1 .. Len(queue) : queue[i] = e
      BY DEF IInv, QueuedIffDue
    <3>2. t < due[e] /\ t \in Nat /\ due[e] \in Nat
      BY <1>5, <3>1, InvariantInOrder, TimeAssumption DEF IInv, PassTime
    <3> QED BY <3>2
  <2> QED BY <2>1, <2>2, LateIffInQueue DEF IInv
<1>6. CASE Discard
  BY <1>6, TimeAssumption
     DEF Discard, IInv, TypeOK, Sorted, Distinct, QueuedIffDue, NothingLate, NoneLate
<1>7. CASE Resume
  BY <1>7 DEF Resume, IInv, TypeOK, Sorted, Distinct, QueuedIffDue, NothingLate, NoneLate
<1>8. ASSUME NEW t \in Time, Overtake(t) PROVE IInv'
  <2>1. TypeOK' /\ Sorted' /\ Distinct' /\ QueuedIffDue'
    BY <1>8 DEF Overtake, IInv, TypeOK, Sorted, Distinct, QueuedIffDue
  <2>2. NoneLate'
    <3> SUFFICES ASSUME NEW e \in Elements, due[e] # 0
                 PROVE  e \in overtaken' \/ t <= due[e]
      BY <1>8 DEF Overtake, NoneLate
    <3>1. t \in Nat /\ due[e] \in Nat
      BY <1>8, InvariantInOrder, TimeAssumption DEF IInv
    <3> QED BY <1>8, <3>1 DEF Overtake
  <2> QED BY <2>1, <2>2, LateIffInQueue DEF IInv
<1> QED BY <1>1, <1>2, <1>3, <1>4, <1>5, <1>6, <1>7, <1>8 DEF Next

(***************************************************************************)
(* Type correctness: the queue holds elements, every time is a time the    *)
(* simulator can reach (m_firstEvent, eventTime and m_circTime).           *)
(***************************************************************************)
THEOREM TypeCorrect == Spec => []TypeOK
<1>1. IInv => TypeOK
  BY DEF IInv
<1> QED BY <1>1, InitIInv, NextIInv, PTL DEF Spec

(***************************************************************************)
(* An element has an event exactly when it is in the queue, once: an event *)
(* is neither lost nor left behind by any sequence of addEventAt,          *)
(* cancelEvents and deliveries.                                            *)
(***************************************************************************)
THEOREM NoneLostNoneLeft == Spec => []ExactlyOnce
<1>1. IInv => ExactlyOnce
  BY DEF IInv, ExactlyOnce
<1> QED BY <1>1, InitIInv, NextIInv, PTL DEF Spec

(***************************************************************************)
(* The event loop may take the clock from the first event without looking  *)
(* at the others: the queue is sorted, and nothing in it is late but what  *)
(* the clock overtook when the simulation was resumed in a broken frame.   *)
(***************************************************************************)
THEOREM DeliveredInOrder == Spec => []InOrderOfTime
<1>1. IInv => InOrderOfTime
  BY DEF IInv, InOrderOfTime
<1> QED BY <1>1, InitIInv, NextIInv, PTL DEF Spec

(***************************************************************************)
(* m_circTime never runs backwards within a simulation, except to deliver  *)
(* an event it has overtaken.                                              *)
(***************************************************************************)
THEOREM TimeForward == Spec => ClockForward
<1>1. ASSUME IInv, [Next]_vars
      PROVE  [now' >= now \/ (queue' = <<>> /\ now' = 1)
                          \/ (queue # <<>> /\ queue[1] \in overtaken)]_vars
  <2>1. CASE UNCHANGED vars
    BY <2>1
  <2>2. ASSUME NEW e \in Elements, NEW t \in Time, Schedule(e, t) PROVE now' >= now
    BY <1>1, <2>2, TimeAssumption DEF Schedule, IInv, TypeOK
  <2>3. ASSUME NEW e \in Elements, Cancel(e) PROVE now' >= now
    BY <1>1, <2>3, TimeAssumption DEF Cancel, IInv, TypeOK
  <2>4. CASE Deliver
    <3>1. 1 \in 1 .. Len(queue)
      BY <1>1, <2>4 DEF Deliver, IInv, TypeOK
    <3> QED BY <1>1, <2>4, <3>1 DEF Deliver, IInv, NothingLate
  <2>5. ASSUME NEW t \in Time, PassTime(t) PROVE now' >= now
    BY <2>5 DEF PassTime
  <2>6. CASE Discard
    BY <1>1, <2>6, TimeAssumption DEF Discard, IInv, TypeOK
  <2>7. CASE Resume
    BY <1>1, <2>7, TimeAssumption DEF Resume, IInv, TypeOK
  <2>8. ASSUME NEW t \in Time, Overtake(t) PROVE now' >= now
    BY <2>8 DEF Overtake
  <2> QED BY <1>1, <2>1, <2>2, <2>3, <2>4, <2>5, <2>6, <2>7, <2>8 DEF Next
<1> QED BY <1>1, InitIInv, NextIInv, PTL DEF Spec, ClockForward

-----------------------------------------------------------------------------
(***************************************************************************)
(* Queues threaded through the elements they hold, as C++ code keeps them: *)
(* a pointer to the first, and in each element a pointer to the next.  The *)
(* lemmas say what such a list spells, what a walk along it meets, and     *)
(* that linking an element in and unlinking one do to the sequence what    *)
(* they should.  They are about any list, not only the simulator's.        *)
(***************************************************************************)

\* Every nonempty set of naturals has a least member.
LEMMA LeastNatural ==
    ASSUME NEW T, T \subseteq Nat, T # {}
    PROVE  \E m \in T : \A k \in T : m <= k
<1>1. PICK x \in T : \A y \in T : ~ (<<y, x>> \in OpToRel(<,Nat))
  BY NatLessThanWellFounded, WFMin
<1>2. \A y \in T : ~(y < x)
  BY <1>1 DEF OpToRel
<1> QED BY <1>2

\* The pointer to what is at place i of q: null behind its end.
At(q, i) == IF i <= Len(q) THEN q[i] ELSE null

\* The pointers spell q: first points at its head, next from each element to
\* the one after it.
Chain(q, first, next) ==
    /\ q \in Seq(Elements)
    /\ \A i, j \in 1 .. Len(q) : q[i] = q[j] => i = j
    /\ first = At(q, 1)
    /\ \A i \in 1 .. Len(q) : next[q[i]] = At(q, i + 1)

\* Chain, and what the pointers of all elements can be.
LinkedIn(q, first, next) ==
    /\ Chain(q, first, next)
    /\ first \in Elements \cup {null}
    /\ next \in [Elements -> Elements \cup {null}]

-----------------------------------------------------------------------------

(***************************************************************************)
(* A walk: the pointer it holds after n steps is a recursive function of   *)
(* n.                                                                      *)
(***************************************************************************)
IsWalk(w, first, next, C) ==
    w = [n \in 0 .. C |-> IF n = 0 THEN first
                          ELSE IF w[n - 1] = null THEN null
                          ELSE next[w[n - 1]]]

\* There is one, the one that lists q ...
LEMMA WalkExists ==
    ASSUME null \notin Elements,
           NEW q, NEW first, NEW next, Chain(q, first, next), NEW C \in Nat
    PROVE  \E w : IsWalk(w, first, next, C)
<1> DEFINE w == [n \in 0 .. C |-> At(q, n + 1)]
<1>1. ASSUME NEW n \in 0 .. C
      PROVE  At(q, n + 1) = IF n = 0 THEN first
                            ELSE IF w[n - 1] = null THEN null
                            ELSE next[w[n - 1]]
  <2>1. CASE n = 0
    BY <2>1 DEF Chain
  <2>2. CASE n # 0
    <3>1. n - 1 \in 0 .. C /\ w[n - 1] = At(q, n)
      BY <2>2
    <3>2. CASE n <= Len(q)
      BY <2>2, <3>1, <3>2 DEF Chain, At
    <3>3. CASE n > Len(q)
      BY <2>2, <3>1, <3>3 DEF Chain, At
    <3> QED BY <3>2, <3>3 DEF Chain
  <2> QED BY <2>1, <2>2
<1>2. w = [n \in 0 .. C |-> At(q, n + 1)]
  OBVIOUS
<1> HIDE DEF w
<1> QED BY <1>1, <1>2 DEF IsWalk

\* ... for a walk meets the elements of q one after the other, and then null: the
\* least place where it would not does not exist.
LEMMA WalkMeets ==
    ASSUME null \notin Elements,
           NEW q, NEW first, NEW next, Chain(q, first, next), NEW C \in Nat,
           NEW w, IsWalk(w, first, next, C)
    PROVE  DOMAIN w = 0 .. C /\ \A n \in 0 .. C : w[n] = At(q, n + 1)
<1> USE DEF IsWalk
<1> DEFINE Wrong == {n \in 0 .. C : w[n] # At(q, n + 1)}
<1>1. ASSUME Wrong # {} PROVE FALSE
  <2>1. PICK n \in Wrong : \A k \in Wrong : n <= k
    <3>1. Wrong \subseteq Nat
      OBVIOUS
    <3> QED BY <1>1, <3>1, LeastNatural
  <2>2. n \in 0 .. C /\ w[n] # At(q, n + 1)
    BY <2>1
  <2>3. n # 0
    BY <2>2 DEF Chain
  <2>4. w[n - 1] = At(q, n)
    <3>1. n - 1 \in 0 .. C /\ (n - 1) + 1 = n /\ ~(n <= n - 1)
      BY <2>2, <2>3
    <3> QED BY <2>1, <3>1
  <2>5. w[n] = IF w[n - 1] = null THEN null ELSE next[w[n - 1]]
    BY <2>2, <2>3
  <2>6. CASE n <= Len(q)
    <3>1. n \in 1 .. Len(q) /\ q[n] \in Elements
      BY <2>2, <2>3, <2>6 DEF Chain
    <3> QED BY <2>2, <2>4, <2>5, <2>6, <3>1 DEF Chain, At
  <2>7. CASE n > Len(q)
    <3>1. ~(n <= Len(q)) /\ ~(n + 1 <= Len(q))
      BY <2>2, <2>7 DEF Chain
    <3> QED BY <2>2, <2>4, <2>5, <3>1 DEF At
  <2> QED BY <2>2, <2>6, <2>7 DEF Chain
<1>2. DOMAIN w = 0 .. C
  OBVIOUS
<1> QED BY <1>1, <1>2

-----------------------------------------------------------------------------

(***************************************************************************)
(* el is linked in at place k: the pointer that led there leads to el, and *)
(* el to what was there.                                                   *)
(***************************************************************************)
LEMMA InsertLinks ==
    ASSUME NEW q, NEW first, NEW next, LinkedIn(q, first, next),
           NEW el \in Elements, \A i \in 1 .. Len(q) : q[i] # el,
           NEW k \in 1 .. Len(q) + 1, NEW f, NEW g,
           f = IF k = 1 THEN el ELSE first,
           g \in [Elements -> Elements \cup {null}],
           g[el] = At(q, k),
           \A i \in 1 .. Len(q) : g[q[i]] = IF i = k - 1 THEN el ELSE next[q[i]]
    PROVE  LinkedIn(Inserted(q, k, el), f, g)
<1> DEFINE n == Len(q)
<1>0. /\ n \in Nat /\ q \in [1 .. n -> Elements]
      /\ \A i, j \in 1 .. n : q[i] = q[j] => i = j
  BY SeqIsFunction DEF LinkedIn, Chain
<1> HIDE DEF n
<1>a. /\ first = At(q, 1)
      /\ \A i \in 1 .. n : next[q[i]] = At(q, i + 1)
      /\ \A i \in 1 .. n : q[i] # el
      /\ \A i \in 1 .. n : g[q[i]] = IF i = k - 1 THEN el ELSE next[q[i]]
      /\ first \in Elements \cup {null}
      /\ k \in 1 .. n + 1
  BY DEF LinkedIn, Chain, n
<1>b. k \in Nat /\ k >= 1
  BY <1>0, <1>a
<1> DEFINE p == Inserted(q, k, el)
<1>8. p = [i \in 1 .. n + 1 |-> IF i < k THEN q[i] ELSE IF i = k THEN el ELSE q[i - 1]]
  BY DEF Inserted, n
<1> HIDE DEF p
<1>9. /\ p[k] = el
      /\ \A i \in 1 .. n + 1 : i < k => i \in 1 .. n /\ p[i] = q[i]
      /\ \A i \in 1 .. n + 1 : i > k => i - 1 \in 1 .. n /\ p[i] = q[i - 1]
  BY <1>0, <1>a, <1>b, <1>8
<1>10. p \in [1 .. n + 1 -> Elements]
  <2>1. ASSUME NEW i \in 1 .. n + 1
        PROVE  (IF i < k THEN q[i] ELSE IF i = k THEN el ELSE q[i - 1]) \in Elements
    BY <1>0, <1>a, <1>b
  <2> QED BY <1>8, <2>1
<1>11. p \in Seq(Elements) /\ Len(p) = n + 1
  BY <1>0, <1>10, FunctionIsSeq
<1>12. ASSUME NEW i \in 1 .. n + 1, NEW j \in 1 .. n + 1, p[i] = p[j] PROVE i = j
  <2>1. CASE i = k
    BY <1>0, <1>a, <1>9, <1>12, <2>1
  <2>2. CASE j = k
    BY <1>0, <1>a, <1>9, <1>12, <2>2
  <2>3. CASE i < k /\ j < k
    BY <1>0, <1>9, <1>12, <2>3
  <2>4. CASE i > k /\ j > k
    BY <1>0, <1>9, <1>12, <2>4
  <2>5. CASE i < k /\ j > k
    <3>1. i = j - 1
      BY <1>0, <1>9, <1>12, <2>5
    <3> QED BY <2>5, <3>1, <1>b
  <2>6. CASE i > k /\ j < k
    <3>1. j = i - 1
      BY <1>0, <1>9, <1>12, <2>6
    <3> QED BY <2>6, <3>1, <1>b
  <2> QED BY <2>1, <2>2, <2>3, <2>4, <2>5, <2>6, <1>b
<1>13. f = At(p, 1)
  <2>1. CASE k = 1
    BY <1>0, <1>9, <1>11, <2>1 DEF At
  <2>2. CASE k # 1
    <3>1. 1 \in 1 .. n + 1 /\ 1 < k /\ 1 \in 1 .. n
      BY <1>0, <1>a, <1>b, <2>2
    <3>2. p[1] = q[1] /\ At(q, 1) = q[1]
      BY <1>0, <1>9, <3>1 DEF At, n
    <3>3. At(p, 1) = p[1]
      BY <1>0, <1>11, <3>1 DEF At
    <3> QED BY <1>a, <2>2, <3>2, <3>3
  <2> QED BY <2>1, <2>2
<1>14. ASSUME NEW i \in 1 .. n + 1 PROVE g[p[i]] = At(p, i + 1)
  <2>1. CASE i = k
    <3>1. g[p[i]] = At(q, k)
      BY <1>9, <2>1
    <3>2. CASE k <= n
      <4>1. k + 1 \in 1 .. n + 1 /\ k + 1 > k /\ (k + 1) - 1 = k
        BY <1>0, <1>b, <3>2
      <4>2. p[k + 1] = q[k]
        BY <1>9, <4>1
      <4>3. At(q, k) = q[k] /\ At(p, k + 1) = p[k + 1]
        BY <1>0, <1>11, <3>2, <4>1 DEF At, n
      <4> QED BY <2>1, <3>1, <4>2, <4>3
    <3>3. CASE ~(k <= n)
      <4>1. ~(k + 1 <= n + 1)
        BY <1>0, <1>b, <3>3
      <4> QED BY <1>11, <2>1, <3>1, <3>3, <4>1 DEF At, n
    <3> QED BY <3>2, <3>3
  <2>2. CASE i = k - 1
    <3>1. i < k /\ i + 1 = k /\ i + 1 <= n + 1 /\ i \in 1 .. n /\ p[i] = q[i]
      BY <1>0, <1>a, <1>b, <1>9, <2>2
    <3>2. g[p[i]] = el
      BY <1>a, <2>2, <3>1
    <3> QED BY <1>9, <1>11, <3>1, <3>2 DEF At
  <2>3. CASE i < k - 1
    <3>1. /\ i < k /\ i \in 1 .. n /\ i + 1 < k /\ i + 1 \in 1 .. n /\ i + 1 \in 1 .. n + 1
          /\ i # k - 1
      BY <1>0, <1>a, <1>b, <2>3
    <3>2. g[p[i]] = next[q[i]]
      BY <1>a, <1>9, <3>1
    <3>3. next[q[i]] = q[i + 1] /\ p[i + 1] = q[i + 1]
      BY <1>a, <1>9, <3>1 DEF At, n
    <3> QED BY <1>11, <3>1, <3>2, <3>3 DEF At
  <2>4. CASE i > k
    <3>1. i - 1 \in 1 .. n /\ p[i] = q[i - 1] /\ (i - 1) + 1 = i /\ i - 1 # k - 1
      BY <1>9, <2>4, <1>b
    <3>2. g[p[i]] = At(q, i)
      <4>1. g[q[i - 1]] = next[q[i - 1]]
        BY <1>a, <3>1
      <4>2. next[q[i - 1]] = At(q, (i - 1) + 1)
        BY <1>a, <3>1
      <4> QED BY <3>1, <4>1, <4>2
    <3>3. CASE i <= n
      <4>1. i + 1 \in 1 .. n + 1 /\ i + 1 > k /\ (i + 1) - 1 = i
        BY <1>0, <1>b, <2>4, <3>3
      <4> QED BY <1>9, <1>11, <3>2, <3>3, <4>1 DEF At, n
    <3>4. CASE ~(i <= n)
      <4>1. ~(i + 1 <= n + 1)
        BY <1>0, <3>4
      <4> QED BY <1>11, <3>2, <3>4, <4>1 DEF At, n
    <3> QED BY <3>3, <3>4
  <2> QED BY <2>1, <2>2, <2>3, <2>4, <1>b
<1>15. f \in Elements \cup {null}
  BY <1>a
<1>16. LinkedIn(p, f, g)
  BY <1>11, <1>12, <1>13, <1>14, <1>15 DEF LinkedIn, Chain
<1> QED BY <1>16 DEF p

(***************************************************************************)
(* What is at place k is unlinked: the pointer that led to it leads to   *)
(* what came after it.                                                     *)
(***************************************************************************)
LEMMA DeleteLinks ==
    ASSUME NEW q, NEW first, NEW next, LinkedIn(q, first, next),
           NEW k \in 1 .. Len(q), NEW f, NEW g,
           f = IF k = 1 THEN next[q[k]] ELSE first,
           g \in [Elements -> Elements \cup {null}],
           \A i \in 1 .. Len(q) :
              i # k => g[q[i]] = IF i = k - 1 THEN next[q[k]] ELSE next[q[i]]
    PROVE  LinkedIn(Deleted(q, k), f, g)
<1> DEFINE n == Len(q)
           p == Deleted(q, k)
<1>1. /\ n \in Nat /\ q \in [1 .. n -> Elements] /\ k \in 1 .. n
      /\ \A i, j \in 1 .. n : q[i] = q[j] => i = j
      /\ first = At(q, 1)
      /\ \A i \in 1 .. n : next[q[i]] = At(q, i + 1)
      /\ first \in Elements \cup {null}
      /\ next \in [Elements -> Elements \cup {null}]
      /\ \A i \in 1 .. n : i # k => g[q[i]] = IF i = k - 1 THEN next[q[k]] ELSE next[q[i]]
  BY SeqIsFunction DEF LinkedIn, Chain
<1>2. p = [i \in 1 .. n - 1 |-> IF i < k THEN q[i] ELSE q[i + 1]]
  BY DEF Deleted
<1>a. \A i : At(q, i) = IF i <= n THEN q[i] ELSE null
  BY DEF At
<1> HIDE DEF n, p
<1>3. /\ \A i \in 1 .. n - 1 : i < k => i \in 1 .. n /\ p[i] = q[i]
      /\ \A i \in 1 .. n - 1 : i >= k => i + 1 \in 1 .. n /\ p[i] = q[i + 1]
  BY <1>1, <1>2
<1>4. p \in [1 .. n - 1 -> Elements]
  <2>1. ASSUME NEW i \in 1 .. n - 1
        PROVE  (IF i < k THEN q[i] ELSE q[i + 1]) \in Elements
    BY <1>1
  <2> QED BY <1>2, <2>1
<1>5. p \in Seq(Elements) /\ Len(p) = n - 1
  <2>1. n - 1 \in Nat
    BY <1>1
  <2> QED BY <1>4, <2>1, FunctionIsSeq
<1>6. ASSUME NEW i \in 1 .. n - 1, NEW j \in 1 .. n - 1, p[i] = p[j] PROVE i = j
  <2>1. CASE i < k /\ j < k
    BY <1>1, <1>3, <1>6, <2>1
  <2>2. CASE i < k /\ j >= k
    <3>1. i = j + 1
      BY <1>1, <1>3, <1>6, <2>2
    <3> QED BY <1>1, <2>2, <3>1
  <2>3. CASE i >= k /\ j < k
    <3>1. i + 1 = j
      BY <1>1, <1>3, <1>6, <2>3
    <3> QED BY <1>1, <2>3, <3>1
  <2>4. CASE i >= k /\ j >= k
    <3>1. i + 1 = j + 1
      BY <1>1, <1>3, <1>6, <2>4
    <3> QED BY <3>1
  <2> QED BY <1>1, <2>1, <2>2, <2>3, <2>4
<1>7. next[q[k]] = At(p, k)
  <2>1. CASE k <= n - 1
    <3>1. k \in 1 .. n - 1 /\ k + 1 <= n
      BY <1>1, <2>1
    <3>2. p[k] = q[k + 1]
      BY <1>1, <1>3, <3>1
    <3> QED BY <1>1, <1>5, <1>a, <2>1, <3>1, <3>2 DEF At
  <2>2. CASE ~(k <= n - 1)
    <3>1. ~(k + 1 <= n)
      BY <1>1, <2>2
    <3> QED BY <1>1, <1>5, <1>a, <2>2, <3>1 DEF At
  <2> QED BY <2>1, <2>2
<1>8. f = At(p, 1)
  <2>1. CASE k = 1
    BY <1>7, <2>1
  <2>2. CASE k # 1
    <3>1. 1 \in 1 .. n - 1 /\ 1 < k /\ 1 <= n
      BY <1>1, <2>2
    <3>2. p[1] = q[1]
      BY <1>3, <3>1
    <3> QED BY <1>1, <1>5, <1>a, <2>2, <3>1, <3>2 DEF At
  <2> QED BY <2>1, <2>2
<1>9. ASSUME NEW i \in 1 .. n - 1 PROVE g[p[i]] = At(p, i + 1)
  <2>1. CASE i = k - 1
    <3>1. i < k /\ i # k /\ i + 1 = k
      BY <1>1, <2>1
    <3>2. i \in 1 .. n /\ p[i] = q[i]
      BY <1>3, <3>1
    <3> QED BY <1>1, <1>7, <2>1, <3>1, <3>2
  <2>2. CASE i < k - 1
    <3>1. /\ i < k /\ i # k /\ i # k - 1 /\ i + 1 < k
          /\ i + 1 \in 1 .. n - 1 /\ i + 1 <= n /\ i \in 1 .. n
      BY <1>1, <2>2
    <3>2. p[i] = q[i] /\ p[i + 1] = q[i + 1]
      BY <1>3, <3>1
    <3>3. g[p[i]] = At(q, i + 1)
      BY <1>1, <3>1, <3>2
    <3> QED BY <1>5, <1>a, <3>1, <3>2, <3>3 DEF At
  <2>3. CASE i >= k
    <3>1. i + 1 \in 1 .. n /\ p[i] = q[i + 1] /\ i + 1 # k /\ i + 1 # k - 1
      BY <1>1, <1>3, <2>3
    <3>2. g[p[i]] = At(q, (i + 1) + 1)
      BY <1>1, <3>1
    <3>3. CASE i + 1 <= n - 1
      <4>1. i + 1 \in 1 .. n - 1 /\ i + 1 >= k /\ (i + 1) + 1 <= n
        BY <1>1, <2>3, <3>3
      <4>2. p[i + 1] = q[(i + 1) + 1]
        BY <1>3, <4>1
      <4> QED BY <1>5, <1>a, <3>2, <3>3, <4>1, <4>2 DEF At
    <3>4. CASE ~(i + 1 <= n - 1)
      <4>1. ~((i + 1) + 1 <= n)
        BY <1>1, <3>4
      <4> QED BY <1>5, <1>a, <3>2, <3>4, <4>1 DEF At
    <3> QED BY <3>3, <3>4
  <2> QED BY <1>1, <2>1, <2>2, <2>3
<1>10. f \in Elements \cup {null}
  BY <1>1
<1>11. LinkedIn(p, f, g)
  BY <1>5, <1>6, <1>8, <1>9, <1>10 DEF LinkedIn, Chain
<1> QED BY <1>11 DEF p

-----------------------------------------------------------------------------
\* What is in a list, and in which order.

Elems(q) == {q[i] : i \in 1 .. Len(q)}

\* Each in the relation to everything after it.
Ordered(q, rel) == \A i, j \in 1 .. Len(q) : i < j => <<q[i], q[j]>> \in rel

\* A walk that is long enough meets all of a list.
LEMMA WalkElems ==
    ASSUME null \notin Elements,
           NEW q, NEW first, NEW next, Chain(q, first, next), NEW C \in Nat, Len(q) <= C,
           NEW w, DOMAIN w = 0 .. C, \A n \in 0 .. C : w[n] = At(q, n + 1)
    PROVE  {w[n] : n \in 0 .. C} \ {null} = Elems(q) /\ w[C] = null
<1>1. Len(q) \in Nat /\ q \in [1 .. Len(q) -> Elements]
  BY SeqIsFunction DEF Chain
<1>2. ASSUME NEW i \in 1 .. Len(q) PROVE q[i] \in {w[n] : n \in 0 .. C} \ {null}
  <2>1. i - 1 \in 0 .. C /\ (i - 1) + 1 = i /\ q[i] \in Elements
    BY <1>1
  <2>2. w[i - 1] = q[i]
    BY <2>1, <1>1 DEF At
  <2> QED BY <2>1, <2>2
<1>3. ASSUME NEW n \in 0 .. C, w[n] # null PROVE w[n] \in Elems(q)
  <2>1. w[n] = At(q, n + 1) /\ n + 1 \in 1 .. Len(q)
    BY <1>1, <1>3 DEF At
  <2> QED BY <1>1, <2>1 DEF At, Elems
<1>4. ~(C + 1 <= Len(q)) /\ C \in 0 .. C
  BY <1>1
<1> QED BY <1>2, <1>3, <1>4 DEF Elems, At

\* Inserting.
LEMMA InsertedElems ==
    ASSUME NEW q \in Seq(Elements), NEW el \in Elements, NEW k \in 1 .. Len(q) + 1
    PROVE  /\ Elems(Inserted(q, k, el)) = Elems(q) \cup {el}
           /\ \A rel : Ordered(q, rel) /\ (\A i \in 1 .. k - 1 : <<q[i], el>> \in rel)
                                       /\ (\A i \in k .. Len(q) : <<el, q[i]>> \in rel)
                       => Ordered(Inserted(q, k, el), rel)
<1> DEFINE n == Len(q)
           p == Inserted(q, k, el)
<1>1. n \in Nat /\ q \in [1 .. n -> Elements] /\ k \in 1 .. n + 1
  BY SeqIsFunction
<1>2. p = [i \in 1 .. n + 1 |-> IF i < k THEN q[i] ELSE IF i = k THEN el ELSE q[i - 1]]
  BY DEF Inserted
<1>a. Elems(q) = {q[i] : i \in 1 .. n} /\ (\A rel : Ordered(q, rel) <=>
         \A i, j \in 1 .. n : i < j => <<q[i], q[j]>> \in rel)
  BY DEF Elems, Ordered
<1> HIDE DEF n, p
<1>3. /\ p[k] = el
      /\ \A i \in 1 .. n + 1 : i < k => i \in 1 .. n /\ i \in 1 .. k - 1 /\ p[i] = q[i]
      /\ \A i \in 1 .. n + 1 : i > k => i - 1 \in 1 .. n /\ i - 1 \in k .. n /\ p[i] = q[i - 1]
  BY <1>1, <1>2
<1>4. p \in [1 .. n + 1 -> Elements]
  <2>1. ASSUME NEW i \in 1 .. n + 1
        PROVE  (IF i < k THEN q[i] ELSE IF i = k THEN el ELSE q[i - 1]) \in Elements
    BY <1>1
  <2> QED BY <1>2, <2>1
<1>5. p \in Seq(Elements) /\ Len(p) = n + 1
  BY <1>1, <1>4, FunctionIsSeq
<1>6. Elems(p) = Elems(q) \cup {el}
  <2>1. ASSUME NEW i \in 1 .. n + 1 PROVE p[i] \in Elems(q) \cup {el}
    BY <1>1, <1>3, <1>a
  <2>2. ASSUME NEW i \in 1 .. n PROVE q[i] \in Elems(p)
    <3>1. CASE i < k
      BY <1>1, <1>3, <1>5, <3>1 DEF Elems
    <3>2. CASE i >= k
      <4>1. i + 1 \in 1 .. n + 1 /\ i + 1 > k /\ (i + 1) - 1 = i
        BY <1>1, <3>2
      <4> QED BY <1>3, <1>5, <4>1 DEF Elems
    <3> QED BY <1>1, <3>1, <3>2
  <2>3. el \in Elems(p)
    BY <1>1, <1>3, <1>5 DEF Elems
  <2>4. Elems(p) \subseteq Elems(q) \cup {el}
    BY <1>5, <2>1 DEF Elems
  <2> QED BY <1>a, <2>2, <2>3, <2>4
<1>7. ASSUME NEW rel, Ordered(q, rel), \A i \in 1 .. k - 1 : <<q[i], el>> \in rel,
             \A i \in k .. n : <<el, q[i]>> \in rel,
             NEW i \in 1 .. n + 1, NEW j \in 1 .. n + 1, i < j
      PROVE  <<p[i], p[j]>> \in rel
  <2>1. CASE j < k
    BY <1>1, <1>3, <1>7, <1>a, <2>1
  <2>2. CASE j = k
    BY <1>1, <1>3, <1>7, <2>2
  <2>3. CASE i < k /\ j > k
    <3>1. i \in 1 .. n /\ j - 1 \in 1 .. n /\ i < j - 1 /\ p[i] = q[i] /\ p[j] = q[j - 1]
      BY <1>1, <1>3, <2>3
    <3> QED BY <1>7, <1>a, <3>1
  <2>4. CASE i = k
    BY <1>1, <1>3, <1>7, <2>4
  <2>5. CASE i > k
    <3>1. i - 1 \in 1 .. n /\ j - 1 \in 1 .. n /\ i - 1 < j - 1 /\ p[i] = q[i - 1] /\ p[j] = q[j - 1]
      BY <1>1, <1>3, <1>7, <2>5
    <3> QED BY <1>7, <1>a, <3>1
  <2> QED BY <1>1, <1>7, <2>1, <2>2, <2>3, <2>4, <2>5
<1> QED BY <1>5, <1>6, <1>7 DEF Ordered, p, n

\* Deleting.
LEMMA DeletedElems ==
    ASSUME NEW q \in Seq(Elements), \A i, j \in 1 .. Len(q) : q[i] = q[j] => i = j,
           NEW k \in 1 .. Len(q)
    PROVE  /\ Elems(Deleted(q, k)) = Elems(q) \ {q[k]}
           /\ \A rel : Ordered(q, rel) => Ordered(Deleted(q, k), rel)
<1> DEFINE n == Len(q)
           p == Deleted(q, k)
<1>1. /\ n \in Nat /\ q \in [1 .. n -> Elements] /\ k \in 1 .. n
      /\ \A i, j \in 1 .. n : q[i] = q[j] => i = j
  BY SeqIsFunction
<1>2. p = [i \in 1 .. n - 1 |-> IF i < k THEN q[i] ELSE q[i + 1]]
  BY DEF Deleted
<1>a. Elems(q) = {q[i] : i \in 1 .. n} /\ (\A rel : Ordered(q, rel) <=>
         \A i, j \in 1 .. n : i < j => <<q[i], q[j]>> \in rel)
  BY DEF Elems, Ordered
<1> HIDE DEF n, p
<1>3. /\ \A i \in 1 .. n - 1 : i < k => i \in 1 .. n /\ i # k /\ p[i] = q[i]
      /\ \A i \in 1 .. n - 1 : i >= k => i + 1 \in 1 .. n /\ i + 1 # k /\ p[i] = q[i + 1]
  BY <1>1, <1>2
<1>4. p \in [1 .. n - 1 -> Elements]
  <2>1. ASSUME NEW i \in 1 .. n - 1
        PROVE  (IF i < k THEN q[i] ELSE q[i + 1]) \in Elements
    BY <1>1
  <2> QED BY <1>2, <2>1
<1>5. p \in Seq(Elements) /\ Len(p) = n - 1
  <2>1. n - 1 \in Nat
    BY <1>1
  <2> QED BY <1>4, <2>1, FunctionIsSeq
<1>6. Elems(p) = Elems(q) \ {q[k]}
  <2>1. ASSUME NEW i \in 1 .. n - 1 PROVE p[i] \in Elems(q) \ {q[k]}
    BY <1>1, <1>3, <1>a
  <2>2. ASSUME NEW i \in 1 .. n, i # k PROVE q[i] \in Elems(p)
    <3>1. CASE i < k
      <4>1. i \in 1 .. n - 1
        BY <1>1, <3>1
      <4> QED BY <1>3, <1>5, <3>1, <4>1 DEF Elems
    <3>2. CASE i > k
      <4>1. i - 1 \in 1 .. n - 1 /\ i - 1 >= k /\ (i - 1) + 1 = i
        BY <1>1, <3>2
      <4> QED BY <1>3, <1>5, <4>1 DEF Elems
    <3> QED BY <1>1, <2>2, <3>1, <3>2
  <2>3. Elems(p) \subseteq Elems(q) \ {q[k]}
    BY <1>5, <2>1 DEF Elems
  <2>4. Elems(q) \ {q[k]} \subseteq Elems(p)
    BY <1>a, <2>2
  <2> QED BY <2>3, <2>4
<1>7. ASSUME NEW rel, Ordered(q, rel), NEW i \in 1 .. n - 1, NEW j \in 1 .. n - 1, i < j
      PROVE  <<p[i], p[j]>> \in rel
  <2>1. CASE j < k
    BY <1>1, <1>3, <1>7, <1>a, <2>1
  <2>2. CASE i < k /\ j >= k
    <3>1. i \in 1 .. n /\ j + 1 \in 1 .. n /\ i < j + 1 /\ p[i] = q[i] /\ p[j] = q[j + 1]
      BY <1>1, <1>3, <1>7, <2>2
    <3> QED BY <1>7, <1>a, <3>1
  <2>3. CASE i >= k
    <3>1. i + 1 \in 1 .. n /\ j + 1 \in 1 .. n /\ i + 1 < j + 1 /\ p[i] = q[i + 1] /\ p[j] = q[j + 1]
      BY <1>1, <1>3, <1>7, <2>3
    <3> QED BY <1>7, <1>a, <3>1
  <2> QED BY <1>1, <1>7, <2>1, <2>2, <2>3
<1> QED BY <1>5, <1>6, <1>7 DEF Ordered, p, n

-----------------------------------------------------------------------------
\* The rest of what users of lists need.

\* The first pointer is null when there is nothing in the list, else what it
\* points at is in it.
LEMMA FirstOf ==
    ASSUME null \notin Elements, NEW q, NEW first, NEW next, Chain(q, first, next)
    PROVE  /\ first = null <=> q = <<>>
           /\ first # null => 1 \in 1 .. Len(q) /\ first = q[1] /\ first \in Elems(q)
           /\ Elems(q) \subseteq Elements
           /\ q = <<>> => Elems(q) = {}
<1>1. /\ Len(q) \in Nat /\ q \in [1 .. Len(q) -> Elements]
      /\ first = At(q, 1)
  BY SeqIsFunction DEF Chain
<1>2. CASE Len(q) = 0
  <2>1. q = <<>> /\ ~(1 <= Len(q))
    BY <1>2 DEF Chain
  <2> QED BY <1>1, <1>2, <2>1 DEF At, Elems
<1>3. CASE Len(q) # 0
  <2>1. q # <<>> /\ 1 <= Len(q) /\ 1 \in 1 .. Len(q)
    BY <1>1, <1>3 DEF Chain
  <2> QED BY <1>1, <2>1 DEF At, Elems
<1> QED BY <1>2, <1>3

\* The first is unlinked by going on to the next.
LEMMA DropFirst ==
    ASSUME null \notin Elements, NEW q, NEW first, NEW next, LinkedIn(q, first, next), first # null
    PROVE  /\ LinkedIn(Deleted(q, 1), next[first], next)
           /\ Elems(Deleted(q, 1)) = Elems(q) \ {first}
           /\ \A rel : Ordered(q, rel) =>
                 /\ Ordered(Deleted(q, 1), rel)
                 /\ \A x \in Elems(Deleted(q, 1)) : <<first, x>> \in rel
<1>1. /\ 1 \in 1 .. Len(q) /\ first = q[1]
      /\ q \in Seq(Elements) /\ Len(q) \in Nat
      /\ \A i, j \in 1 .. Len(q) : q[i] = q[j] => i = j
  BY FirstOf, SeqIsFunction DEF LinkedIn, Chain
<1>2. LinkedIn(Deleted(q, 1), next[first], next)
  <2>1. \A i \in 1 .. Len(q) : i # 1 => next[q[i]] = IF i = 1 - 1 THEN next[q[1]] ELSE next[q[i]]
    BY <1>1
  <2>2. next \in [Elements -> Elements \cup {null}]
    BY DEF LinkedIn
  <2>3. next[first] = IF 1 = 1 THEN next[q[1]] ELSE first
    BY <1>1
  <2> QED BY <1>1, <2>1, <2>2, <2>3, DeleteLinks
<1>3. /\ Elems(Deleted(q, 1)) = Elems(q) \ {first}
      /\ \A rel : Ordered(q, rel) => Ordered(Deleted(q, 1), rel)
  BY <1>1, DeletedElems
<1>4. ASSUME NEW rel, Ordered(q, rel), NEW x \in Elems(q), x # first
      PROVE  <<first, x>> \in rel
  <2>1. PICK i \in 1 .. Len(q) : x = q[i]
    BY DEF Elems
  <2>2. 1 < i
    BY <1>1, <1>4, <2>1
  <2> QED BY <1>1, <1>4, <2>1, <2>2 DEF Ordered
<1> QED BY <1>2, <1>3, <1>4

\* And one is put before it.
LEMMA PutFirst ==
    ASSUME NEW q, NEW first, NEW next, LinkedIn(q, first, next),
           NEW el \in Elements, el \notin Elems(q)
    PROVE  /\ LinkedIn(Inserted(q, 1, el), el, [next EXCEPT ![el] = first])
           /\ Elems(Inserted(q, 1, el)) = Elems(q) \cup {el}
           /\ \A rel : Ordered(q, rel) /\ (\A x \in Elems(q) : <<el, x>> \in rel)
                       => Ordered(Inserted(q, 1, el), rel)
<1> DEFINE g == [next EXCEPT ![el] = first]
<1>1. /\ q \in Seq(Elements) /\ Len(q) \in Nat /\ q \in [1 .. Len(q) -> Elements]
      /\ first = At(q, 1) /\ first \in Elements \cup {null}
      /\ next \in [Elements -> Elements \cup {null}]
  BY SeqIsFunction DEF LinkedIn, Chain
<1>2. 1 \in 1 .. Len(q) + 1 /\ \A i \in 1 .. Len(q) : i \in 1 .. Len(q) /\ q[i] \in Elems(q)
  BY <1>1 DEF Elems
<1>3. LinkedIn(Inserted(q, 1, el), el, g)
  <2>1. g \in [Elements -> Elements \cup {null}] /\ g[el] = At(q, 1)
    BY <1>1
  <2>2. \A i \in 1 .. Len(q) : g[q[i]] = IF i = 1 - 1 THEN el ELSE next[q[i]]
    BY <1>1, <1>2
  <2>3. el = IF 1 = 1 THEN el ELSE first
    OBVIOUS
  <2>4. \A i \in 1 .. Len(q) : q[i] # el
    BY <1>2
  <2> HIDE DEF g
  <2> QED BY <1>2, <2>1, <2>2, <2>3, <2>4, InsertLinks
<1>4. /\ Elems(Inserted(q, 1, el)) = Elems(q) \cup {el}
      /\ \A rel : Ordered(q, rel) /\ (\A i \in 1 .. 1 - 1 : <<q[i], el>> \in rel)
                                  /\ (\A i \in 1 .. Len(q) : <<el, q[i]>> \in rel)
                  => Ordered(Inserted(q, 1, el), rel)
  BY <1>1, <1>2, InsertedElems
<1> QED BY <1>2, <1>3, <1>4

\* A list is what it was as long as the pointers of what is in it are.
LEMMA Untouched ==
    ASSUME NEW q, NEW first, NEW next, LinkedIn(q, first, next),
           NEW g \in [Elements -> Elements \cup {null}], \A x \in Elems(q) : g[x] = next[x]
    PROVE  LinkedIn(q, first, g)
  BY DEF LinkedIn, Chain, Elems

=============================================================================
