------------------------- MODULE McuInterruptsProofs -------------------------
(***************************************************************************)
(* The interrupt controller keeps its promises to every program of tame    *)
(* habits, for every set of interrupts and of priorities.                  *)
(*                                                                         *)
(* The inductive invariant names two sequences, P and R, that m_pending    *)
(* and m_running spell although they share one pointer for each interrupt, *)
(* and says what is in them, and in which order.  What a program must not  *)
(* do is what would put one interrupt into both.                           *)
(***************************************************************************)
EXTENDS McuInterrupts, FiniteSetTheorems, TLAPS

\* Of this module only the lemmas about lists that are threaded through what
\* they hold are used here: the interrupts.
Links == INSTANCE EventQueueProofs
    WITH Elements <- Ints, Time <- {1}, queue <- <<>>, due <- [i \in Ints |-> 0], now <- 1,
         resumed <- FALSE, overtaken <- {}

\* A program that may nest routines leaves the flags of those in service alone,
\* one that has level interrupts too and does not change priorities, and none
\* returns without having cleared the flag that brought it there.
Tame(f) ==
    /\ "leave" \notin f
    /\ "nest" \in f => "touch" \notin f /\ "level" \notin f
    /\ "level" \in f => "touch" \notin f /\ "reprioritise" \notin f

AllTame == \A f \in Firmwares : Tame(f)

-----------------------------------------------------------------------------
\* The inductive invariant.

Descending == {e \in Ints \X Ints : m_priority[e[2]] <= m_priority[e[1]]}
Strictly == {e \in Ints \X Ints : m_priority[e[1]] > m_priority[e[2]]}

\* The two lists, and the active interrupt beside them.
Lists(P, R) ==
    /\ Links!LinkedIn(P, m_pending, m_nextInt)
    /\ Links!LinkedIn(R, m_running, m_nextInt)
    /\ Links!Elems(P) \cap Links!Elems(R) = {}
    /\ m_active \notin Links!Elems(R)
    /\ m_active = null => R = <<>>

\* What waits.
Waiting(P, R) ==
    /\ Links!Elems(P) \subseteq m_raised \cap m_enabled
    /\ (m_raised \cap m_enabled) \ (Links!Elems(R) \cup {m_active}) \subseteq Links!Elems(P)

\* In which order.
Sorted(P, R) ==
    "reprioritise" \notin firmware =>
        /\ Links!Ordered(P, Descending)
        /\ Links!Ordered(R, Strictly)
        /\ \A i \in Links!Elems(R) : m_priority[m_active] > m_priority[i]

\* What the program's habits have kept.
Kept(P, R) ==
    /\ "nest" \notin firmware => R = <<>> /\ (m_active # null => ~m_global)
    /\ "nest" \in firmware =>
          /\ m_active \notin Links!Elems(P)
          /\ Links!Elems(R) \subseteq m_raised
          /\ m_active \in m_raised \cup {null}
          /\ m_autoClear = Ints
    /\ "level" \notin firmware => m_continuous = {}
    /\ "level" \in firmware => m_active \in m_enabled \cup {null}

Held(P, R) == Lists(P, R) /\ Waiting(P, R) /\ Sorted(P, R) /\ Kept(P, R)

IInv == TypeOK /\ SleepsOnlyIdle /\ \E P, R : Held(P, R)

-----------------------------------------------------------------------------

\* The assumption on the constants, in the form the leaves use.
LEMMA Constants ==
    /\ null \notin Ints /\ IsFiniteSet(Ints) /\ Priorities \subseteq Nat
    /\ Modes \subseteq 0 .. 3
  BY InterruptsAssumption

\* The assumption of EventQueue.
LEMMA OneTime == {1} \subseteq Nat \ {0} /\ 1 \in {1}
  OBVIOUS

\* A list without repetitions is no longer than there are elements.
LEMMA ChainLength ==
    ASSUME NEW q \in Seq(Ints),
           \A i, j \in 1 .. Len(q) : q[i] = q[j] => i = j
    PROVE  Len(q) <= Cardinality(Ints) /\ Cardinality(Ints) \in Nat
<1>1. Len(q) \in Nat /\ q \in [1 .. Len(q) -> Ints]
  BY Links!SeqIsFunction, OneTime
<1>2. q \in Injection(1 .. Len(q), Ints)
  BY <1>1 DEF Injection, IsInjective
<1>3. Cardinality(1 .. Len(q)) <= Cardinality(Ints)
  BY <1>2, FS_Injection, Constants
<1>4. Cardinality(1 .. Len(q)) = Len(q)
  BY <1>1, FS_Interval
<1> QED BY <1>3, <1>4, FS_CardinalityType, Constants

\* A walk along a list meets what is in it.
LEMMA Walks ==
    ASSUME NEW q, NEW first, Links!Chain(q, first, m_nextInt)
    PROVE  /\ Cardinality(Ints) \in Nat /\ Len(q) <= Cardinality(Ints)
           /\ DOMAIN walk(first) = 0 .. Cardinality(Ints)
           /\ \A n \in 0 .. Cardinality(Ints) : walk(first)[n] = Links!At(q, n + 1)
           /\ Members(first) = Links!Elems(q)
           /\ Ends(first)
<1> DEFINE C == Cardinality(Ints)
<1>1. C \in Nat /\ Len(q) <= C
  BY ChainLength DEF Links!Chain
<1> HIDE DEF C
<1>2. \E w : Links!IsWalk(w, first, m_nextInt, C)
  BY <1>1, Links!WalkExists, Constants
<1>3. Links!IsWalk(walk(first), first, m_nextInt, C)
  BY <1>2 DEF walk, C, Links!IsWalk
<1>4. DOMAIN walk(first) = 0 .. C /\ \A n \in 0 .. C : walk(first)[n] = Links!At(q, n + 1)
  BY <1>1, <1>3, Links!WalkMeets, Constants
<1>5. {walk(first)[n] : n \in 0 .. C} \ {null} = Links!Elems(q) /\ walk(first)[C] = null
  BY <1>1, <1>4, Links!WalkElems, Constants
<1> QED
  BY <1>1, <1>4, <1>5 DEF C, Members, Ends

\* Priorities are numbers.
LEMMA PriorityIsNat ==
    ASSUME TypeOK
    PROVE  \A i \in Ints : m_priority[i] \in Nat
  BY Constants DEF TypeOK

\* addToPending stops after s of P: behind all of the priority of i or a higher
\* one that come before any other.
StopsAfter(P, i, s) ==
    /\ \A m \in 1 .. s : m_priority[i] <= m_priority[P[m]]
    /\ s < Len(P) => ~(m_priority[i] <= m_priority[P[s + 1]])
    /\ (\E m \in 1 .. s : P[m] = i) => UNCHANGED <<m_pending, m_nextInt>>
    /\ ~(\E m \in 1 .. s : P[m] = i) =>
          /\ m_pending' = IF s = 0 THEN i ELSE m_pending
          /\ m_nextInt' = [j \in Ints |-> IF j = i THEN Links!At(P, s + 1)
                                          ELSE IF s > 0 /\ j = P[s] THEN i
                                          ELSE m_nextInt[j]]

\* There is such a place.
LEMMA AddPlace ==
    ASSUME NEW P, Links!LinkedIn(P, m_pending, m_nextInt), NEW i \in Ints, addToPending(i)
    PROVE  \E s \in 0 .. Len(P) : StopsAfter(P, i, s)
<1> DEFINE C == Cardinality(Ints)
           at == walk(m_pending)
           ahead(n) == at[n] # null /\ m_priority[i] <= m_priority[at[n]]
           stops(n) == ~ahead(n) /\ \A k \in DOMAIN at : k < n => ahead(k)
           stop == CHOOSE n \in DOMAIN at : stops(n)
<1>1. /\ C \in Nat /\ Len(P) <= C /\ DOMAIN at = 0 .. C
      /\ \A n \in 0 .. C : at[n] = Links!At(P, n + 1)
      /\ at[C] = null
  BY Walks DEF Links!LinkedIn, Ends
<1>2. Len(P) \in Nat /\ P \in [1 .. Len(P) -> Ints]
  BY Links!SeqIsFunction DEF Links!LinkedIn, Links!Chain
<1>3. /\ (\E n \in DOMAIN at : n < stop /\ at[n] = i) => UNCHANGED <<m_pending, m_nextInt>>
      /\ ~(\E n \in DOMAIN at : n < stop /\ at[n] = i) =>
           /\ m_pending' = IF stop = 0 THEN i ELSE m_pending
           /\ m_nextInt' = [j \in Ints |-> IF j = i THEN at[stop]
                                           ELSE IF stop > 0 /\ j = at[stop - 1] THEN i
                                           ELSE m_nextInt[j]]
  BY Zenon DEF addToPending
<1> HIDE DEF at, C
<1>4. \E n \in DOMAIN at : stops(n)
  <2> DEFINE T == {n \in 0 .. C : ~ahead(n)}
  <2>1. C \in T /\ T \subseteq Nat
    BY <1>1
  <2>2. PICK n \in T : \A k \in T : n <= k
    BY <2>1, OneTime, Links!LeastNatural
  <2>3. \A k \in DOMAIN at : k < n => ahead(k)
    BY <1>1, <2>1, <2>2
  <2> QED
    BY <1>1, <2>2, <2>3
<1>5. stop \in 0 .. C /\ ~ahead(stop) /\ \A k \in 0 .. C : k < stop => ahead(k)
  BY <1>1, <1>4
<1> HIDE DEF stop
<1>6. stop <= Len(P)
  <2>1. Len(P) \in 0 .. C /\ ~(Len(P) + 1 <= Len(P))
    BY <1>1, <1>2
  <2>2. at[Len(P)] = null
    BY <1>1, <2>1 DEF Links!At
  <2> QED
    BY <1>1, <1>5, <2>1, <2>2
<1>7. \A m \in 1 .. stop : m - 1 \in 0 .. C /\ m - 1 < stop /\ at[m - 1] = P[m] /\ m \in 1 .. Len(P)
  <2> TAKE m \in 1 .. stop
  <2>1. m - 1 \in 0 .. C /\ m - 1 < stop /\ (m - 1) + 1 = m /\ m <= Len(P) /\ m \in 1 .. Len(P)
    BY <1>1, <1>2, <1>5, <1>6
  <2> QED
    BY <1>1, <2>1 DEF Links!At
<1>8. \A m \in 1 .. stop : m_priority[i] <= m_priority[P[m]]
  BY <1>5, <1>7
<1>9. stop < Len(P) => ~(m_priority[i] <= m_priority[P[stop + 1]])
  <2> SUFFICES ASSUME stop < Len(P) PROVE ~(m_priority[i] <= m_priority[P[stop + 1]])
    OBVIOUS
  <2>1. stop + 1 \in 1 .. Len(P) /\ stop + 1 <= Len(P)
    BY <1>1, <1>2, <1>5
  <2>2. at[stop] = P[stop + 1] /\ P[stop + 1] \in Ints
    BY <1>1, <1>2, <1>5, <2>1 DEF Links!At
  <2> QED
    BY <1>5, <2>2, Constants
<1>10. (\E m \in 1 .. stop : P[m] = i) <=> \E n \in DOMAIN at : n < stop /\ at[n] = i
  <2>1. ASSUME NEW n \in 0 .. C, n < stop, at[n] = i PROVE \E m \in 1 .. stop : P[m] = i
    <3>1. n + 1 \in 1 .. stop /\ (n + 1) - 1 = n
      BY <1>1, <1>5, <2>1
    <3> QED
      BY <1>7, <2>1, <3>1
  <2> QED
    BY <1>1, <1>7, <2>1
<1>11. at[stop] = Links!At(P, stop + 1) /\ (stop > 0 => at[stop - 1] = P[stop])
  <2>1. stop > 0 => stop \in 1 .. stop
    BY <1>5, <1>1
  <2> QED
    BY <1>1, <1>5, <1>7, <2>1
<1>12. stop \in 0 .. Len(P)
  BY <1>1, <1>2, <1>5, <1>6
<1>13. m_nextInt' = [j \in Ints |-> IF j = i THEN Links!At(P, stop + 1)
                                    ELSE IF stop > 0 /\ j = P[stop] THEN i
                                    ELSE m_nextInt[j]]
       \/ \E m \in 1 .. stop : P[m] = i
  BY <1>3, <1>10, <1>11
<1> QED
  BY <1>3, <1>8, <1>9, <1>10, <1>12, <1>13 DEF StopsAfter

-----------------------------------------------------------------------------
\* What the operations on the list of pending interrupts do to P.

\* An interrupt that does not wait yet waits afterwards, in its place.
LEMMA AddNew ==
    ASSUME TypeOK, NEW P, NEW R, Lists(P, R), NEW i \in Ints \ (Links!Elems(P) \cup Links!Elems(R)),
           addToPending(i), m_priority' = m_priority
    PROVE  \E p : /\ Links!LinkedIn(p, m_pending', m_nextInt')
                  /\ Links!LinkedIn(R, m_running, m_nextInt')
                  /\ Links!Elems(p) = Links!Elems(P) \cup {i}
                  /\ Links!Ordered(P, Descending) => Links!Ordered(p, Descending')
<1>1. /\ P \in Seq(Ints) /\ Len(P) \in Nat /\ P \in [1 .. Len(P) -> Ints]
      /\ \A a, b \in 1 .. Len(P) : P[a] = P[b] => a = b
      /\ Links!LinkedIn(P, m_pending, m_nextInt)
      /\ \A m \in 1 .. Len(P) : P[m] # i /\ P[m] \in Links!Elems(P)
      /\ m_nextInt \in [Ints -> Ints \cup {null}]
      /\ i \in Ints
  BY Links!SeqIsFunction DEF Lists, Links!LinkedIn, Links!Chain, Links!Elems
<1>2. PICK s \in 0 .. Len(P) :
         /\ \A m \in 1 .. s : m_priority[i] <= m_priority[P[m]]
         /\ s < Len(P) => ~(m_priority[i] <= m_priority[P[s + 1]])
         /\ m_pending' = IF s = 0 THEN i ELSE m_pending
         /\ m_nextInt' = [j \in Ints |-> IF j = i THEN Links!At(P, s + 1)
                                         ELSE IF s > 0 /\ j = P[s] THEN i
                                         ELSE m_nextInt[j]]
  <2>1. PICK s \in 0 .. Len(P) : StopsAfter(P, i, s)
    BY <1>1, AddPlace
  <2>2. ~(\E m \in 1 .. s : P[m] = i)
    BY <1>1
  <2> QED
    BY <2>1, <2>2 DEF StopsAfter
<1> DEFINE k == s + 1
           p == Links!Inserted(P, k, i)
<1>3. k \in 1 .. Len(P) + 1 /\ k - 1 = s /\ (k = 1 <=> s = 0) /\ s \in Nat
      /\ (s > 0 => s \in 1 .. Len(P))
  BY <1>1
<1>4. /\ Links!At(P, k) \in Ints \cup {null}
      /\ m_nextInt' \in [Ints -> Ints \cup {null}]
      /\ m_nextInt'[i] = Links!At(P, k)
  <2>1. Links!At(P, k) \in Ints \cup {null}
    BY <1>1, <1>3 DEF Links!At
  <2> QED
    BY <1>1, <1>2, <2>1
<1>5. \A m \in 1 .. Len(P) : m_nextInt'[P[m]] = IF m = k - 1 THEN i ELSE m_nextInt[P[m]]
  <2> TAKE m \in 1 .. Len(P)
  <2>1. P[m] \in Ints /\ P[m] # i
    BY <1>1
  <2>2. s > 0 /\ P[m] = P[s] <=> m = s
    BY <1>1, <1>3
  <2> QED
    BY <1>2, <1>3, <2>1, <2>2
<1>6. m_pending' = IF k = 1 THEN i ELSE m_pending
  BY <1>2, <1>3
<1>7. Links!LinkedIn(p, m_pending', m_nextInt')
  <2> HIDE DEF k
  <2> QED
    BY <1>1, <1>3, <1>4, <1>5, <1>6, Links!InsertLinks
<1>8. Links!LinkedIn(R, m_running, m_nextInt')
  <2>1. ASSUME NEW x \in Links!Elems(R) PROVE m_nextInt'[x] = m_nextInt[x]
    <3>1. x \in Ints /\ x # i
      BY Links!FirstOf, Constants DEF Lists, Links!LinkedIn
    <3>2. s > 0 => x # P[s]
      BY <1>1, <1>3 DEF Lists
    <3> QED
      BY <1>2, <3>1, <3>2
  <2> QED
    BY <1>4, <2>1, Links!Untouched DEF Lists
<1>9. /\ Links!Elems(p) = Links!Elems(P) \cup {i}
      /\ \A rel : Links!Ordered(P, rel) /\ (\A m \in 1 .. k - 1 : <<P[m], i>> \in rel)
                                  /\ (\A m \in k .. Len(P) : <<i, P[m]>> \in rel)
                  => Links!Ordered(p, rel)
  <2> HIDE DEF k
  <2> QED
    BY <1>1, <1>3, Links!InsertedElems
<1>10. Descending' = Descending
  BY DEF Descending
<1>11. ASSUME Links!Ordered(P, Descending) PROVE Links!Ordered(p, Descending)
  <2>1. \A m \in 1 .. k - 1 : <<P[m], i>> \in Descending
    BY <1>1, <1>2, <1>3 DEF Descending
  <2>2. \A m \in k .. Len(P) : <<i, P[m]>> \in Descending
    <3> TAKE m \in k .. Len(P)
    <3>1. k \in 1 .. Len(P) /\ m \in 1 .. Len(P) /\ (m = k \/ k < m) /\ s < Len(P)
      BY <1>1, <1>3
    <3>2. ~(m_priority[i] <= m_priority[P[k]])
      BY <1>2, <3>1
    <3>3. m_priority[P[m]] <= m_priority[P[k]]
      <4>1. CASE m = k
        BY <1>1, <3>1, <4>1, PriorityIsNat
      <4>2. CASE k < m
        BY <1>11, <3>1, <4>2 DEF Links!Ordered, Descending
      <4> QED
        BY <3>1, <4>1, <4>2
    <3>4. m_priority[P[m]] \in Nat /\ m_priority[P[k]] \in Nat /\ m_priority[i] \in Nat
      BY <1>1, <3>1, PriorityIsNat
    <3>5. m_priority[P[m]] <= m_priority[i]
      BY <3>2, <3>3, <3>4
    <3> QED
      BY <1>1, <3>1, <3>5 DEF Descending
  <2> QED
    BY <1>9, <1>11, <2>1, <2>2
<1> HIDE DEF p
<1> QED
  BY <1>7, <1>8, <1>9, <1>10, <1>11

\* One that waits is met on the way when the list is in order, and stays where
\* it is.
LEMMA AddKnown ==
    ASSUME TypeOK, NEW P, Links!LinkedIn(P, m_pending, m_nextInt), Links!Ordered(P, Descending),
           NEW i \in Links!Elems(P), addToPending(i)
    PROVE  UNCHANGED <<m_pending, m_nextInt>>
<1>1. /\ Len(P) \in Nat /\ P \in [1 .. Len(P) -> Ints]
  BY Links!SeqIsFunction DEF Links!LinkedIn, Links!Chain
<1>2. PICK n \in 1 .. Len(P) : P[n] = i
  BY DEF Links!Elems
<1>3. i \in Ints
  BY <1>1, <1>2
<1>4. PICK s \in 0 .. Len(P) : StopsAfter(P, i, s)
  BY <1>3, AddPlace
<1>5. n <= s
  <2> SUFFICES ASSUME s < n PROVE FALSE
    BY <1>1
  <2>1. s + 1 \in 1 .. Len(P) /\ s < Len(P) /\ (s + 1 = n \/ s + 1 < n)
    BY <1>1
  <2>2. m_priority[i] <= m_priority[P[s + 1]]
    <3>1. CASE s + 1 = n
      BY <1>2, <1>3, <3>1, PriorityIsNat
    <3>2. CASE s + 1 < n
      BY <1>2, <2>1, <3>2 DEF Links!Ordered, Descending
    <3> QED
      BY <2>1, <3>1, <3>2
  <2> QED
    BY <1>4, <2>1, <2>2 DEF StopsAfter
<1>6. n \in 1 .. s
  BY <1>1, <1>5
<1> QED
  BY <1>2, <1>4, <1>6 DEF StopsAfter

\* remFromPending: i does not wait any more.
LEMMA Remove ==
    ASSUME TypeOK, NEW P, NEW R, Lists(P, R), NEW i \in Ints, remFromPending(i),
           m_priority' = m_priority
    PROVE  \E p : /\ Links!LinkedIn(p, m_pending', m_nextInt')
                  /\ Links!LinkedIn(R, m_running, m_nextInt')
                  /\ Links!Elems(p) = Links!Elems(P) \ {i}
                  /\ Links!Ordered(P, Descending) => Links!Ordered(p, Descending')
<1>1. /\ P \in Seq(Ints) /\ Len(P) \in Nat /\ P \in [1 .. Len(P) -> Ints]
      /\ \A a, b \in 1 .. Len(P) : P[a] = P[b] => a = b
      /\ Links!LinkedIn(P, m_pending, m_nextInt)
      /\ Links!Elems(P) = {P[m] : m \in 1 .. Len(P)}
      /\ m_nextInt \in [Ints -> Ints \cup {null}]
      /\ \A m \in 1 .. Len(P) : m_nextInt[P[m]] = Links!At(P, m + 1)
      /\ m_pending = Links!At(P, 1)
  BY Links!SeqIsFunction DEF Lists, Links!LinkedIn, Links!Chain, Links!Elems
<1>2. Members(m_pending) = Links!Elems(P)
  BY Walks DEF Lists, Links!LinkedIn
<1>3. Descending' = Descending
  BY DEF Descending
<1>4. CASE i \notin Links!Elems(P)
  <2>1. m_pending # i
    BY <1>4, Links!FirstOf, Constants DEF Lists, Links!LinkedIn
  <2>2. UNCHANGED <<m_pending, m_nextInt>>
    BY <1>2, <1>4, <2>1 DEF remFromPending
  <2> QED
    BY <1>1, <1>3, <1>4, <2>2 DEF Lists
<1>5. CASE i \in Links!Elems(P)
  <2>1. PICK k \in 1 .. Len(P) : P[k] = i
    BY <1>1, <1>5
  <2>2. m_pending = i <=> k = 1
    <3>1. 1 \in 1 .. Len(P) /\ Links!At(P, 1) = P[1]
      BY <1>1, <2>1 DEF Links!At
    <3> QED
      BY <1>1, <2>1, <3>1
  <2>3. m_pending' = IF k = 1 THEN m_nextInt[P[k]] ELSE m_pending
    BY <2>1, <2>2 DEF remFromPending
  <2>4. ASSUME NEW m \in 1 .. Len(P), m_nextInt[P[m]] = i PROVE m = k - 1
    <3>1. Links!At(P, m + 1) = i
      BY <1>1, <2>4
    <3>2. m + 1 \in 1 .. Len(P) /\ P[m + 1] = i
      BY <1>1, <3>1, Constants DEF Links!At
    <3> QED
      BY <1>1, <2>1, <3>2
  <2>5. k # 1 => k - 1 \in 1 .. Len(P) /\ m_nextInt[P[k - 1]] = i
    <3> SUFFICES ASSUME k # 1 PROVE k - 1 \in 1 .. Len(P) /\ m_nextInt[P[k - 1]] = i
      OBVIOUS
    <3>1. k - 1 \in 1 .. Len(P) /\ (k - 1) + 1 = k /\ k <= Len(P)
      BY <1>1
    <3> QED
      BY <1>1, <2>1, <3>1 DEF Links!At
  <2>6. /\ m_nextInt' \in [Ints -> Ints \cup {null}]
        /\ \A j \in Ints \ Links!Elems(P) : m_nextInt'[j] = m_nextInt[j]
        /\ \A j \in Links!Elems(P) : m_nextInt'[j] = IF k # 1 /\ m_nextInt[j] = i
                                                 THEN m_nextInt[i] ELSE m_nextInt[j]
    <3>1. Links!Elems(P) \subseteq Ints
      BY <1>1
    <3>2. CASE k = 1
      BY <1>1, <2>2, <3>1, <3>2 DEF remFromPending
    <3>3. CASE k # 1
      BY <1>1, <1>2, <1>5, <2>2, <3>1, <3>3 DEF remFromPending
    <3> QED
      BY <3>2, <3>3
  <2>7. \A m \in 1 .. Len(P) :
           m # k => m_nextInt'[P[m]] = IF m = k - 1 THEN m_nextInt[P[k]] ELSE m_nextInt[P[m]]
    <3> TAKE m \in 1 .. Len(P)
    <3> HAVE m # k
    <3>1. P[m] \in Links!Elems(P)
      BY <1>1
    <3>2. CASE m = k - 1
      <4>1. k # 1
        BY <1>1, <3>2
      <4> QED
        BY <2>1, <2>5, <2>6, <3>1, <3>2, <4>1
    <3>3. CASE m # k - 1
      <4>1. m_nextInt[P[m]] # i
        BY <2>4, <3>3
      <4> QED
        BY <2>6, <3>1, <3>3, <4>1
    <3> QED
      BY <3>2, <3>3
  <2>8. Links!LinkedIn(Links!Deleted(P, k), m_pending', m_nextInt')
    <3>1. m_nextInt' \in [Ints -> Ints \cup {null}]
      BY <2>6
    <3> QED
      BY <1>1, <2>3, <2>7, <3>1, OneTime, Links!DeleteLinks, Zenon
  <2>9. /\ Links!Elems(Links!Deleted(P, k)) = Links!Elems(P) \ {i}
        /\ \A rel : Links!Ordered(P, rel) => Links!Ordered(Links!Deleted(P, k), rel)
    BY <1>1, <2>1, OneTime, Links!DeletedElems
  <2>10. Links!LinkedIn(R, m_running, m_nextInt')
    <3>1. \A x \in Links!Elems(R) : x \in Ints \ Links!Elems(P)
      BY Links!FirstOf, Constants DEF Lists, Links!LinkedIn
    <3> QED
      BY <2>6, <3>1, Links!Untouched DEF Lists
  <2> QED
    BY <1>3, <2>8, <2>9, <2>10
<1> QED
  BY <1>4, <1>5

\* clearFlag: nor is it raised.
LEMMA Clear ==
    ASSUME TypeOK, NEW P, NEW R, Held(P, R), NEW i \in Ints, clearFlag(i), m_priority' = m_priority
    PROVE  \E p : /\ Links!LinkedIn(p, m_pending', m_nextInt')
                  /\ Links!LinkedIn(R, m_running, m_nextInt')
                  /\ Links!Elems(p) = Links!Elems(P) \ {i}
                  /\ Links!Ordered(P, Descending) => Links!Ordered(p, Descending')
<1>1. CASE i \in m_raised
  BY <1>1, Remove DEF clearFlag, Held
<1>2. CASE i \notin m_raised
  <2>1. UNCHANGED <<m_pending, m_nextInt>> /\ i \notin Links!Elems(P) /\ Descending' = Descending
    BY <1>2 DEF clearFlag, Held, Waiting, Descending
  <2> QED
    BY <2>1 DEF Held, Lists
<1> QED
  BY <1>1, <1>2

-----------------------------------------------------------------------------
\* The steps.

\* All of the types but those of the pointers of the lists.
RestTyped ==
    /\ firmware \in Firmwares
    /\ m_raised \subseteq Ints
    /\ m_enabled \subseteq Ints
    /\ m_continuous \subseteq Ints
    /\ m_autoClear \subseteq Ints
    /\ m_priority \in [Ints -> Priorities]
    /\ m_active \in Ints \cup {null}
    /\ m_global \in BOOLEAN
    /\ m_wakeup \in [Ints -> Masks \cup {{}}]
    /\ m_sleepMode \in Modes
    /\ m_state \in {"running", "sleeping"}

\* They are kept by every step.
LEMMA RestStep ==
    ASSUME TypeOK, [Next]_vars
    PROVE  RestTyped'
<1> USE DEF TypeOK, RestTyped, setup, flags, service, sleep
<1>1. ASSUME NEW i \in Ints, Raise(i) PROVE RestTyped'
  BY <1>1 DEF Raise
<1>2. ASSUME NEW i \in Ints, Lower(i) PROVE RestTyped'
  BY <1>2 DEF Lower, clearFlag
<1>3. ASSUME NEW i \in Ints, WriteFlag(i) PROVE RestTyped'
  BY <1>3 DEF WriteFlag, clearFlag
<1>4. ASSUME NEW i \in Ints, NEW b \in BOOLEAN, EnableFlag(i, b) PROVE RestTyped'
  BY <1>4 DEF EnableFlag
<1>5. ASSUME NEW i \in Ints, NEW b \in BOOLEAN, SetContinuous(i, b) PROVE RestTyped'
  BY <1>5 DEF SetContinuous, clearFlag
<1>6. ASSUME NEW i \in Ints, NEW p \in Priorities, SetPriority(i, p) PROVE RestTyped'
  BY <1>6 DEF SetPriority
<1>7. ASSUME NEW b \in BOOLEAN, EnableGlobal(b) PROVE RestTyped'
  BY <1>7 DEF EnableGlobal
<1>8. CASE RetI
  <2>1. m_raised' \subseteq Ints
    BY <1>8 DEF RetI, clearFlag
  <2> QED
    BY <1>8, <2>1 DEF RetI
<1>9. CASE RunInterrupts
  BY <1>9 DEF RunInterrupts, execute
<1>10. CASE Sleep
  <2>1. CASE due
    BY <1>10, <2>1 DEF Sleep, execute
  <2>2. CASE ~due
    BY <1>10, <2>2 DEF Sleep
  <2> QED
    BY <2>1, <2>2
<1>11. CASE WatchdogWakes
  BY <1>11 DEF WatchdogWakes
<1>12. CASE Reset
  BY <1>12 DEF Reset
<1>13. CASE UNCHANGED vars
  BY <1>13 DEF vars
<1> HIDE DEF TypeOK, RestTyped
<1> QED
  BY <1>1, <1>2, <1>3, <1>4, <1>5, <1>6, <1>7, <1>8, <1>9, <1>10, <1>11, <1>12, <1>13 DEF Next

\* One interrupt comes to the pending ones, or goes from them, and nothing else
\* changes its place.
LEMMA PendingStep ==
    ASSUME NEW P, NEW R, Held(P, R), NEW p, NEW i \in Ints, NEW E,
           Links!LinkedIn(p, m_pending', m_nextInt'),
           Links!LinkedIn(R, m_running, m_nextInt'),
           Links!Elems(p) = E, E \subseteq Links!Elems(P) \cup {i}, E \cap Links!Elems(R) = {},
           Links!Ordered(P, Descending) => Links!Ordered(p, Descending'),
           UNCHANGED <<m_running, m_active, m_priority, firmware>>
    PROVE  Lists(p, R)' /\ Sorted(p, R)'
<1>1. Lists(p, R)'
  BY DEF Held, Lists
<1>2. Strictly' = Strictly
  BY DEF Strictly
<1>3. Sorted(p, R)'
  BY <1>2 DEF Held, Sorted
<1> QED
  BY <1>1, <1>3

\* What is in service is what R says.
LEMMA ServiceIs ==
    ASSUME NEW P, NEW R, Held(P, R)
    PROVE  InService = Links!Elems(R) \cup ({m_active} \ {null})
  BY Walks DEF Held, Lists, Links!LinkedIn, InService

\* Raise: an interrupt that was not raised waits nowhere.
LEMMA RaiseStep ==
    ASSUME TypeOK, NEW P, NEW R, Held(P, R), NEW i \in Ints, Raise(i)
    PROVE  \E p : Held(p, R)'
<1>1. /\ i \notin m_raised /\ m_raised' = m_raised \cup {i}
      /\ UNCHANGED <<firmware, m_continuous, m_autoClear, m_priority, m_enabled, m_running, m_active,
                     m_global>>
  BY DEF Raise, setup, service
<1>2. i \notin Links!Elems(P)
  BY <1>1 DEF Held, Waiting
<1>3. CASE i \in m_enabled
  <2>1. i \notin Links!Elems(R)
    <3>1. CASE "nest" \in firmware
      BY <1>1, <3>1 DEF Held, Kept
    <3>2. CASE "nest" \notin firmware
      BY <3>2, Links!FirstOf, Constants DEF Held, Kept, Lists, Links!LinkedIn
    <3> QED
      BY <3>1, <3>2
  <2>2. addToPending(i)
    BY <1>3 DEF Raise
  <2>3. PICK p : /\ Links!LinkedIn(p, m_pending', m_nextInt')
                 /\ Links!LinkedIn(R, m_running, m_nextInt')
                 /\ Links!Elems(p) = Links!Elems(P) \cup {i}
                 /\ Links!Ordered(P, Descending) => Links!Ordered(p, Descending')
    BY <1>1, <1>2, <2>1, <2>2, AddNew DEF Held
  <2>4. Lists(p, R)' /\ Sorted(p, R)'
    <3>1. Links!Elems(p) \subseteq Links!Elems(P) \cup {i} /\ Links!Elems(p) \cap Links!Elems(R) = {}
      BY <2>1, <2>3 DEF Held, Lists
    <3> QED
      BY <1>1, <2>3, <3>1, PendingStep
  <2>5. Waiting(p, R)'
    BY <1>1, <1>3, <2>3 DEF Held, Waiting
  <2>6. Kept(p, R)'
    <3>1. "nest" \in firmware => m_active # i
      BY <1>1, Constants DEF Held, Kept
    <3> QED
      BY <1>1, <2>3, <3>1 DEF Held, Kept
  <2> QED
    BY <2>4, <2>5, <2>6 DEF Held
<1>4. CASE i \notin m_enabled
  <2>1. UNCHANGED <<m_pending, m_nextInt>>
    BY <1>4 DEF Raise
  <2>2. Lists(P, R)' /\ Sorted(P, R)'
    BY <1>1, <2>1 DEF Held, Lists, Sorted, Descending, Strictly
  <2>3. Waiting(P, R)' /\ Kept(P, R)'
    BY <1>1, <1>4 DEF Held, Waiting, Kept
  <2> QED
    BY <2>2, <2>3 DEF Held
<1> QED
  BY <1>3, <1>4

\* clearFlag, from Lower, WriteFlag and SetContinuous: with nested routines no
\* flag of theirs is cleared.
LEMMA ClearStep ==
    ASSUME TypeOK, NEW P, NEW R, Held(P, R), NEW i \in Ints, clearFlag(i),
           "nest" \in firmware => i \notin InService,
           UNCHANGED <<firmware, m_priority, m_enabled, m_running, m_active, m_global>>,
           "nest" \in firmware => m_autoClear' = m_autoClear,
           "level" \notin firmware => m_continuous' = m_continuous
    PROVE  \E p : Held(p, R)'
<1>1. PICK p : /\ Links!LinkedIn(p, m_pending', m_nextInt')
               /\ Links!LinkedIn(R, m_running, m_nextInt')
               /\ Links!Elems(p) = Links!Elems(P) \ {i}
               /\ Links!Ordered(P, Descending) => Links!Ordered(p, Descending')
  BY Clear
<1>2. Lists(p, R)' /\ Sorted(p, R)'
  <2>1. Links!Elems(p) \subseteq Links!Elems(P) \cup {i} /\ Links!Elems(p) \cap Links!Elems(R) = {}
    BY <1>1 DEF Held, Lists
  <2> QED
    BY <1>1, <2>1, PendingStep
<1>3. m_raised' = m_raised \ {i}
  BY DEF clearFlag
<1>4. Waiting(p, R)'
  BY <1>1, <1>3 DEF Held, Waiting
<1>5. Kept(p, R)'
  <2>1. "nest" \in firmware => i \notin Links!Elems(R) /\ (m_active # null => i # m_active)
    BY ServiceIs
  <2> QED
    BY <1>1, <1>3, <2>1 DEF Held, Kept
<1> QED
  BY <1>2, <1>4, <1>5 DEF Held

\* EnableFlag: the program leaves what it serves alone.
LEMMA EnableStep ==
    ASSUME TypeOK, AllTame, NEW P, NEW R, Held(P, R), NEW i \in Ints, NEW b \in BOOLEAN,
           EnableFlag(i, b)
    PROVE  \E p : Held(p, R)'
<1>1. /\ mayTouch(i) /\ b # (i \in m_enabled)
      /\ m_enabled' = IF b THEN m_enabled \cup {i} ELSE m_enabled \ {i}
      /\ UNCHANGED <<firmware, m_continuous, m_autoClear, m_priority, m_raised, m_running, m_active,
                     m_global>>
  BY DEF EnableFlag, setup, service
<1>2. "nest" \in firmware \/ "level" \in firmware => i \notin Links!Elems(R) /\ i # m_active
  BY <1>1, ServiceIs, Constants DEF mayTouch, AllTame, Tame, TypeOK
<1>3. i \notin Links!Elems(R)
  <2>1. CASE "nest" \notin firmware
    BY <2>1, Links!FirstOf, Constants DEF Held, Kept, Lists, Links!LinkedIn
  <2> QED
    BY <1>2, <2>1
<1>4. CASE ~b
  <2>1. PICK p : /\ Links!LinkedIn(p, m_pending', m_nextInt')
                 /\ Links!LinkedIn(R, m_running, m_nextInt')
                 /\ Links!Elems(p) = Links!Elems(P) \ {i}
                 /\ Links!Ordered(P, Descending) => Links!Ordered(p, Descending')
    BY <1>1, <1>4, Remove DEF EnableFlag, Held
  <2>2. Lists(p, R)' /\ Sorted(p, R)'
    <3>1. Links!Elems(p) \subseteq Links!Elems(P) \cup {i} /\ Links!Elems(p) \cap Links!Elems(R) = {}
      BY <2>1 DEF Held, Lists
    <3> QED
      BY <1>1, <2>1, <3>1, PendingStep
  <2>3. Waiting(p, R)' /\ Kept(p, R)'
    BY <1>1, <1>2, <1>4, <2>1 DEF Held, Waiting, Kept
  <2> QED
    BY <2>2, <2>3 DEF Held
<1>5. CASE b /\ i \in m_raised
  <2>1. i \notin Links!Elems(P) /\ addToPending(i)
    BY <1>1, <1>5 DEF Held, Waiting, EnableFlag
  <2>2. PICK p : /\ Links!LinkedIn(p, m_pending', m_nextInt')
                 /\ Links!LinkedIn(R, m_running, m_nextInt')
                 /\ Links!Elems(p) = Links!Elems(P) \cup {i}
                 /\ Links!Ordered(P, Descending) => Links!Ordered(p, Descending')
    BY <1>1, <1>3, <2>1, AddNew DEF Held
  <2>3. Lists(p, R)' /\ Sorted(p, R)'
    <3>1. Links!Elems(p) \subseteq Links!Elems(P) \cup {i} /\ Links!Elems(p) \cap Links!Elems(R) = {}
      BY <1>3, <2>2 DEF Held, Lists
    <3> QED
      BY <1>1, <2>2, <3>1, PendingStep
  <2>4. Waiting(p, R)' /\ Kept(p, R)'
    BY <1>1, <1>2, <1>5, <2>2 DEF Held, Waiting, Kept
  <2> QED
    BY <2>3, <2>4 DEF Held
<1>6. CASE b /\ i \notin m_raised
  <2>1. UNCHANGED <<m_pending, m_nextInt>>
    BY <1>6 DEF EnableFlag
  <2>2. Lists(P, R)' /\ Sorted(P, R)'
    BY <1>1, <2>1 DEF Held, Lists, Sorted, Descending, Strictly
  <2>3. Waiting(P, R)' /\ Kept(P, R)'
    BY <1>1, <1>6 DEF Held, Waiting, Kept
  <2> QED
    BY <2>2, <2>3 DEF Held
<1> QED
  BY <1>4, <1>5, <1>6

\* RETI: the interrupted routine is active again.  Without nested routines there
\* is none, and a level that is still there waits again.
LEMMA RetIStep ==
    ASSUME TypeOK, AllTame, NEW P, NEW R, Held(P, R), RetI
    PROVE  \E p, r : Held(p, r)'
<1>1. /\ m_active \in Ints
      /\ m_active \in m_raised \ (m_autoClear \cup m_continuous) => "leave" \in firmware
      /\ m_active' = m_running
      /\ m_running' = IF m_running = null THEN null ELSE m_nextInt[m_running]
      /\ UNCHANGED <<firmware, m_continuous, m_autoClear, m_priority, m_enabled>>
  BY DEF RetI, setup, TypeOK
<1>2. Tame(firmware)
  BY DEF AllTame, TypeOK
<1>3. m_active \notin Links!Elems(R) /\ Links!Elems(R) \subseteq Ints
  BY Links!FirstOf, Constants DEF Held, Lists, Links!LinkedIn
<1>4. Strictly' = Strictly /\ Descending' = Descending
  BY <1>1 DEF Strictly, Descending
<1>5. CASE R = <<>>
  <2>1. m_running = null /\ m_active' = null /\ m_running' = null /\ Links!Elems(R) = {}
    BY <1>1, <1>5, Links!FirstOf, Constants DEF Held, Lists, Links!LinkedIn
  <2>2. ASSUME NEW p, Links!LinkedIn(p, m_pending', m_nextInt'), Links!LinkedIn(R, m_running, m_nextInt'),
               Links!Ordered(P, Descending) => Links!Ordered(p, Descending'),
               Waiting(p, R)'
        PROVE  Held(p, R)'
    <3>1. Lists(p, R)'
      BY <1>5, <2>1, <2>2, Constants DEF Lists
    <3>2. Sorted(p, R)'
      BY <1>1, <1>4, <2>1, <2>2 DEF Held, Sorted
    <3>3. Kept(p, R)'
      <4>1. null \notin Links!Elems(p)
        BY <2>2, Links!FirstOf, Constants DEF Links!LinkedIn
      <4> QED
        BY <1>1, <1>5, <2>1, <4>1 DEF Held, Kept
    <3> QED
      BY <2>2, <3>1, <3>2, <3>3 DEF Held
  <2>3. CASE m_active \in m_autoClear
    <3>1. clearFlag(m_active) /\ m_raised' = m_raised \ {m_active}
      BY <2>3 DEF RetI, clearFlag
    <3>2. PICK p : /\ Links!LinkedIn(p, m_pending', m_nextInt')
                   /\ Links!LinkedIn(R, m_running, m_nextInt')
                   /\ Links!Elems(p) = Links!Elems(P) \ {m_active}
                   /\ Links!Ordered(P, Descending) => Links!Ordered(p, Descending')
      BY <1>1, <3>1, Clear
    <3>3. Waiting(p, R)'
      BY <1>1, <2>1, <3>1, <3>2 DEF Held, Waiting
    <3> QED
      BY <2>2, <3>2, <3>3
  <2>4. CASE m_active \notin m_autoClear /\ m_active \in m_continuous \cap m_raised
    <3>1. addToPending(m_active) /\ m_raised' = m_raised
      BY <2>1, <2>4 DEF RetI
    <3>2. "level" \in firmware /\ m_active \in m_enabled /\ "reprioritise" \notin firmware
      BY <1>1, <1>2, <2>4, Constants DEF Held, Kept, Tame
    <3>3. CASE m_active \in Links!Elems(P)
      <4>1. UNCHANGED <<m_pending, m_nextInt>>
        BY <3>1, <3>2, <3>3, AddKnown DEF Held, Lists, Sorted
      <4>2. Waiting(P, R)'
        BY <1>1, <2>1, <3>1, <3>3 DEF Held, Waiting
      <4> QED
        BY <1>4, <2>2, <4>1, <4>2 DEF Held, Lists
    <3>4. CASE m_active \notin Links!Elems(P)
      <4>1. PICK p : /\ Links!LinkedIn(p, m_pending', m_nextInt')
                     /\ Links!LinkedIn(R, m_running, m_nextInt')
                     /\ Links!Elems(p) = Links!Elems(P) \cup {m_active}
                     /\ Links!Ordered(P, Descending) => Links!Ordered(p, Descending')
        BY <1>1, <1>3, <3>1, <3>4, AddNew DEF Held
      <4>2. Waiting(p, R)'
        BY <1>1, <2>1, <2>4, <3>1, <3>2, <4>1 DEF Held, Waiting
      <4> QED
        BY <2>2, <4>1, <4>2
    <3> QED
      BY <3>3, <3>4
  <2>5. CASE m_active \notin m_autoClear /\ m_active \notin m_continuous \cap m_raised
    <3>1. UNCHANGED <<m_pending, m_nextInt, m_raised>> /\ m_active \notin m_raised
      BY <1>1, <1>2, <2>5 DEF RetI, Tame
    <3>2. Waiting(P, R)'
      BY <1>1, <2>1, <3>1 DEF Held, Waiting
    <3> QED
      BY <1>4, <2>2, <3>1, <3>2 DEF Held, Lists
  <2> QED
    BY <2>3, <2>4, <2>5
<1>6. CASE R # <<>>
  <2> DEFINE r == Links!Deleted(R, 1)
  <2>1. /\ "nest" \in firmware /\ m_active \in m_raised /\ m_active \in m_autoClear
        /\ m_active \notin Links!Elems(P)
    BY <1>1, <1>6, Constants DEF Held, Kept
  <2>2. clearFlag(m_active) /\ m_raised' = m_raised \ {m_active}
    BY <2>1 DEF RetI, clearFlag
  <2>3. PICK p : /\ Links!LinkedIn(p, m_pending', m_nextInt')
                 /\ Links!LinkedIn(R, m_running, m_nextInt')
                 /\ Links!Elems(p) = Links!Elems(P) \ {m_active}
                 /\ Links!Ordered(P, Descending) => Links!Ordered(p, Descending')
    BY <1>1, <2>2, Clear
  <2>4. m_running # null /\ m_running \in Links!Elems(R) /\ m_running = R[1] /\ 1 \in 1 .. Len(R)
    BY <1>6, Links!FirstOf, Constants DEF Held, Lists, Links!LinkedIn
  <2>5. m_running' = m_nextInt'[m_running]
    <3>1. m_nextInt[R[1]] = Links!At(R, 1 + 1) /\ m_nextInt'[R[1]] = Links!At(R, 1 + 1)
      BY <2>3, <2>4 DEF Held, Lists, Links!LinkedIn, Links!Chain
    <3> QED
      BY <1>1, <2>4, <3>1
  <2>6. /\ Links!LinkedIn(r, m_running', m_nextInt')
        /\ Links!Elems(r) = Links!Elems(R) \ {m_running}
        /\ \A rel : Links!Ordered(R, rel) => /\ Links!Ordered(r, rel)
                                       /\ \A x \in Links!Elems(r) : <<m_running, x>> \in rel
    BY <2>3, <2>4, <2>5, Links!DropFirst, Constants
  <2> HIDE DEF r
  <2>7. Lists(p, r)'
    <3>1. Links!Elems(p) \cap Links!Elems(r) = {} /\ m_active' \notin Links!Elems(r) /\ m_active' # null
      BY <1>1, <2>3, <2>4, <2>6 DEF Held, Lists
    <3> QED
      BY <2>3, <2>6, <3>1 DEF Lists
  <2>8. Waiting(p, r)'
    BY <1>1, <2>1, <2>2, <2>3, <2>4, <2>6 DEF Held, Waiting
  <2>9. Sorted(p, r)'
    <3>1. \A x \in Links!Elems(r) : <<m_running, x>> \in Strictly => m_priority[m_running] > m_priority[x]
      BY DEF Strictly
    <3> QED
      BY <1>1, <1>4, <2>3, <2>6, <3>1 DEF Held, Sorted
  <2>10. Kept(p, r)'
    <3>1. m_active' \notin Links!Elems(p)
      BY <1>1, <2>3, <2>4 DEF Held, Lists
    <3>2. Links!Elems(R) \subseteq m_raised'
      BY <1>3, <2>1, <2>2 DEF Held, Kept
    <3> QED
      BY <1>1, <1>2, <2>1, <2>4, <2>6, <3>1, <3>2 DEF Held, Kept, Tame
  <2> QED
    BY <2>7, <2>8, <2>9, <2>10 DEF Held
<1> QED
  BY <1>5, <1>6

\* runInterrupts: the first of the pending interrupts is served, and a routine
\* that it interrupts, which only a program with nested ones lets it, joins R.
LEMMA ExecuteStep ==
    ASSUME TypeOK, NEW P, NEW R, Held(P, R), due, execute
    PROVE  \E p, r : Held(p, r)'
<1> DEFINE h == m_pending
           p == Links!Deleted(P, 1)
<1>1. /\ m_global /\ h # null
      /\ m_active # null => m_priority[h] > m_priority[m_active]
      /\ m_active' = h /\ m_pending' = m_nextInt'[h] /\ m_global' = FALSE
      /\ UNCHANGED <<firmware, m_continuous, m_autoClear, m_priority, m_raised, m_enabled>>
  BY DEF due, execute, setup, flags
<1>2. h \in Links!Elems(P) /\ h \in Ints /\ Links!Elems(P) \subseteq Ints /\ Links!Elems(R) \subseteq Ints
  BY <1>1, Links!FirstOf, Constants DEF Held, Lists, Links!LinkedIn
<1>3. /\ Links!LinkedIn(p, m_nextInt[h], m_nextInt)
      /\ Links!Elems(p) = Links!Elems(P) \ {h}
      /\ \A rel : Links!Ordered(P, rel) => Links!Ordered(p, rel)
  BY <1>1, Links!DropFirst, Constants DEF Held, Lists
<1> HIDE DEF p
<1>4. Strictly' = Strictly /\ Descending' = Descending
  BY <1>1 DEF Strictly, Descending
<1>5. h \in m_raised /\ h \in m_enabled /\ h \notin Links!Elems(R)
  BY <1>2 DEF Held, Lists, Waiting
<1>6. CASE m_active = null
  <2>1. UNCHANGED <<m_running, m_nextInt>> /\ R = <<>> /\ Links!Elems(R) = {}
    BY <1>6, Links!FirstOf, Constants DEF execute, Held, Lists, Links!LinkedIn
  <2>2. Lists(p, R)'
    BY <1>1, <1>3, <2>1 DEF Held, Lists
  <2>3. Waiting(p, R)'
    BY <1>1, <1>3, <1>6, <2>1, Constants DEF Held, Waiting, TypeOK
  <2>4. Sorted(p, R)'
    BY <1>1, <1>3, <1>4, <2>1 DEF Held, Sorted
  <2>5. Kept(p, R)'
    BY <1>1, <1>3, <1>5, <2>1 DEF Held, Kept
  <2> QED
    BY <2>2, <2>3, <2>4, <2>5 DEF Held
<1>7. CASE m_active # null
  <2>0. PICK a : a = m_active
    OBVIOUS
  <2> DEFINE r == Links!Inserted(R, 1, a)
  <2>1. a \in Ints /\ m_nextInt' = [m_nextInt EXCEPT ![a] = m_running] /\ m_running' = a
    BY <1>7, <2>0 DEF execute, TypeOK
  <2>2. a \notin Links!Elems(P) /\ a \notin Links!Elems(R) /\ "nest" \in firmware /\ a \in m_raised
    BY <1>1, <1>7, <2>0, Constants DEF Held, Lists, Kept, TypeOK
  <2>3. /\ Links!LinkedIn(r, m_running', m_nextInt')
        /\ Links!Elems(r) = Links!Elems(R) \cup {a}
        /\ \A rel : Links!Ordered(R, rel) /\ (\A x \in Links!Elems(R) : <<a, x>> \in rel)
                      => Links!Ordered(r, rel)
    BY <2>1, <2>2, OneTime, Links!PutFirst DEF Held, Lists
  <2> HIDE DEF r
  <2>4. Links!LinkedIn(p, m_pending', m_nextInt')
    <3>1. m_nextInt' \in [Ints -> Ints \cup {null}]
      BY <2>3 DEF Links!LinkedIn
    <3>2. \A x \in Links!Elems(p) : m_nextInt'[x] = m_nextInt[x]
      BY <1>2, <1>3, <2>1, <2>2 DEF TypeOK
    <3>3. m_pending' = m_nextInt[h]
      BY <1>1, <1>2, <2>1, <2>2 DEF TypeOK
    <3> QED
      BY <1>3, <3>1, <3>2, <3>3, Links!Untouched
  <2>5. Lists(p, r)'
    <3>1. /\ Links!Elems(p) \cap Links!Elems(r) = {} /\ m_active' \notin Links!Elems(r) /\ m_active' # null
      BY <1>1, <1>2, <1>3, <1>5, <2>2, <2>3, Constants DEF Held, Lists
    <3> QED
      BY <2>3, <2>4, <3>1 DEF Lists
  <2>6. Waiting(p, r)'
    BY <1>1, <1>3, <2>0, <2>3 DEF Held, Waiting
  <2>7. Sorted(p, r)'
    <3> SUFFICES ASSUME "reprioritise" \notin firmware PROVE Sorted(p, r)'
      BY <1>1 DEF Sorted
    <3>1. \A x \in Links!Elems(R) : m_priority[a] > m_priority[x]
      BY <2>0 DEF Held, Sorted
    <3>2. \A x \in Links!Elems(R) : <<a, x>> \in Strictly
      BY <1>2, <2>1, <3>1 DEF Strictly
    <3>3. Links!Ordered(r, Strictly) /\ Links!Ordered(p, Descending)
      BY <1>3, <2>3, <3>2 DEF Held, Sorted
    <3>4. \A x \in Links!Elems(r) : m_priority[h] > m_priority[x]
      <4>1. ASSUME NEW x \in Links!Elems(R) PROVE m_priority[h] > m_priority[x]
        <5>1. m_priority[h] \in Nat /\ m_priority[a] \in Nat /\ m_priority[x] \in Nat
          BY <1>2, <2>1, PriorityIsNat
        <5> QED
          BY <1>1, <1>7, <2>0, <3>1, <5>1
      <4> QED
        BY <1>1, <1>7, <2>0, <2>3, <4>1
    <3> QED
      BY <1>1, <1>4, <3>3, <3>4 DEF Sorted
  <2>8. Kept(p, r)'
    BY <1>1, <1>3, <1>5, <2>2, <2>3 DEF Held, Kept
  <2> QED
    BY <2>5, <2>6, <2>7, <2>8 DEF Held
<1> QED
  BY <1>6, <1>7

\* At first both lists are empty.
LEMMA InitIInv == Init /\ AllTame => IInv
<1> SUFFICES ASSUME Init, AllTame PROVE IInv
  OBVIOUS
<1>1. TypeOK
  BY DEF Init, TypeOK
<1>2. /\ <<>> \in Seq(Ints) /\ Len(<<>>) = 0 /\ Links!Elems(<<>>) = {}
      /\ Links!At(<<>>, 1) = null /\ \A rel : Links!Ordered(<<>>, rel)
  BY DEF Links!Elems, Links!At, Links!Ordered
<1>3. Links!LinkedIn(<<>>, m_pending, m_nextInt) /\ Links!LinkedIn(<<>>, m_running, m_nextInt)
  BY <1>2 DEF Init, Links!LinkedIn, Links!Chain
<1>4. Held(<<>>, <<>>)
  <2>1. Kept(<<>>, <<>>)
    BY <1>2, Constants DEF Init, Kept, AllTame, Tame
  <2> QED
    BY <1>2, <1>3, <2>1 DEF Init, Held, Lists, Waiting, Sorted
<1>5. SleepsOnlyIdle
  BY DEF Init, SleepsOnlyIdle
<1> QED
  BY <1>1, <1>4, <1>5 DEF IInv

\* The lists that are held after a step: there are some.
LEMMA HeldStep ==
    ASSUME TypeOK, AllTame, NEW P, NEW R, Held(P, R), [Next]_vars
    PROVE  \E p, r : Held(p, r)'
<1> USE DEF setup, flags, service, sleep
<1>0. Tame(firmware)
  BY DEF AllTame, TypeOK
<1>1. ASSUME NEW i \in Ints, Raise(i) PROVE \E p, r : Held(p, r)'
  BY <1>1, RaiseStep
<1>2. ASSUME NEW i \in Ints, Lower(i) PROVE \E p, r : Held(p, r)'
  <2>1. "nest" \notin firmware
    BY <1>0, <1>2 DEF Lower, Tame
  <2>2. /\ clearFlag(i)
        /\ UNCHANGED <<firmware, m_priority, m_enabled, m_running, m_active, m_global, m_continuous>>
    BY <1>2 DEF Lower
  <2> QED
    BY <2>1, <2>2, ClearStep
<1>3. ASSUME NEW i \in Ints, WriteFlag(i) PROVE \E p, r : Held(p, r)'
  <2>1. "nest" \in firmware => i \notin InService
    BY <1>0, <1>3 DEF WriteFlag, mayTouch, Tame
  <2>2. /\ clearFlag(i)
        /\ UNCHANGED <<firmware, m_priority, m_enabled, m_running, m_active, m_global, m_continuous,
                       m_autoClear>>
    BY <1>3 DEF WriteFlag
  <2> QED
    BY <2>1, <2>2, ClearStep
<1>4. ASSUME NEW i \in Ints, NEW b \in BOOLEAN, EnableFlag(i, b) PROVE \E p, r : Held(p, r)'
  BY <1>4, EnableStep
<1>5. ASSUME NEW i \in Ints, NEW b \in BOOLEAN, SetContinuous(i, b) PROVE \E p, r : Held(p, r)'
  <2>1. "nest" \notin firmware /\ "level" \in firmware
    BY <1>0, <1>5 DEF SetContinuous, Tame
  <2>2. /\ clearFlag(i)
        /\ UNCHANGED <<firmware, m_priority, m_enabled, m_running, m_active, m_global>>
    BY <1>5 DEF SetContinuous
  <2> QED
    BY <2>1, <2>2, ClearStep
<1>6. ASSUME NEW i \in Ints, NEW b \in Priorities, SetPriority(i, b) PROVE \E p, r : Held(p, r)'
  <2>1. Held(P, R)'
    BY <1>6 DEF SetPriority, Held, Lists, Waiting, Sorted, Kept
  <2> QED
    BY <2>1
<1>7. ASSUME NEW b \in BOOLEAN, EnableGlobal(b) PROVE \E p, r : Held(p, r)'
  <2>1. Lists(P, R)' /\ Waiting(P, R)' /\ Sorted(P, R)'
    BY <1>7 DEF EnableGlobal, Held, Lists, Waiting, Sorted, Descending, Strictly
  <2>2. Kept(P, R)'
    BY <1>7 DEF EnableGlobal, Held, Kept
  <2> QED
    BY <2>1, <2>2 DEF Held
<1>8. CASE RetI
  BY <1>8, RetIStep
<1>9. CASE RunInterrupts
  BY <1>9, ExecuteStep DEF RunInterrupts
<1>10. CASE Sleep
  <2>1. CASE due
    BY <1>10, <2>1, ExecuteStep DEF Sleep
  <2>2. CASE ~due
    <3>1. Held(P, R)'
      BY <1>10, <2>2 DEF Sleep, Held, Lists, Waiting, Sorted, Kept, Descending, Strictly
    <3> QED
      BY <3>1
  <2> QED
    BY <2>1, <2>2
<1>11. CASE WatchdogWakes
  <2>1. Held(P, R)'
    BY <1>11 DEF WatchdogWakes, Held, Lists, Waiting, Sorted, Kept, Descending, Strictly
  <2> QED
    BY <2>1
<1>12. CASE Reset
  <2>1. /\ <<>> \in Seq(Ints) /\ Len(<<>>) = 0 /\ Links!Elems(<<>>) = {}
        /\ Links!At(<<>>, 1) = null /\ \A rel : Links!Ordered(<<>>, rel)
    BY DEF Links!Elems, Links!At, Links!Ordered
  <2>2. Lists(<<>>, <<>>)'
    BY <1>12, <2>1 DEF Reset, Lists, Links!LinkedIn, Links!Chain, TypeOK
  <2>3. Waiting(<<>>, <<>>)' /\ Sorted(<<>>, <<>>)' /\ Kept(<<>>, <<>>)'
    BY <1>12, <2>1 DEF Reset, Waiting, Sorted, Held, Kept
  <2>4. Held(<<>>, <<>>)'
    BY <2>2, <2>3 DEF Held
  <2> QED
    BY <2>4
<1>13. CASE UNCHANGED vars
  <2>1. Held(P, R)'
    BY <1>13 DEF vars, Held, Lists, Waiting, Sorted, Kept, Descending, Strictly
  <2> QED
    BY <2>1
<1> QED
  BY <1>1, <1>2, <1>3, <1>4, <1>5, <1>6, <1>7, <1>8, <1>9, <1>10, <1>11, <1>12, <1>13 DEF Next

\* The core goes to sleep when nothing waits, and what comes then wakes it or
\* could not.
LEMMA SleepStep ==
    ASSUME TypeOK, SleepsOnlyIdle, NEW P, NEW R, Held(P, R), [Next]_vars
    PROVE  SleepsOnlyIdle'
<1> USE DEF SleepsOnlyIdle, wakes, setup, flags, service, sleep
<1>1. ASSUME NEW i \in Ints, Raise(i) PROVE SleepsOnlyIdle'
  BY <1>1 DEF Raise
<1>2. ASSUME NEW i \in Ints, Lower(i) PROVE SleepsOnlyIdle'
  BY <1>2 DEF Lower, clearFlag
<1>3. ASSUME NEW i \in Ints, NEW b \in BOOLEAN,
             WriteFlag(i) \/ EnableFlag(i, b) \/ SetContinuous(i, b)
      PROVE  SleepsOnlyIdle'
  BY <1>3 DEF WriteFlag, EnableFlag, SetContinuous, mayTouch
<1>4. ASSUME NEW i \in Ints, NEW b \in Priorities, SetPriority(i, b) PROVE SleepsOnlyIdle'
  BY <1>4 DEF SetPriority
<1>5. ASSUME NEW b \in BOOLEAN, EnableGlobal(b) PROVE SleepsOnlyIdle'
  BY <1>5 DEF EnableGlobal
<1>6. CASE RetI
  BY <1>6 DEF RetI
<1>7. CASE RunInterrupts
  BY <1>7 DEF RunInterrupts
<1>8. CASE Sleep
  <2>1. CASE due
    BY <1>8, <2>1 DEF Sleep, execute, due
  <2>2. CASE ~due
    <3>1. m_pending = null /\ m_active = null /\ UNCHANGED <<m_raised, m_enabled>>
      BY <1>8, <2>2 DEF Sleep, due
    <3>2. Links!Elems(P) = {} /\ Links!Elems(R) = {} /\ m_active \notin m_raised
      BY <3>1, Links!FirstOf, Constants DEF Held, Lists, Links!LinkedIn, TypeOK
    <3>3. m_raised \cap m_enabled = {}
      BY <3>2 DEF Held, Waiting
    <3> QED
      BY <3>1, <3>3
  <2> QED
    BY <2>1, <2>2
<1>9. CASE WatchdogWakes \/ Reset
  BY <1>9 DEF WatchdogWakes, Reset
<1>10. CASE UNCHANGED vars
  BY <1>10 DEF vars
<1> QED
  BY <1>1, <1>2, <1>3, <1>4, <1>5, <1>6, <1>7, <1>8, <1>9, <1>10 DEF Next

\* Every step preserves the invariant.
LEMMA NextIInv ==
    ASSUME IInv, AllTame, [Next]_vars
    PROVE  IInv'
<1>1. PICK P, R : Held(P, R)
  BY DEF IInv
<1>2. PICK p, r : Held(p, r)'
  BY <1>1, HeldStep DEF IInv
<1>3. RestTyped' /\ SleepsOnlyIdle'
  BY <1>1, RestStep, SleepStep DEF IInv
<1>4. TypeOK'
  <2>1. Lists(p, r)'
    BY <1>2 DEF Held
  <2> QED
    BY <1>3, <2>1 DEF RestTyped, Lists, Links!LinkedIn, TypeOK
<1> QED
  BY <1>2, <1>3, <1>4 DEF IInv

\* The invariant holds.
LEMMA Invariant == ASSUME AllTame PROVE Spec => []IInv
<1>1. Init => IInv
  BY InitIInv
<1>2. IInv /\ [Next]_vars => IInv'
  BY NextIInv
<1> QED
  BY <1>1, <1>2, PTL DEF Spec

-----------------------------------------------------------------------------
\* What it says.

\* The variables keep their types, whatever tame programs do.
THEOREM TypeCorrect == ASSUME AllTame PROVE Spec => []TypeOK
<1>1. IInv => TypeOK
  BY DEF IInv
<1> QED
  BY <1>1, Invariant, PTL

\* The list of pending interrupts and that of the interrupted ones come to an
\* end and have nothing in common, though they are threaded through one pointer.
THEOREM ListsStaySeparate == ASSUME AllTame PROVE Spec => []ListsSeparate
<1>1. ASSUME NEW P, NEW R, Held(P, R)
      PROVE  ListsSeparate
  BY <1>1, Walks DEF Held, Lists, Links!LinkedIn, ListsSeparate
<1>2. IInv => ListsSeparate
  BY <1>1 DEF IInv
<1> QED
  BY <1>2, Invariant, PTL

\* What is raised and enabled waits or is served, and what waits is raised and
\* enabled.
THEOREM NoneForgotten == ASSUME AllTame PROVE Spec => []PendingIffDue
<1>1. ASSUME NEW P, NEW R, Held(P, R), TypeOK
      PROVE  PendingIffDue
  <2>1. Members(m_pending) = Links!Elems(P) /\ InService = Links!Elems(R) \cup ({m_active} \ {null})
    BY <1>1, Walks, ServiceIs DEF Held, Lists, Links!LinkedIn
  <2>2. null \notin m_raised
    BY <1>1, Constants DEF TypeOK
  <2> QED
    BY <1>1, <2>1, <2>2 DEF Held, Waiting, PendingIffDue
<1>2. IInv => PendingIffDue
  BY <1>1 DEF IInv
<1> QED
  BY <1>2, Invariant, PTL

\* The next interrupt to be served is of the highest priority of those that
\* wait, and each routine is of a higher one than that which it interrupted.
THEOREM PriorityDecides == ASSUME AllTame PROVE Spec => []ServedByPriority
<1>1. ASSUME NEW P, NEW R, Held(P, R), TypeOK, "reprioritise" \notin firmware
      PROVE  /\ m_pending # null =>
                   \A i \in Members(m_pending) : m_priority[i] <= m_priority[m_pending]
             /\ m_running # null =>
                   /\ m_priority[m_active] > m_priority[m_running]
                   /\ \A i \in Members(m_running) :
                         m_nextInt[i] # null => m_priority[i] > m_priority[m_nextInt[i]]
  <2>1. /\ Members(m_pending) = Links!Elems(P) /\ Members(m_running) = Links!Elems(R)
        /\ Links!Chain(P, m_pending, m_nextInt) /\ Links!Chain(R, m_running, m_nextInt)
        /\ Links!Ordered(P, Descending) /\ Links!Ordered(R, Strictly)
        /\ \A i \in Links!Elems(R) : m_priority[m_active] > m_priority[i]
    BY <1>1, Walks DEF Held, Lists, Links!LinkedIn, Sorted
  <2>2. ASSUME m_pending # null, NEW i \in Links!Elems(P)
        PROVE  m_priority[i] <= m_priority[m_pending]
    <3>1. 1 \in 1 .. Len(P) /\ m_pending = P[1]
      BY <2>1, <2>2, Links!FirstOf, Constants
    <3>2. PICK n \in 1 .. Len(P) : i = P[n]
      BY DEF Links!Elems
    <3>3. P[n] \in Ints /\ Len(P) \in Nat
      BY <2>1 DEF Links!Chain
    <3>4. CASE n = 1
      BY <1>1, <3>1, <3>2, <3>3, <3>4, PriorityIsNat
    <3>5. CASE 1 < n
      BY <2>1, <3>1, <3>2, <3>5 DEF Links!Ordered, Descending
    <3> QED
      BY <3>2, <3>3, <3>4, <3>5
  <2>3. m_running # null => m_running \in Links!Elems(R)
    BY <2>1, Links!FirstOf, Constants
  <2>4. ASSUME NEW i \in Links!Elems(R), m_nextInt[i] # null
        PROVE  m_priority[i] > m_priority[m_nextInt[i]]
    <3>1. PICK n \in 1 .. Len(R) : i = R[n]
      BY DEF Links!Elems
    <3>2. m_nextInt[i] = Links!At(R, n + 1) /\ Len(R) \in Nat
      BY <2>1, <3>1 DEF Links!Chain
    <3>3. n + 1 \in 1 .. Len(R) /\ n < n + 1 /\ m_nextInt[i] = R[n + 1]
      BY <2>4, <3>2 DEF Links!At
    <3> QED
      BY <2>1, <3>1, <3>3 DEF Links!Ordered, Strictly
  <2> QED
    BY <2>1, <2>2, <2>3, <2>4
<1>2. IInv => ServedByPriority
  BY <1>1 DEF IInv, ServedByPriority
<1> QED
  BY <1>2, Invariant, PTL

\* A core sleeps only when none of the interrupts that wait could wake it.
THEOREM NoneSleptThrough == ASSUME AllTame PROVE Spec => []SleepsOnlyIdle
<1>1. IInv => SleepsOnlyIdle
  BY DEF IInv
<1> QED
  BY <1>1, Invariant, PTL

\* Routines are served, interrupted and returned from as a stack.
THEOREM ServiceStaysAStack == ASSUME AllTame PROVE Spec => ServiceIsAStack
<1> DEFINE Stacked == \/ m_active' = m_active /\ m_running' = m_running
                      \/ m_running' = m_active /\ m_active' # null
                      \/ m_active' = m_running
                      \/ m_active' = null /\ m_running' = null
<1>1. ASSUME IInv, [Next]_vars
      PROVE  [Stacked]_vars
  <2> USE DEF setup, flags, service, sleep
  <2>1. PICK P, R : Held(P, R)
    BY <1>1 DEF IInv
  <2>2. m_active = null => m_running = null
    BY <2>1, Links!FirstOf, Constants DEF Held, Lists, Links!LinkedIn
  <2>3. ASSUME due, execute PROVE Stacked
    BY <2>2, <2>3 DEF due, execute
  <2>4. CASE \E i \in Ints : \/ Raise(i) \/ Lower(i) \/ WriteFlag(i)
                             \/ \E b \in BOOLEAN : EnableFlag(i, b) \/ SetContinuous(i, b)
                             \/ \E p \in Priorities : SetPriority(i, p)
    BY <2>4 DEF Raise, Lower, WriteFlag, EnableFlag, SetContinuous, SetPriority
  <2>5. CASE \E b \in BOOLEAN : EnableGlobal(b)
    BY <2>5 DEF EnableGlobal
  <2>6. CASE RetI \/ Reset
    BY <2>6 DEF RetI, Reset
  <2>7. CASE RunInterrupts \/ Sleep
    BY <2>3, <2>7 DEF RunInterrupts, Sleep
  <2>8. CASE WatchdogWakes
    BY <2>8 DEF WatchdogWakes
  <2> QED
    BY <1>1, <2>4, <2>5, <2>6, <2>7, <2>8 DEF Next
<1> QED
  BY <1>1, Invariant, PTL DEF Spec, ServiceIsAStack

=============================================================================
