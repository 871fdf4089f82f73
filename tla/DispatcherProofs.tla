--------------------------- MODULE DispatcherProofs ---------------------------
(***************************************************************************)
(* Proofs about the command queue of IPACM (CmdQueue) and its dispatcher   *)
(* (EvtDispatcher): the queue's linked list implements a first-in          *)
(* first-out queue, the dispatcher uses it as such, and the dispatcher's   *)
(* walk along its registrations stays among them.  Then the neighbour      *)
(* cache (Neighbours), one of those registered: what it announces is where *)
(* it says.                                                                *)
(***************************************************************************)
EXTENDS EvtDispatcher, Neighbours, FiniteSetTheorems, NaturalsInduction,
        WellFoundedInduction, TLAPS

\* A set of numbers that is not empty has a least element.
LEMMA Least ==
  ASSUME NEW S \in SUBSET Nat, S # {}
  PROVE  \E n \in S : \A m \in S : n <= m
<1>1. \E x \in S : \A y \in S : ~(<<y, x>> \in OpToRel(<, Nat))
  BY Zenon, NatLessThanWellFounded, WFMin
<1>2. PICK x \in S : \A y \in S : ~(<<y, x>> \in OpToRel(<, Nat))
  BY Zenon, <1>1
<1>3. \A y \in S : ~(y < x)
  BY Zenon, <1>2 DEF OpToRel
<1> QED
  BY <1>3

\* Induction over the numbers, for a set.
LEMMA SetInduction ==
  ASSUME NEW S, 0 \in S, \A n \in Nat : n \in S => n + 1 \in S
  PROVE  Nat \subseteq S
<1> SUFFICES ASSUME Nat \ S # {} PROVE FALSE
  BY Zenon
<1>1. PICK n \in Nat \ S : \A m \in Nat \ S : n <= m
  BY ZenonT(30), Least
<1>2. n # 0
  BY Zenon, <1>1
<1>3. n - 1 \in S
  BY <1>1, <1>2
<1>4. (n - 1) + 1 = n
  BY <1>1
<1> QED
  BY <1>1, <1>2, <1>3, <1>4

\* The members of a list of messages.
Members(s) == {s[k] : k \in 1 .. Len(s)}

\* The messages of s are the linked list that starts at the queue's head, each
\* once, its tail the last of them; they and the message the thread works on
\* are the ones allocated.
Lists(s) ==
  /\ s \in Seq(Msgs)
  /\ \A k, l \in 1 .. Len(s) : s[k] = s[l] => k = l
  /\ QHead = IF Len(s) = 0 THEN NoMsg ELSE s[1]
  /\ \A k \in 1 .. Len(s) : m_next[s[k]] = IF k = Len(s) THEN NoMsg ELSE s[k + 1]
  /\ Len(s) # 0 => QTail = s[Len(s)]
  /\ item \notin Members(s)
  /\ allocated = Members(s) \cup ({item} \ {NoMsg})

\* The types of the queue's state.
QueueTypes ==
  /\ m_next \in [Msgs -> Msgs \cup {NoMsg}] /\ evt \in [Msgs -> Events \cup {NoEvent}]
  /\ item \in Msgs \cup {NoMsg}
  /\ QTail \in Msgs \cup {NoMsg}
  /\ waiting \in BOOLEAN

\* The inductive invariant of the message queue: the pointers make a list
\* without a cycle, of allocated messages.
QueueInv == QueueTypes /\ \E s \in Seq(Msgs) : Lists(s)

\* The messages of a list by their distance from the head.
Listed(s) == [n \in Nat |-> IF n < Len(s) THEN s[n + 1] ELSE NoMsg]

\* Nth is the walk along m_next: its recursion has a solution.
LEMMA NthDefined ==
  ASSUME NEW f, f = [n \in Nat |-> IF n = 0 THEN QHead
                  ELSE IF f[n - 1] = NoMsg THEN NoMsg ELSE m_next[f[n - 1]]]
  PROVE  Nth = [n \in Nat |-> IF n = 0 THEN QHead
                  ELSE IF Nth[n - 1] = NoMsg THEN NoMsg ELSE m_next[Nth[n - 1]]]
  BY Zenon DEF Nth

\* The walk from the head meets the messages of the list in order, and then
\* the end.
LEMMA NthListed ==
  ASSUME NEW s, Lists(s)
  PROVE  \A n \in Nat : Nth[n] = IF n < Len(s) THEN s[n + 1] ELSE NoMsg
<1> DEFINE f == Listed(s)
<1>1. f = [n \in Nat |-> IF n = 0 THEN QHead
                  ELSE IF f[n - 1] = NoMsg THEN NoMsg ELSE m_next[f[n - 1]]]
  BY MsgsAssumption DEF Lists, Listed
<1>2. Nth = [n \in Nat |-> IF n = 0 THEN QHead
                  ELSE IF Nth[n - 1] = NoMsg THEN NoMsg ELSE m_next[Nth[n - 1]]]
  BY <1>1, NthDefined
<1> DEFINE S == {n \in Nat : Nth[n] = f[n]}
<1> HIDE DEF f
<1>3. 0 \in S
  BY Zenon, <1>1, <1>2
<1>4. ASSUME NEW n \in Nat, n \in S PROVE n + 1 \in S
  <2>1. (n + 1) - 1 = n /\ n + 1 \in Nat /\ n + 1 # 0
    OBVIOUS
  <2>2. Nth[n + 1] = IF Nth[n] = NoMsg THEN NoMsg ELSE m_next[Nth[n]]
    BY Zenon, <1>2, <2>1
  <2>3. f[n + 1] = IF f[n] = NoMsg THEN NoMsg ELSE m_next[f[n]]
    BY Zenon, <1>1, <2>1
  <2> QED
    BY Zenon, <1>4, <2>1, <2>2, <2>3
<1>5. Nat \subseteq S
  <2> HIDE DEF S
  <2> QED
    BY Zenon, <1>3, <1>4, SetInduction
<1> QED
  BY Zenon, <1>5 DEF f, Listed

\* How many numbers there are up to m, and below it.
LEMMA IntervalSize ==
  ASSUME NEW m \in Nat
  PROVE  IsFiniteSet(1 .. m) /\ Cardinality(1 .. m) = m /\ Cardinality(0 .. (m - 1)) = m
<1>1. 0 \in Int /\ 1 \in Int /\ m \in Int /\ m - 1 \in Int
  OBVIOUS
<1>2. /\ IsFiniteSet(1 .. m) /\ Cardinality(1 .. m) = IF 1 > m THEN 0 ELSE m - 1 + 1
      /\ Cardinality(0 .. (m - 1)) = IF 0 > m - 1 THEN 0 ELSE (m - 1) - 0 + 1
  BY Zenon, <1>1, FS_Interval
<1> QED BY <1>2

\* The events of a list of messages.
QueueOf(s) == [k \in 1 .. Len(s) |-> evt[s[k]]]

\* The abstract queue of a list is the list's events, and what is queued is
\* allocated.
LEMMA QueueListed ==
  \A s \in Seq(Msgs) : Lists(s) => Queue = QueueOf(s) /\ QueuedAreAllocated
<1> SUFFICES ASSUME NEW s \in Seq(Msgs), Lists(s)
             PROVE  Queue = QueueOf(s) /\ QueuedAreAllocated
  BY Zenon
<1> DEFINE C == Cardinality(Msgs)
<1>1. \A n \in Nat : Nth[n] = IF n < Len(s) THEN s[n + 1] ELSE NoMsg
  BY Zenon, NthListed
<1>2. Len(s) \in Nat /\ s \in [1 .. Len(s) -> Msgs]
  OBVIOUS
<1>3. C \in Nat /\ Len(s) <= C
  <2>1. s \in Injection(1 .. Len(s), Msgs)
    BY Zenon, <1>2 DEF Lists, Injection, IsInjective
  <2>2. Cardinality(1 .. Len(s)) = Len(s)
    BY Zenon, <1>2, IntervalSize
  <2>3. C \in Nat /\ Cardinality(1 .. Len(s)) <= C
    BY Zenon, <2>1, FS_Injection, FS_CardinalityType, MsgsAssumption
  <2> QED
    BY Zenon, <2>2, <2>3
<1> HIDE DEF C
<1>4. {n \in 0 .. C : Nth[n] # NoMsg} = 0 .. (Len(s) - 1)
  BY <1>1, <1>2, <1>3, MsgsAssumption
<1>5. QueueLength = Len(s)
  <2>1. Cardinality(0 .. (Len(s) - 1)) = Len(s)
    BY Zenon, <1>2, IntervalSize
  <2> QED
    BY Zenon, <1>4, <2>1 DEF QueueLength, C
<1>6. \A k \in 1 .. Len(s) : Nth[k - 1] = s[k]
  BY <1>1, <1>2
<1>7. Queue = QueueOf(s)
  BY Zenon, <1>5, <1>6 DEF Queue, QueueOf
<1>8. {Nth[n] : n \in 0 .. C} \ {NoMsg} = Members(s)
  <2>1. ASSUME NEW n \in 0 .. C, Nth[n] # NoMsg PROVE Nth[n] \in Members(s)
    BY <1>1, <1>2, <1>3, <2>1 DEF Members
  <2>2. ASSUME NEW k \in 1 .. Len(s)
        PROVE  s[k] \in {Nth[n] : n \in 0 .. C} /\ s[k] # NoMsg
    <3>1. k - 1 \in 0 .. C
      BY <1>2, <1>3
    <3> QED
      BY Zenon, <1>2, <1>6, <3>1, MsgsAssumption
  <2> QED
    BY Zenon, <2>1, <2>2 DEF Members
<1>9. QueuedAreAllocated
  BY Zenon, <1>8 DEF QueuedAreAllocated, Lists, C
<1> QED
  BY Zenon, <1>7, <1>9

\* The same of the state after a step.
LEMMA QueueListedNext ==
  (\A s \in Seq(Msgs) : Lists(s) => Queue = QueueOf(s) /\ QueuedAreAllocated)'
BY QueueListed, PTL

\* The queue starts empty.
LEMMA QueueInitInv == QueueInit => Lists(<< >>) /\ QueueTypes
<1>1. << >> \in Seq(Msgs) /\ Len(<< >>) = 0 /\ Members(<< >>) = {}
  BY DEF Members
<1>2. QueueInit => QueueTypes
  BY ZenonT(30) DEF QueueInit, QueueTypes
<1>3. QueueInit => Lists(<< >>)
  BY <1>1 DEF QueueInit, Lists
<1> QED
  BY Zenon, <1>2, <1>3

\* A step of the queue appends one event to the list, takes the first one off,
\* or leaves the list as it is (MessageQueue::enqueue, dequeue, Process).
LEMMA QueueStep ==
  ASSUME QueueTypes, NEW s \in Seq(Msgs), Lists(s), [QueueNext]_queueVars
  PROVE  /\ QueueTypes'
         /\ \/ \E e \in Events, m \in Msgs :
                 Lists(Append(s, m))' /\ QueueOf(Append(s, m))' = Append(QueueOf(s), e)
            \/ s # << >> /\ Lists(Tail(s))' /\ QueueOf(Tail(s))' = Tail(QueueOf(s))
            \/ Lists(s)' /\ QueueOf(s)' = QueueOf(s)
<1> USE MsgsAssumption
<1> DEFINE n == Len(s)
<1>1. n \in Nat
  OBVIOUS
<1>2. n = Len(s)
  BY Zenon
<1>3. s \in [1 .. n -> Msgs] /\ Members(s) \subseteq Msgs
  BY DEF Members
<1>4. /\ \A k, l \in 1 .. n : s[k] = s[l] => k = l
      /\ QHead = IF n = 0 THEN NoMsg ELSE s[1]
      /\ \A k \in 1 .. n : m_next[s[k]] = IF k = n THEN NoMsg ELSE s[k + 1]
      /\ n # 0 => QTail = s[n]
      /\ item \notin Members(s)
      /\ allocated = Members(s) \cup ({item} \ {NoMsg})
  BY Zenon DEF Lists
<1>5. Members(s) = {s[k] : k \in 1 .. n}
  BY Zenon DEF Members
<1> HIDE DEF n
<1>6. ASSUME NEW e \in Events, NEW m \in Msgs \ allocated,
             allocated' = allocated \cup {m}, evt' = [evt EXCEPT ![m] = e],
             IF QHead = NoMsg
             THEN QHead' = m /\ m_next' = [m_next EXCEPT ![m] = NoMsg]
             ELSE m_next' = [m_next EXCEPT ![m] = NoMsg, ![QTail] = m] /\ QHead' = QHead,
             QTail' = m, waiting' = FALSE, item' = item
      PROVE  /\ QueueTypes'
             /\ Lists(Append(s, m))' /\ QueueOf(Append(s, m))' = Append(QueueOf(s), e)
  <2> DEFINE a == Append(s, m)
  <2>1. /\ a \in Seq(Msgs) /\ Len(a) = n + 1
        /\ \A k \in 1 .. n : a[k] = s[k]
        /\ a[n + 1] = m
    BY <1>2
  <2>2. m \notin Members(s) /\ m # item
    BY Zenon, <1>6, <1>4
  <2>3. \A k \in 1 .. n : s[k] # m /\ s[k] \in Msgs /\ s[k] \in Members(s)
    BY <1>1, <1>3, <2>2 DEF Members
  <2> HIDE DEF a
  <2>4. Members(a) = Members(s) \cup {m}
    <3>1. \A k \in 1 .. (n + 1) : k \in 1 .. n \/ k = n + 1
      BY <1>1, <1>3
    <3>2. \A k \in 1 .. n : k \in 1 .. (n + 1)
      BY <1>1, <1>3
    <3>3. n + 1 \in 1 .. (n + 1)
      BY <1>1, <1>3
    <3>4. Members(a) = {a[k] : k \in 1 .. (n + 1)}
      BY Zenon, <2>1 DEF Members
    <3> QED
      BY Zenon, <1>5, <2>1, <3>1, <3>2, <3>3, <3>4
  <2>5. QueueTypes'
    BY Zenon, <1>6 DEF QueueTypes
  <2>6. Lists(a)'
    <3>1. \A k, l \in 1 .. (n + 1) : a[k] = a[l] => k = l
      BY <1>1, <1>3, <2>1, <2>3, <1>4
    <3>2. QHead' = a[1]
      <4>1. CASE n = 0
        BY <1>6, <2>1, <4>1, <1>4
      <4>2. CASE n # 0
        <5>1. 1 \in 1 .. n
          BY <1>1, <4>2
        <5>2. QHead = s[1] /\ QHead # NoMsg
          BY <1>3, <4>2, <5>1, <1>4
        <5> QED
          BY Zenon, <1>6, <2>1, <5>1, <5>2
      <4> QED
        BY Zenon, <4>1, <4>2
    <3>3. ASSUME NEW k \in 1 .. (n + 1)
          PROVE  m_next'[a[k]] = IF k = n + 1 THEN NoMsg ELSE a[k + 1]
      <4>1. CASE n = 0
        BY SMTT(30), <1>1, <1>3, <1>6, <2>1, <4>1, <1>4 DEF QueueTypes
      <4>2. CASE n # 0
        <5>1. QHead # NoMsg /\ 1 \in 1 .. n
          BY <1>1, <1>3, <4>2, <1>4
        <5>2. /\ QTail = s[n] /\ n \in 1 .. n /\ QTail \in Msgs /\ QTail # m
              /\ m_next' = [m_next EXCEPT ![m] = NoMsg, ![QTail] = m]
          BY SMTT(30), <1>1, <5>1, <1>6, <2>3, <4>2, <1>4
        <5>3. /\ m_next'[m] = NoMsg /\ m_next'[QTail] = m
              /\ \A x \in Msgs \ {m, QTail} : m_next'[x] = m_next[x]
          BY Zenon, <5>2 DEF QueueTypes
        <5>4. CASE k = n + 1
          BY Zenon, <2>1, <5>3, <5>4
        <5>5. CASE k = n
          BY Zenon, <1>1, <1>3, <2>1, <5>2, <5>3, <5>5
        <5>6. CASE k \in 1 .. (n - 1)
          <6>1. k \in 1 .. n /\ k + 1 \in 1 .. n /\ k # n /\ k # n + 1
            BY <1>1, <5>6
          <6>2. s[k] # QTail
            BY Zenon, <5>2, <6>1, <1>4
          <6>3. m_next'[s[k]] = s[k + 1]
            BY Zenon, <2>3, <5>3, <6>1, <6>2, <1>4
          <6> QED
            BY Zenon, <2>1, <6>1, <6>3
        <5> QED
          BY SMTT(30), <1>1, <1>3, <5>4, <5>5, <5>6
      <4> QED
        BY Zenon, <4>1, <4>2
    <3>4. item \notin Members(a) /\ allocated' = Members(a) \cup ({item} \ {NoMsg})
      BY Zenon, <1>6, <2>2, <2>4, <1>4
    <3> QED
      BY SMTT(30), <1>1, <1>6, <2>1, <3>1, <3>2, <3>3, <3>4 DEF Lists
  <2>7. QueueOf(a)' = Append(QueueOf(s), e)
    <3>1. \A k \in 1 .. (n + 1) : evt'[a[k]] = IF k = n + 1 THEN e ELSE evt[s[k]]
      <4>1. \A k \in 1 .. (n + 1) : k \in 1 .. n \/ k = n + 1
        BY <1>1, <1>3
      <4>2. evt'[m] = e /\ \A x \in Msgs \ {m} : evt'[x] = evt[x]
        BY Zenon, <1>6 DEF QueueTypes
      <4> QED
        BY Zenon, <1>1, <1>3, <2>1, <2>3, <4>1, <4>2
    <3>2. QueueOf(a)' = [k \in 1 .. (n + 1) |-> evt'[a[k]]]
      BY Zenon, <2>1 DEF QueueOf
    <3>3. /\ QueueOf(s) = [k \in 1 .. n |-> evt[s[k]]]
          /\ QueueOf(s) \in Seq(Events \cup {NoEvent}) /\ Len(QueueOf(s)) = n
      BY <1>1, <1>3 DEF QueueOf, QueueTypes
    <3>4. Append(QueueOf(s), e) = [k \in 1 .. (n + 1) |-> IF k = n + 1 THEN e ELSE evt[s[k]]]
      BY <1>1, <1>3, <3>3
    <3> QED
      BY Zenon, <3>1, <3>2, <3>4
  <2> QED
    BY Zenon, <2>5, <2>6, <2>7 DEF a
<1>7. CASE Dequeue
  <2> DEFINE t == Tail(s)
  <2>1. /\ item = NoMsg /\ ~waiting /\ QHead # NoMsg
        /\ item' = QHead /\ QHead' = m_next[QHead]
        /\ UNCHANGED <<QTail, m_next, evt, allocated, waiting>>
    BY Zenon, <1>7 DEF Dequeue
  <2>2. n # 0 /\ 1 \in 1 .. n /\ QHead = s[1] /\ QHead \in Msgs
    BY SMTT(30), <1>1, <1>3, <1>4, <2>1
  <2>3. /\ t \in Seq(Msgs) /\ Len(t) = n - 1
        /\ \A k \in 1 .. (n - 1) : t[k] = s[k + 1]
    BY <1>2, <1>1, <2>2
  <2>4. \A k \in 1 .. (n - 1) : k \in 1 .. n /\ k + 1 \in 1 .. n /\ k # n /\ k + 1 # 1
    BY <1>1
  <2> HIDE DEF t
  <2>5. Members(s) = Members(t) \cup {s[1]} /\ s[1] \notin Members(t)
    <3>1. \A k \in 1 .. n : k = 1 \/ (k - 1 \in 1 .. (n - 1) /\ (k - 1) + 1 = k)
      BY <1>1
    <3>2. \A k \in 1 .. n : s[k] = s[1] \/ s[k] \in Members(t)
      BY <2>3, <3>1 DEF Members
    <3>3. \A k \in 1 .. (n - 1) : t[k] \in Members(s) /\ t[k] # s[1]
      BY <1>5, <1>4, <2>2, <2>3, <2>4
    <3>4. Members(t) = {t[k] : k \in 1 .. (n - 1)}
      BY Zenon, <2>3 DEF Members
    <3> QED
      BY <1>5, <2>2, <3>2, <3>3, <3>4
  <2>6. QueueTypes'
    BY Zenon, <2>1, <2>2 DEF QueueTypes
  <2>7. Lists(t)'
    <3>1. \A k, l \in 1 .. (n - 1) : t[k] = t[l] => k = l
      <4>1. ASSUME NEW k \in 1 .. (n - 1), NEW l \in 1 .. (n - 1), t[k] = t[l] PROVE k = l
        <5>1. k + 1 = l + 1
          BY <1>4, <2>3, <2>4, <4>1
        <5> QED
          BY <5>1, <1>1
      <4> QED
        BY Zenon, <4>1
    <3>2. QHead' = IF n - 1 = 0 THEN NoMsg ELSE t[1]
      <4>1. QHead' = IF 1 = n THEN NoMsg ELSE s[1 + 1]
        BY Zenon, <1>4, <2>1, <2>2
      <4>2. n # 1 => 1 \in 1 .. (n - 1)
        BY <1>1, <2>2
      <4> QED
        BY <1>1, <2>3, <4>1, <4>2
    <3>3. \A k \in 1 .. (n - 1) : m_next'[t[k]] = IF k = n - 1 THEN NoMsg ELSE t[k + 1]
      <4>1. ASSUME NEW k \in 1 .. (n - 1)
            PROVE  m_next'[t[k]] = IF k = n - 1 THEN NoMsg ELSE t[k + 1]
        <5>1. m_next'[t[k]] = IF k + 1 = n THEN NoMsg ELSE s[(k + 1) + 1]
          BY Zenon, <1>4, <2>1, <2>3, <2>4
        <5>2. k # n - 1 => k + 1 \in 1 .. (n - 1)
          BY <1>1
        <5>3. k = n - 1 <=> k + 1 = n
          BY <1>1
        <5> QED
          BY Zenon, <2>3, <5>1, <5>2, <5>3
      <4> QED
        BY Zenon, <4>1
    <3>4. n - 1 # 0 => QTail' = t[n - 1]
      <4>1. n - 1 # 0 => n - 1 \in 1 .. (n - 1) /\ (n - 1) + 1 = n
        BY <1>1, <2>2
      <4> QED
        BY Zenon, <1>4, <2>1, <2>2, <2>3, <4>1
    <3>5. item' \notin Members(t) /\ allocated' = Members(t) \cup ({item'} \ {NoMsg})
      BY Zenon, <1>4, <2>1, <2>2, <2>5
    <3> QED
      BY Zenon, <2>3, <3>1, <3>2, <3>3, <3>4, <3>5 DEF Lists, Members
  <2>8. QueueOf(t)' = Tail(QueueOf(s))
    <3>1. QueueOf(t)' = [k \in 1 .. (n - 1) |-> evt[s[k + 1]]]
      BY Zenon, <2>1, <2>3 DEF QueueOf
    <3>2. /\ QueueOf(s) = [k \in 1 .. n |-> evt[s[k]]]
          /\ QueueOf(s) \in Seq(Events \cup {NoEvent}) /\ Len(QueueOf(s)) = n
      BY <1>1, <1>3, <1>2 DEF QueueOf, QueueTypes
    <3>3. Tail(QueueOf(s)) = [k \in 1 .. (n - 1) |-> QueueOf(s)[k + 1]]
      BY <1>1, <2>2, <3>2
    <3>4. \A k \in 1 .. (n - 1) : QueueOf(s)[k + 1] = evt[s[k + 1]]
      BY Zenon, <2>4, <3>2
    <3> QED
      BY Zenon, <3>1, <3>3, <3>4
  <2> QED
    BY <1>2, <2>2, <2>6, <2>7, <2>8 DEF t
<1>8. CASE DeleteItem
  <2>1. /\ item # NoMsg /\ allocated' = allocated \ {item} /\ item' = NoMsg
        /\ evt' = [evt EXCEPT ![item] = NoEvent]
        /\ UNCHANGED <<QHead, QTail, m_next, waiting>>
    BY Zenon, <1>8 DEF DeleteItem
  <2>2. QueueTypes'
    BY Zenon, <2>1 DEF QueueTypes
  <2>3. Lists(s)'
    <3>1. item' \notin Members(s) /\ allocated' = Members(s) \cup ({item'} \ {NoMsg})
      BY Zenon, <1>4, <1>3, <2>1
    <3> QED
      BY Zenon, <2>1, <3>1 DEF Lists, Members
  <2>4. \A k \in 1 .. Len(s) : evt'[s[k]] = evt[s[k]]
    BY Zenon, <1>4, <1>3, <1>2, <2>1 DEF QueueTypes, Members
  <2>5. QueueOf(s)' = QueueOf(s)
    BY Zenon, <2>4 DEF QueueOf
  <2> QED
    BY Zenon, <2>2, <2>3, <2>5
<1>9. CASE CondWait \/ SpuriousWakeup \/ UNCHANGED queueVars
  BY ZenonT(30), <1>9 DEF CondWait, SpuriousWakeup, queueVars, QueueTypes, Lists, QueueOf
<1>10. CASE \E e \in Events : PostEvt(e)
  <2>1. PICK e \in Events : PostEvt(e)
    BY Zenon, <1>10
  <2>2. PICK m \in Msgs \ allocated :
          /\ allocated' = allocated \cup {m} /\ evt' = [evt EXCEPT ![m] = e]
          /\ IF QHead = NoMsg
             THEN QHead' = m /\ m_next' = [m_next EXCEPT ![m] = NoMsg]
             ELSE m_next' = [m_next EXCEPT ![m] = NoMsg, ![QTail] = m] /\ QHead' = QHead
          /\ QTail' = m /\ waiting' = FALSE /\ item' = item
    BY Zenon, <2>1 DEF PostEvt
  <2> QED
    BY Zenon, <1>6, <2>2
<1> QED
  BY Zenon, <1>7, <1>8, <1>9, <1>10 DEF QueueNext

\* The invariant holds when the queue is made.
LEMMA QueueInvInit == QueueInit => QueueInv
<1>1. << >> \in Seq(Msgs)
  OBVIOUS
<1> QED
  BY Zenon, <1>1, QueueInitInv DEF QueueInv

\* Every step keeps the invariant.
LEMMA QueueInvStep == QueueInv /\ [QueueNext]_queueVars => QueueInv'
<1> SUFFICES ASSUME QueueInv, [QueueNext]_queueVars PROVE QueueInv'
  BY Zenon
<1>1. PICK s \in Seq(Msgs) : Lists(s)
  BY Zenon DEF QueueInv
<1>2. QueueTypes
  BY Zenon DEF QueueInv
<1>3. /\ QueueTypes'
      /\ \/ \E m \in Msgs : Lists(Append(s, m))'
         \/ s # << >> /\ Lists(Tail(s))'
         \/ Lists(s)'
  BY Zenon, <1>1, <1>2, QueueStep
<1>4. /\ \A m \in Msgs : Append(s, m) \in Seq(Msgs)
      /\ s # << >> => Tail(s) \in Seq(Msgs)
  OBVIOUS
<1> QED
  BY Zenon, <1>3, <1>4 DEF QueueInv

\* For any pool of messages and any events: the queue's pointers always make a
\* list without a cycle or a freed message.
THEOREM QueueInvariant == QueueSpec => []QueueInv
  BY QueueInvInit, QueueInvStep, PTL DEF QueueSpec

\* For any pool of messages and any events: every queued message is allocated,
\* and every allocated one is in the queue or with the thread, so that none is
\* lost or leaked.
THEOREM NoMessageLost == QueueSpec => []QueuedAreAllocated
<1>1. QueueInv => QueuedAreAllocated
  BY Zenon, QueueListed DEF QueueInv
<1> QED
  BY <1>1, QueueInvariant, PTL

\* For any pool of messages and any events: the linked list that MessageQueue
\* keeps through head, tail and m_next implements a first-in first-out queue
\* of events.
THEOREM ListIsFifo == QueueSpec => ImplementsFifo
<1>1. QueueInit => Fifo!Init
  <2> SUFFICES ASSUME QueueInit PROVE Fifo!Init
    BY Zenon
  <2>1. << >> \in Seq(Msgs) /\ Lists(<< >>)
    BY QueueInitInv
  <2>2. Queue = QueueOf(<< >>)
    BY Zenon, <2>1, QueueListed
  <2> QED
    BY <2>2 DEF QueueOf, Fifo!Init
<1>2. QueueInv /\ [QueueNext]_queueVars => [Fifo!Next]_Queue
  <2> SUFFICES ASSUME QueueInv, [QueueNext]_queueVars PROVE [Fifo!Next]_Queue
    BY Zenon
  <2>1. PICK s \in Seq(Msgs) : Lists(s)
    BY Zenon DEF QueueInv
  <2>2. QueueTypes /\ Queue = QueueOf(s)
    BY Zenon, <2>1, QueueListed DEF QueueInv
  <2>3. \A x \in Seq(Msgs) : Lists(x)' => Queue' = QueueOf(x)'
    BY Zenon, QueueListedNext
  <2>4. \/ \E e \in Events, m \in Msgs :
                 Lists(Append(s, m))' /\ QueueOf(Append(s, m))' = Append(QueueOf(s), e)
        \/ s # << >> /\ Lists(Tail(s))' /\ QueueOf(Tail(s))' = Tail(QueueOf(s))
        \/ Lists(s)' /\ QueueOf(s)' = QueueOf(s)
    BY Zenon, <2>1, <2>2, QueueStep
  <2>5. CASE \E e \in Events, m \in Msgs :
                 Lists(Append(s, m))' /\ QueueOf(Append(s, m))' = Append(QueueOf(s), e)
    <3>1. PICK e \in Events, m \in Msgs :
                 Lists(Append(s, m))' /\ QueueOf(Append(s, m))' = Append(QueueOf(s), e)
      BY Zenon, <2>5
    <3>2. Append(s, m) \in Seq(Msgs)
      OBVIOUS
    <3>3. Queue' = QueueOf(Append(s, m))'
      BY Zenon, <2>3, <3>1, <3>2
    <3>4. Queue' = Append(Queue, e)
      BY Zenon, <2>2, <3>1, <3>3
    <3> QED
      BY Zenon, <3>4 DEF Fifo!Next, Fifo!Put
  <2>6. CASE s # << >> /\ Lists(Tail(s))' /\ QueueOf(Tail(s))' = Tail(QueueOf(s))
    <3>1. Tail(s) \in Seq(Msgs) /\ Len(s) # 0
      BY <2>6
    <3>2. Queue' = Tail(Queue)
      BY Zenon, <2>2, <2>3, <2>6, <3>1
    <3>3. Queue # << >>
      BY <2>2, <3>1 DEF QueueOf
    <3> QED
      BY Zenon, <3>2, <3>3 DEF Fifo!Next, Fifo!Get
  <2>7. CASE Lists(s)' /\ QueueOf(s)' = QueueOf(s)
    <3>1. Queue' = QueueOf(s)'
      BY Zenon, <2>3, <2>7
    <3> QED
      BY Zenon, <2>2, <2>7, <3>1
  <2> QED
    BY Zenon, <2>4, <2>5, <2>6, <2>7
<1> QED
  BY <1>1, <1>2, QueueInvariant, PTL DEF QueueSpec, ImplementsFifo, Fifo!Spec

\* f is the walk along s that leaves out the members of S.
IsWalk(f, s, S) ==
  f = [k \in 0 .. Len(s) |-> IF k = 0 THEN << >>
                             ELSE IF s[k] \in S THEN f[k - 1]
                             ELSE Append(f[k - 1], s[k])]

\* Without is computed by such a walk.
LEMMA WalkDefined ==
  ASSUME NEW T, NEW s \in Seq(T), NEW S
  PROVE  \E f : Without(s, S) = f[Len(s)] /\ IsWalk(f, s, S)
<1> DEFINE Step(f, k) == IF k = 0 THEN << >> ELSE IF s[k] \in S THEN f[k - 1]
                         ELSE Append(f[k - 1], s[k])
           Walks(n) == \E f : f = [k \in 0 .. n |-> Step(f, k)]
           I == {n \in Nat : Walks(n)}
<1>1. 0 \in I
  <2> DEFINE f == [k \in 0 .. 0 |-> << >>]
  <2>1. f = [k \in 0 .. 0 |-> Step(f, k)]
    OBVIOUS
  <2> QED
    BY Zenon, <2>1
<1>2. ASSUME NEW n \in Nat, n \in I PROVE n + 1 \in I
  <2>1. PICK f : f = [k \in 0 .. n |-> Step(f, k)]
    BY Zenon, <1>2
  <2> DEFINE g == [k \in 0 .. (n + 1) |-> IF k = n + 1 THEN Step(f, n + 1) ELSE f[k]]
  <2>2. ASSUME NEW k \in 0 .. (n + 1) PROVE g[k] = Step(g, k)
    <3>1. CASE k = n + 1
      <4>1. k # 0 /\ k - 1 = n /\ n \in 0 .. (n + 1) /\ n # n + 1
        BY <3>1
      <4>2. g[k - 1] = f[k - 1]
        BY Zenon, <4>1
      <4>3. g[k] = Step(f, k)
        BY Zenon, <3>1
      <4> HIDE DEF g
      <4> QED
        BY Zenon, <4>2, <4>3
    <3>2. CASE k # n + 1
      <4>1. k \in 0 .. n /\ (k # 0 => k - 1 \in 0 .. (n + 1) /\ k - 1 # n + 1)
        BY <3>2
      <4>2. f[k] = Step(f, k)
        BY Zenon, <2>1, <4>1
      <4>3. g[k] = f[k] /\ (k # 0 => g[k - 1] = f[k - 1])
        BY Zenon, <3>2, <4>1
      <4> HIDE DEF g
      <4> QED
        BY Zenon, <4>2, <4>3
    <3> QED
      BY Zenon, <3>1, <3>2
  <2>3. g = [k \in 0 .. (n + 1) |-> g[k]]
    BY Zenon
  <2> HIDE DEF g
  <2>4. g = [k \in 0 .. (n + 1) |-> Step(g, k)]
    BY Zenon, <2>2, <2>3
  <2>5. Walks(n + 1)
    BY Zenon, <2>4
  <2> HIDE DEF Walks
  <2> QED
    BY <2>5
<1>3. Nat \subseteq I
  <2> HIDE DEF I
  <2> QED
    BY Zenon, <1>1, <1>2, SetInduction
<1>4. Walks(Len(s))
  <2> HIDE DEF Walks
  <2> QED
    BY <1>3
<1> DEFINE W == CHOOSE f : f = [k \in 0 .. Len(s) |-> Step(f, k)]
<1>5. W = [k \in 0 .. Len(s) |-> Step(W, k)]
  BY Zenon, <1>4
<1>6. Without(s, S) = W[Len(s)]
  BY Zenon DEF Without
<1> HIDE DEF W
<1> QED
  BY Zenon, <1>5, <1>6 DEF IsWalk

\* w is s without the members of S, in the order of s: h tells where an entry
\* of w stands in s.
IsRest(w, s, S) ==
  \E h \in [1 .. Len(w) -> 1 .. Len(s)] :
    /\ \A j, l \in 1 .. Len(w) : j < l => h[j] < h[l]
    /\ \A j \in 1 .. Len(w) : w[j] = s[h[j]] /\ s[h[j]] \notin S
    /\ \A k \in 1 .. Len(s) : s[k] \in S \/ \E j \in 1 .. Len(w) : h[j] = k

\* That is what Without leaves (IPACM_EvtDispatcher::deregistr unlinks the
\* entries of one object).
LEMMA WithoutProperties ==
  ASSUME NEW T, NEW s \in Seq(T), NEW S
  PROVE  Without(s, S) \in Seq(T) /\ IsRest(Without(s, S), s, S)
<1>1. PICK f : Without(s, S) = f[Len(s)] /\ IsWalk(f, s, S)
  BY Zenon, WalkDefined
<1>2. /\ Without(s, S) = f[Len(s)]
      /\ f = [k \in 0 .. Len(s) |-> IF k = 0 THEN << >> ELSE IF s[k] \in S THEN f[k - 1]
                                    ELSE Append(f[k - 1], s[k])]
  BY Zenon, <1>1 DEF IsWalk
<1> DEFINE Left(w, n, h) ==
             /\ w \in Seq(T) /\ h \in [1 .. Len(w) -> 1 .. n]
             /\ \A j, l \in 1 .. Len(w) : j < l => h[j] < h[l]
             /\ \A j \in 1 .. Len(w) : w[j] = s[h[j]] /\ s[h[j]] \notin S
             /\ \A k \in 1 .. n : s[k] \in S \/ \E j \in 1 .. Len(w) : h[j] = k
           I == {n \in Nat : n <= Len(s) => \E h : Left(f[n], n, h)}
<1>3. Len(s) \in Nat /\ \A k \in 1 .. Len(s) : s[k] \in T
  OBVIOUS
<1>4. 0 \in I
  <2>1. f[0] = << >>
    BY <1>2, <1>3
  <2>2. Left(<< >>, 0, << >>)
    OBVIOUS
  <2> HIDE DEF Left
  <2> QED
    BY Zenon, <2>1, <2>2
<1>5. ASSUME NEW n \in Nat, n \in I, n + 1 <= Len(s) PROVE \E h : Left(f[n + 1], n + 1, h)
  <2>1. n <= Len(s) /\ n + 1 \in 1 .. Len(s) /\ n + 1 # 0 /\ (n + 1) - 1 = n
    BY <1>3, <1>5
  <2>2. PICK h : Left(f[n], n, h)
    BY Zenon, <1>5, <2>1
  <2>3. f[n + 1] = IF s[n + 1] \in S THEN f[n] ELSE Append(f[n], s[n + 1])
    <3>1. n + 1 \in 0 .. Len(s)
      BY <2>1
    <3>2. f[n + 1] = IF n + 1 = 0 THEN << >> ELSE IF s[n + 1] \in S THEN f[(n + 1) - 1]
                     ELSE Append(f[(n + 1) - 1], s[n + 1])
      BY Zenon, <1>2, <3>1
    <3> QED
      BY Zenon, <2>1, <3>2
  <2>4. CASE s[n + 1] \in S
    <3>1. Left(f[n], n + 1, h)
      <4>1. \A k \in 1 .. (n + 1) : k \in 1 .. n \/ k = n + 1
        OBVIOUS
      <4>2. \A k \in 1 .. n : k \in 1 .. (n + 1)
        OBVIOUS
      <4> QED
        BY Zenon, <2>2, <2>4, <4>1, <4>2
    <3> HIDE DEF Left
    <3> QED
      BY Zenon, <2>3, <2>4, <3>1
  <2>5. CASE s[n + 1] \notin S
    <3> DEFINE w == f[n]
               a == Append(w, s[n + 1])
               c == Len(w)
               g == [j \in 1 .. (c + 1) |-> IF j = c + 1 THEN n + 1 ELSE h[j]]
    <3>1. w \in Seq(T) /\ c \in Nat
      BY <2>2
    <3>2. a \in Seq(T) /\ Len(a) = c + 1 /\ a[c + 1] = s[n + 1] /\ \A j \in 1 .. c : a[j] = w[j]
      BY SMTT(30), <1>3, <2>1, <3>1
    <3>3. /\ h \in [1 .. c -> 1 .. n]
          /\ \A j, l \in 1 .. c : j < l => h[j] < h[l]
          /\ \A j \in 1 .. c : w[j] = s[h[j]] /\ s[h[j]] \notin S
          /\ \A k \in 1 .. n : s[k] \in S \/ \E j \in 1 .. c : h[j] = k
      BY Zenon, <2>2
    <3>4. c \in Nat
      BY Zenon, <3>1
    <3> HIDE DEF c, a, w
    <3>5. /\ \A j \in 1 .. (c + 1) : j \in 1 .. c \/ j = c + 1
          /\ \A j \in 1 .. c : j \in 1 .. (c + 1) /\ j # c + 1
          /\ c + 1 \in 1 .. (c + 1)
      BY <3>4
    <3>6. g[c + 1] = n + 1 /\ \A j \in 1 .. c : g[j] = h[j] /\ h[j] \in 1 .. n
      BY Zenon, <3>3, <3>5
    <3>7. g \in [1 .. (c + 1) -> 1 .. (n + 1)]
      BY <3>3, <3>5
    <3> HIDE DEF g
    <3>8. \A j, l \in 1 .. (c + 1) : j < l => g[j] < g[l]
      <4>1. ASSUME NEW j \in 1 .. (c + 1), NEW l \in 1 .. (c + 1), j < l PROVE g[j] < g[l]
        <5>1. j \in 1 .. c
          BY <3>4, <4>1
        <5>2. CASE l = c + 1
          BY SMTT(30), <3>6, <5>1, <5>2
        <5>3. CASE l \in 1 .. c
          BY Zenon, <3>3, <3>6, <4>1, <5>1, <5>3
        <5> QED
          BY Zenon, <3>5, <5>2, <5>3
      <4> QED
        BY Zenon, <4>1
    <3>9. \A j \in 1 .. (c + 1) : a[j] = s[g[j]] /\ s[g[j]] \notin S
      BY Zenon, <2>5, <3>2, <3>3, <3>5, <3>6
    <3>10. \A k \in 1 .. (n + 1) : s[k] \in S \/ \E j \in 1 .. (c + 1) : g[j] = k
      <4>1. \A k \in 1 .. (n + 1) : k \in 1 .. n \/ k = n + 1
        OBVIOUS
      <4> QED
        BY Zenon, <3>3, <3>5, <3>6, <4>1
    <3>11. Left(a, n + 1, g)
      BY Zenon, <3>2, <3>7, <3>8, <3>9, <3>10
    <3>12. f[n + 1] = a
      BY Zenon, <2>3, <2>5 DEF a, w
    <3> HIDE DEF Left
    <3> QED
      BY Zenon, <3>11, <3>12
  <2> QED
    BY Zenon, <2>4, <2>5
<1>6. Nat \subseteq I
  <2>1. ASSUME NEW n \in Nat, n \in I PROVE n + 1 \in I
    <3> HIDE DEF Left
    <3>1. n + 1 <= Len(s) => \E h : Left(f[n + 1], n + 1, h)
      BY Zenon, <1>5, <2>1
    <3> QED
      BY <3>1
  <2> HIDE DEF I
  <2> QED
    BY Zenon, <1>4, <2>1, SetInduction
<1>7. PICK h : Left(f[Len(s)], Len(s), h)
  <2> HIDE DEF Left
  <2> QED
    BY <1>3, <1>6
<1> DEFINE w == f[Len(s)]
<1>8. Left(w, Len(s), h) /\ Without(s, S) = w
  BY ZenonT(30), <1>2, <1>7
<1> HIDE DEF w
<1>9. w \in Seq(T) /\ IsRest(w, s, S)
  BY ZenonT(30), <1>8 DEF IsRest
<1> QED
  BY Zenon, <1>8, <1>9

\* The events an interface of each kind is called for.
Names(i) == IF Kind[i] = "lan" THEN {"LINK_DOWN", "DELETE_SELF"} ELSE {"LINK_DOWN"}

\* Messages that are allocated carry events of the dispatcher.
EventsKnown ==
  /\ evt \in [Msgs -> DispEvents \cup {NoEvent}]
  /\ \A m \in allocated : evt[m] \in DispEvents

\* The registrations: none twice, the manager's for LINK_UP always, an
\* interface's exactly while the interface lives, and its DELETE_SELF behind
\* its LINK_DOWN.
ListSound ==
  /\ regs \in Seq(RegNodes)
  /\ \A k, l \in 1 .. Len(regs) : regs[k] = regs[l] => k = l
  /\ <<Mgr, "LINK_UP">> \in Registered
  /\ \A i \in Ifaces, e \in {"LINK_DOWN", "DELETE_SELF", "STATS_UPDATE"} :
       <<i, e>> \in Registered <=> inst[i] # "none" /\ e \in Names(i)
  /\ \A i \in Ifaces : \A k, l \in 1 .. Len(regs) :
       regs[k] = <<i, "DELETE_SELF">> /\ regs[l] = <<i, "LINK_DOWN">> => l < k

\* The types of the interfaces' state.
DispTypes ==
  /\ inst \in [Ifaces -> InstStates]
  /\ cat \in [Ifaces -> {"unknown", "lan", "wlan", "wan"}]

\* The inductive invariant of the dispatcher: the registration that the walk
\* has reached is still in the list.
DispInv == QueueInv /\ EventsKnown /\ ListSound /\ DispTypes /\ cur \in Registered \cup {Null}

\* What a step of the dispatcher does to the queue is a step of the queue.
LEMMA QueueEffects ==
  ASSUME QueueInv, EventsKnown, [Next]_vars
  PROVE  \/ \E e \in DispEvents : PostEvt(e)
         \/ Dequeue \/ CondWait \/ SpuriousWakeup \/ DeleteItem
         \/ UNCHANGED queueVars
<1>1. CASE UNCHANGED vars
  BY Zenon, <1>1 DEF vars
<1>2. CASE \E n \in LinkEvents, i \in Ifaces : PostLink(<<n, i>>)
  BY Zenon, <1>2 DEF PostLink, DispEvents
<1>3. CASE Wakeup \/ TakeEvent \/ WaitForEvent \/ FinishEvent
  BY Zenon, <1>3 DEF Wakeup, TakeEvent, WaitForEvent, FinishEvent
<1>4. CASE ProcessRegistration
  <2>1. CASE Unchanged
    BY Zenon, <2>1 DEF Unchanged
  <2>2. CASE Callback(cur[1], evt[item])
    <3>1. item \in allocated
      BY Zenon, <1>4 DEF ProcessRegistration, QueueInv, Lists
    <3>2. evt[item] \in DispEvents
      BY Zenon, <3>1 DEF EventsKnown
    <3>3. evt[item][2] \in Ifaces
      BY Zenon, <3>2 DEF DispEvents
    <3>4. <<"DELETE_SELF", evt[item][2]>> \in DispEvents
      BY Zenon, <3>3 DEF DispEvents
    <3>5. CASE \E l : l = evt[item][2] /\ post_del_self_evt(l)
      BY Zenon, <3>4, <3>5 DEF post_del_self_evt
    <3>6. CASE UNCHANGED queueVars
      BY Zenon, <3>6
    <3> QED
      BY Zenon, <2>2, <3>5, <3>6 DEF Callback, Unchanged, LinkUpCallback, LanDownCallback,
         WlanDownCallback, WanDownCallback, DeleteSelfCallback, DeleteThis
  <2> QED
    BY Zenon, <1>4, <2>1, <2>2 DEF ProcessRegistration
<1> QED
  BY Zenon, <1>1, <1>2, <1>3, <1>4 DEF Next, ProcessThread

\* Every step of the dispatcher keeps the queue's invariant.
LEMMA EventsStep ==
  ASSUME QueueInv, EventsKnown, [Next]_vars
  PROVE  [QueueNext]_queueVars /\ QueueInv' /\ EventsKnown'
<1>1. [QueueNext]_queueVars
  BY Zenon, QueueEffects, DispAssumption DEF QueueNext
<1>2. QueueInv'
  BY Zenon, <1>1, QueueInvStep
<1>3. EventsKnown'
  <2>1. allocated \subseteq Msgs /\ item \in Msgs \cup {NoMsg}
    BY DEF QueueInv, QueueTypes, Lists, Members
  <2>2. CASE \E e \in DispEvents : PostEvt(e)
    <3>1. PICK e \in DispEvents : PostEvt(e)
      BY Zenon, <2>2
    <3>2. PICK m \in Msgs \ allocated : allocated' = allocated \cup {m}
                                        /\ evt' = [evt EXCEPT ![m] = e]
      BY Zenon, <3>1 DEF PostEvt
    <3> QED
      BY Zenon, <2>1, <3>2 DEF EventsKnown
  <2>3. CASE DeleteItem
    BY Zenon, <2>1, <2>3 DEF EventsKnown, DeleteItem
  <2>4. CASE evt' = evt /\ allocated' = allocated
    BY Zenon, <2>4 DEF EventsKnown
  <2> QED
    BY Zenon, <2>2, <2>3, <2>4, QueueEffects DEF Dequeue, CondWait, SpuriousWakeup, queueVars
<1> QED
  BY Zenon, <1>1, <1>2, <1>3

\* The queue's invariant holds of the queue that the dispatcher uses.
LEMMA DispQueueInv == Spec => [](QueueInv /\ EventsKnown)
<1>1. Init => QueueInv /\ EventsKnown
  <2>1. Init => QueueInv
    BY Zenon, QueueInvInit DEF Init
  <2>2. Init => EventsKnown
    BY Zenon DEF Init, QueueInit, EventsKnown
  <2> QED
    BY Zenon, <2>1, <2>2
<1>2. QueueInv /\ EventsKnown /\ [Next]_vars => (QueueInv /\ EventsKnown)'
  BY Zenon, EventsStep
<1> QED
  BY <1>1, <1>2, PTL DEF Spec

\* The command thread and the posting threads use the queue only as it is
\* specified.
THEOREM DispatcherUsesQueue == Spec => QueueSpec
<1>1. QueueInv /\ EventsKnown /\ [Next]_vars => [QueueNext]_queueVars
  BY Zenon, EventsStep
<1>2. Init => QueueInit
  BY Zenon DEF Init
<1> QED
  BY <1>1, <1>2, DispQueueInv, PTL DEF Spec, QueueSpec

\* For any interfaces and any pool of messages: the dispatcher serves events
\* in the order in which they were posted, through the handlers that post
\* further events.
THEOREM EventsServedInOrder == Spec => ImplementsFifo
BY DispatcherUsesQueue, ListIsFifo, PTL

\* No interface is an access point: LAN and WAN interfaces only.
NoAccessPoint == \A i \in Ifaces : Kind[i] # "wlan"

\* The registration after the k-th is the one at k + 1.
LEMMA NextRegistered ==
  ASSUME ListSound, NEW k \in 1 .. Len(regs)
  PROVE  NextOf(regs[k]) = IF k = Len(regs) THEN Null ELSE regs[k + 1]
<1> DEFINE c == CHOOSE l \in 1 .. Len(regs) : regs[l] = regs[k]
<1>1. c \in 1 .. Len(regs) /\ regs[c] = regs[k]
  BY Zenon
<1>2. c = k
  BY Zenon, <1>1 DEF ListSound
<1> QED
  BY Zenon, <1>2 DEF NextOf

\* A new interface's registrations are put behind all others, which stay.
LEMMA ListAppend ==
  ASSUME ListSound, NoAccessPoint, DispTypes, NEW i \in Ifaces, inst[i] = "none",
         registr(i), inst' = [inst EXCEPT ![i] = "active"]
  PROVE  ListSound' /\ Registered \subseteq Registered'
<1> DEFINE n == Len(regs)
           x == [k \in 1 .. Len(Registrations(Kind[i])) |-> <<i, Registrations(Kind[i])[k]>>]
           d == <<i, "LINK_DOWN">>
           z == <<i, "DELETE_SELF">>
<1>1. n \in Nat /\ regs \in [1 .. n -> RegNodes] /\ regs \in Seq(RegNodes)
  BY DEF ListSound
<1>2. d \in RegNodes /\ z \in RegNodes /\ d # z
  BY Zenon DEF RegNodes
<1>3. Kind[i] \in {"lan", "wan"}
  BY Zenon, IfacesAssumption DEF NoAccessPoint
<1>4. /\ x \in Seq(RegNodes)
      /\ Kind[i] = "lan" => Len(x) = 2 /\ x[1] = d /\ x[2] = z
      /\ Kind[i] # "lan" => Len(x) = 1 /\ x[1] = d
  <2>1. CASE Kind[i] = "lan"
    <3>1. Registrations(Kind[i]) = <<"LINK_DOWN", "DELETE_SELF">>
      BY Zenon, <2>1 DEF Registrations
    <3>2. x = [k \in 1 .. 2 |-> <<i, <<"LINK_DOWN", "DELETE_SELF">>[k]>>]
      BY Zenon, <3>1
    <3>3. x = <<d, z>>
      BY <3>2
    <3> HIDE DEF x, d, z
    <3> QED
      BY <1>2, <2>1, <3>3
  <2>2. CASE Kind[i] # "lan"
    <3>1. Registrations(Kind[i]) = <<"LINK_DOWN">>
      BY Zenon, <1>3, <2>2 DEF Registrations
    <3>2. x = [k \in 1 .. 1 |-> <<i, <<"LINK_DOWN">>[k]>>]
      BY Zenon, <3>1
    <3>3. x[1] = d
      BY <3>2
    <3>4. x \in [1 .. 1 -> RegNodes]
      BY <3>2, <1>2
    <3> HIDE DEF x
    <3> QED
      BY <2>2, <3>3, <3>4
  <2> QED
    BY Zenon, <2>1, <2>2
<1> DEFINE c == Len(x)
<1>5. regs' = regs \o x
  BY Zenon DEF registr
<1>6. c \in {1, 2}
  BY Zenon, <1>4
<1> HIDE DEF x
<1>7. /\ regs' \in Seq(RegNodes) /\ Len(regs') = n + c
      /\ \A k \in 1 .. n : regs'[k] = regs[k]
      /\ \A k \in 1 .. c : regs'[n + k] = x[k]
  BY <1>1, <1>4, <1>5
<1>8. \A k \in 1 .. n : regs[k] # d /\ regs[k] # z
  BY Zenon DEF ListSound, Registered
<1>9. n = Len(regs) /\ Registered = {regs[k] : k \in 1 .. n}
  BY Zenon DEF Registered
<1> HIDE DEF n, c, d, z
<1>10. regs'[n + 1] = d /\ (c = 2 => regs'[n + 2] = z)
  BY SMTT(30), <1>4, <1>6, <1>7 DEF c
<1>11. c = 2 <=> Kind[i] = "lan"
  BY <1>4 DEF c
<1>12. \A k \in 1 .. (n + c) : k \in 1 .. n \/ k = n + 1 \/ (c = 2 /\ k = n + 2)
  BY <1>1, <1>6
<1>13. /\ \A k \in 1 .. n : k \in 1 .. (n + c) /\ k < n + 1 /\ k < n + 2
       /\ n + 1 \in 1 .. (n + c) /\ (c = 2 => n + 2 \in 1 .. (n + c))
  BY <1>1, <1>6
<1>14. Registered' = Registered \cup (IF c = 2 THEN {d, z} ELSE {d})
  <2>1. Registered' = {regs'[k] : k \in 1 .. (n + c)}
    BY Zenon, <1>7 DEF Registered
  <2>2. ASSUME NEW y \in Registered'
        PROVE  y \in Registered \cup (IF c = 2 THEN {d, z} ELSE {d})
    <3>1. PICK k \in 1 .. (n + c) : y = regs'[k]
      BY Zenon, <2>1
    <3>2. k \in 1 .. n \/ k = n + 1 \/ (c = 2 /\ k = n + 2)
      BY Zenon, <1>12
    <3> QED BY Zenon, <1>7, <1>9, <1>10, <3>1, <3>2
  <2>3. ASSUME NEW y \in Registered
        PROVE  y \in Registered'
    BY Zenon, <1>7, <1>9, <1>13, <2>1
  <2>4. d \in Registered' /\ (c = 2 => z \in Registered')
    BY Zenon, <1>10, <1>13, <2>1
  <2> QED BY Zenon, <2>2, <2>3, <2>4
<1>15. \A k, l \in 1 .. (n + c) : regs'[k] = regs'[l] => k = l
  <2>1. \A k, l \in 1 .. n : regs[k] = regs[l] => k = l
    BY Zenon, <1>9 DEF ListSound
  <2>2. d # z
    BY DEF d, z
  <2>3. ASSUME NEW k \in 1 .. (n + c)
        PROVE  \/ k \in 1 .. n /\ regs'[k] = regs[k] /\ regs'[k] # d /\ regs'[k] # z
               \/ k = n + 1 /\ regs'[k] = d
               \/ k = n + 2 /\ regs'[k] = z
    <3>1. k \in 1 .. n \/ k = n + 1 \/ (c = 2 /\ k = n + 2)
      BY Zenon, <1>12
    <3> QED BY Zenon, <1>7, <1>8, <1>10, <3>1
  <2> SUFFICES ASSUME NEW k \in 1 .. (n + c), NEW l \in 1 .. (n + c), regs'[k] = regs'[l]
               PROVE  k = l
    OBVIOUS
  <2> QED BY Zenon, <2>1, <2>2, <2>3
<1>16. \A j \in Ifaces, e \in {"LINK_DOWN", "DELETE_SELF", "STATS_UPDATE"} :
         <<j, e>> \in Registered' <=> inst'[j] # "none" /\ e \in Names(j)
  <2>1. ASSUME NEW j \in Ifaces, NEW e \in {"LINK_DOWN", "DELETE_SELF", "STATS_UPDATE"}, j # i
        PROVE  <<j, e>> \in Registered' <=> inst'[j] # "none" /\ e \in Names(j)
    <3>1. <<j, e>> # d /\ <<j, e>> # z
      BY Zenon, <2>1 DEF d, z
    <3>2. inst'[j] = inst[j]
      BY Zenon, <2>1 DEF DispTypes
    <3> QED
      BY ZenonT(30), <1>14, <3>1, <3>2 DEF ListSound
  <2>2. ASSUME NEW e \in {"LINK_DOWN", "DELETE_SELF", "STATS_UPDATE"}
        PROVE  <<i, e>> \in Registered' <=> inst'[i] # "none" /\ e \in Names(i)
    <3>1. inst'[i] = "active" /\ <<i, e>> \notin Registered
      BY ZenonT(30) DEF DispTypes, ListSound
    <3>2. (<<i, e>> = d <=> e = "LINK_DOWN") /\ (<<i, e>> = z <=> e = "DELETE_SELF")
      BY Zenon DEF d, z
    <3> QED
      BY Zenon, <1>11, <1>14, <3>1, <3>2 DEF Names
  <2> QED
    BY Zenon, <2>1, <2>2
<1>17. \A j \in Ifaces : \A k, l \in 1 .. (n + c) :
         regs'[k] = <<j, "DELETE_SELF">> /\ regs'[l] = <<j, "LINK_DOWN">> => l < k
  <2>1. ASSUME NEW j \in Ifaces, NEW k \in 1 .. (n + c), NEW l \in 1 .. (n + c),
               regs'[k] = <<j, "DELETE_SELF">>, regs'[l] = <<j, "LINK_DOWN">>
        PROVE  l < k
    <3>1. CASE j = i
      <4>1. regs'[k] = z /\ regs'[l] = d
        BY Zenon, <2>1, <3>1 DEF d, z
      <4>2. l = n + 1 /\ k = n + 2
        BY Zenon, <1>2, <1>7, <1>8, <1>10, <1>12, <4>1 DEF d, z
      <4> QED
        BY <1>1, <4>2
    <3>2. CASE j # i
      <4>1. regs'[k] # z /\ regs'[l] # d /\ regs'[k] # d /\ regs'[l] # z
        BY <2>1, <3>2 DEF d, z
      <4>2. k \in 1 .. n /\ l \in 1 .. n
        BY Zenon, <1>10, <1>12, <4>1
      <4> QED
        BY Zenon, <1>9, <1>7, <2>1, <4>2 DEF ListSound
    <3> QED
      BY Zenon, <3>1, <3>2
  <2> QED
    BY Zenon, <2>1
<1>18. <<Mgr, "LINK_UP">> \in Registered'
  BY Zenon, <1>14 DEF ListSound
<1> QED
  BY Zenon, <1>7, <1>14, <1>15, <1>16, <1>17, <1>18 DEF ListSound

\* An interface that goes takes its own registrations off the list and no
\* others.
LEMMA ListRemove ==
  ASSUME ListSound, DispTypes, NEW i \in Ifaces,
         deregistr(i), inst' = [inst EXCEPT ![i] = "none"]
  PROVE  ListSound' /\ Registered' = {r \in Registered : r[1] # i}
<1> DEFINE S == {r \in Registered : r[1] = i}
           w == Without(regs, S)
<1>1. regs' = w /\ regs \in Seq(RegNodes)
  BY Zenon DEF deregistr, ListSound
<1>2. w \in Seq(RegNodes) /\ IsRest(w, regs, S)
  <2> HIDE DEF S
  <2> QED
    BY Zenon, <1>1, WithoutProperties
<1> DEFINE n == Len(regs)
           c == Len(w)
<1> HIDE DEF w
<1>3. PICK h \in [1 .. c -> 1 .. n] :
           /\ \A j, l \in 1 .. c : j < l => h[j] < h[l]
           /\ \A j \in 1 .. c : w[j] = regs[h[j]] /\ regs[h[j]] \notin S
           /\ \A k \in 1 .. n : regs[k] \in S \/ \E j \in 1 .. c : h[j] = k
  BY Zenon, <1>2 DEF IsRest
<1>4. n \in Nat /\ c \in Nat
  BY <1>1, <1>2
<1>5. Registered = {regs[k] : k \in 1 .. n} /\ Registered' = {w[k] : k \in 1 .. c}
  BY Zenon, <1>1 DEF Registered
<1>6. /\ \A k, l \in 1 .. n : regs[k] = regs[l] => k = l
      /\ \A j \in Ifaces : \A k, l \in 1 .. n :
           regs[k] = <<j, "DELETE_SELF">> /\ regs[l] = <<j, "LINK_DOWN">> => l < k
  BY Zenon DEF ListSound
<1>7. c = Len(regs')
  BY Zenon, <1>1
<1> HIDE DEF n, c
<1>8. Registered' = {r \in Registered : r[1] # i}
  <2>1. ASSUME NEW k \in 1 .. c PROVE w[k] \in Registered /\ w[k][1] # i
    BY <1>3, <1>5
  <2>2. ASSUME NEW k \in 1 .. n, regs[k][1] # i PROVE regs[k] \in Registered'
    <3>1. PICK j \in 1 .. c : h[j] = k
      BY Zenon, <1>3, <2>2
    <3> QED
      BY <1>3, <1>5, <3>1
  <2> QED
    BY Zenon, <1>5, <2>1, <2>2
<1>9. \A k, l \in 1 .. c : h[l] < h[k] => l < k
  <2>1. ASSUME NEW k \in 1 .. c, NEW l \in 1 .. c, h[l] < h[k] PROVE l < k
    <3>1. h[k] \in Int /\ h[l] \in Int /\ k \in Int /\ l \in Int
      BY <1>3, <1>4
    <3>2. ~(k < l) /\ k # l
      BY <1>3, <2>1, <3>1
    <3> QED
      BY <3>1, <3>2
  <2> QED
    BY Zenon, <2>1
<1>10. \A k, l \in 1 .. c : w[k] = w[l] => k = l
  <2>1. ASSUME NEW k \in 1 .. c, NEW l \in 1 .. c, w[k] = w[l] PROVE k = l
    <3>1. h[k] = h[l]
      BY SMTT(30), <1>3, <1>6, <2>1
    <3>2. h[k] \in Int
      BY <1>3
    <3>3. ~(k < l) /\ ~(l < k)
      BY SMTT(30), <1>3, <3>1, <3>2
    <3> QED
      BY <1>4, <3>3
  <2> QED
    BY Zenon, <2>1
<1>11. \A j \in Ifaces : \A k, l \in 1 .. c :
         w[k] = <<j, "DELETE_SELF">> /\ w[l] = <<j, "LINK_DOWN">> => l < k
  BY SMTT(30), <1>3, <1>6, <1>9
<1>12. \A j \in Ifaces, e \in {"LINK_DOWN", "DELETE_SELF", "STATS_UPDATE"} :
         <<j, e>> \in Registered' <=> inst'[j] # "none" /\ e \in Names(j)
  <2>1. \A j \in Ifaces : inst'[j] = IF j = i THEN "none" ELSE inst[j]
    BY Zenon DEF DispTypes
  <2> QED
    BY Zenon, <1>8, <2>1 DEF ListSound
<1>13. <<Mgr, "LINK_UP">> \in Registered'
  BY Zenon, <1>8, DispAssumption DEF ListSound
<1> QED
  BY ZenonT(60), <1>1, <1>2, <1>7, <1>8, <1>10, <1>11, <1>12, <1>13 DEF ListSound

\* Every step keeps the registrations sound, and the walk within them.
LEMMA DispStep ==
  ASSUME DispInv, NoAccessPoint, [Next]_vars
  PROVE  ListSound' /\ DispTypes' /\ cur' \in Registered' \cup {Null}
<1>1. /\ QueueInv /\ EventsKnown /\ ListSound /\ DispTypes
      /\ cur \in Registered \cup {Null}
  BY Zenon DEF DispInv
<1> DEFINE n == Len(regs)
<1>2. /\ n \in Nat /\ Registered = {regs[k] : k \in 1 .. n} /\ Registered \subseteq RegNodes
      /\ n = Len(regs)
  BY <1>1 DEF ListSound, Registered
<1>3. ASSUME regs' = regs, cat' = cat, cur' \in Registered \cup {Null},
             \/ inst' = inst
             \/ \E i \in Ifaces : inst[i] # "none" /\ inst' = [inst EXCEPT ![i] = "inactive"]
      PROVE  ListSound' /\ DispTypes' /\ cur' \in Registered' \cup {Null}
  <2>1. \A i \in Ifaces : inst'[i] # "none" <=> inst[i] # "none"
    BY Zenon, <1>1, <1>3 DEF DispTypes
  <2>2. DispTypes'
    BY Zenon, <1>1, <1>3 DEF DispTypes, InstStates
  <2>3. Registered' = Registered
    BY Zenon, <1>3 DEF Registered
  <2> QED
    BY SMTT(30), <1>1, <1>3, <2>1, <2>2, <2>3 DEF ListSound
<1>4. CASE UNCHANGED dispVars
  BY Zenon, <1>1, <1>3, <1>4 DEF dispVars
<1>5. CASE TakeEvent
  <2>1. 1 \in 1 .. n
    BY SMTT(30), <1>1, <1>2 DEF ListSound
  <2> QED
    BY Zenon, <1>2, <1>3, <1>5, <2>1 DEF TakeEvent
<1>6. CASE ProcessRegistration
  <2> DEFINE e == evt[item]
             l == cur[1]
  <2>1. /\ cur \in Registered /\ cur' = NextOf(cur)
        /\ Unchanged \/ (cur[2] = e[1] /\ Callback(l, e))
    BY Zenon, <1>1, <1>6 DEF ProcessRegistration
  <2>2. PICK k \in 1 .. n : regs[k] = cur
    BY Zenon, <1>2, <2>1
  <2>3. cur' = IF k = n THEN Null ELSE regs[k + 1]
    BY Zenon, <1>1, <1>2, <2>1, <2>2, NextRegistered
  <2>4. k # n => k + 1 \in 1 .. n
    BY SMTT(30), <1>2
  <2>5. cur' \in Registered \cup {Null}
    BY Zenon, <1>2, <2>3, <2>4
  <2>6. e \in DispEvents /\ e[2] \in Ifaces
    <3>1. item \in allocated
      BY Zenon, <1>1, <1>6 DEF ProcessRegistration, QueueInv, Lists
    <3>2. e \in DispEvents
      BY Zenon, <1>1, <3>1 DEF EventsKnown
    <3> QED
      BY Zenon, <3>2 DEF DispEvents
  <2> DEFINE i == e[2]
  <2> HIDE DEF e
  <2>7. CASE UNCHANGED <<regs, inst, cat>>
    BY Zenon, <1>3, <2>5, <2>7
  <2>8. CASE LinkUpCallback(i)
    <3>1. cat' = [cat EXCEPT ![i] = Kind[i]]
      BY Zenon, <2>8 DEF LinkUpCallback
    <3>2. cat' \in [Ifaces -> {"unknown", "lan", "wlan", "wan"}]
      BY Zenon, <1>1, <2>6, <3>1, IfacesAssumption DEF DispTypes
    <3>3. CASE UNCHANGED <<regs, inst>>
      <4>1. Registered' = Registered
        BY Zenon, <3>3 DEF Registered
      <4>2. ListSound'
        BY Zenon, <1>1, <3>3, <4>1 DEF ListSound
      <4> QED
        BY Zenon, <1>1, <2>5, <3>2, <3>3, <4>1, <4>2 DEF DispTypes
    <3>4. CASE inst[i] = "none" /\ registr(i) /\ inst' = [inst EXCEPT ![i] = "active"]
      <4>1. ListSound' /\ Registered \subseteq Registered'
        BY Zenon, <1>1, <2>6, <3>4, ListAppend
      <4>2. DispTypes'
        BY Zenon, <1>1, <2>6, <3>2, <3>4 DEF DispTypes, InstStates
      <4> QED
        BY Zenon, <2>5, <4>1, <4>2
    <3> QED
      BY Zenon, <2>8, <3>3, <3>4 DEF LinkUpCallback
  <2>9. CASE LanDownCallback(i)
    <3>1. /\ inst[i] = "active" /\ inst' = [inst EXCEPT ![i] = "inactive"]
          /\ regs' = regs /\ cat' = cat
      BY Zenon, <2>9 DEF LanDownCallback, post_del_self_evt
    <3> QED
      BY Zenon, <1>3, <2>5, <2>6, <3>1
  <2>10. ASSUME DeleteThis(i), l = i, cur[2] = e[1],
                \/ e[1] = "DELETE_SELF"
                \/ e[1] = "LINK_DOWN" /\ Kind[i] = "wan"
         PROVE  ListSound' /\ DispTypes' /\ cur' \in Registered' \cup {Null}
    <3>1. deregistr(i) /\ inst' = [inst EXCEPT ![i] = "none"] /\ cat' = cat
      BY Zenon, <2>10 DEF DeleteThis
    <3>2. ListSound' /\ Registered' = {r \in Registered : r[1] # i}
      BY Zenon, <1>1, <2>6, <3>1, ListRemove
    <3>3. DispTypes'
      BY Zenon, <1>1, <2>6, <3>1 DEF DispTypes, InstStates
    <3>4. cur = <<i, e[1]>>
      BY SMTT(30), <1>2, <2>1, <2>10 DEF RegNodes
    <3>5. ASSUME k # n PROVE regs[k + 1][1] # i
      <4> DEFINE r == regs[k + 1]
      <4>1. SUFFICES ASSUME r[1] = i PROVE FALSE
        BY Zenon
      <4>2. k + 1 \in 1 .. n /\ k # k + 1 /\ ~(k + 1 < k)
        BY SMTT(30), <1>2, <2>4, <3>5
      <4>3. r \in RegNodes /\ r \in Registered
        BY Zenon, <1>2, <4>2
      <4>4. PICK x \in {"LINK_DOWN", "DELETE_SELF", "STATS_UPDATE"} : r = <<i, x>>
        BY SMTT(30), <2>6, <4>1, <4>3, DispAssumption DEF RegNodes
      <4>5. x \in Names(i)
        BY ZenonT(30), <1>1, <2>6, <4>3, <4>4 DEF ListSound
      <4>6. x # e[1]
        BY ZenonT(30), <1>1, <1>2, <2>2, <3>4, <4>2, <4>4 DEF ListSound
      <4>7. e[1] = "DELETE_SELF" /\ x = "LINK_DOWN"
        BY Zenon, <2>10, <4>5, <4>6 DEF Names
      <4> QED
        BY Zenon, <1>1, <1>2, <2>2, <2>6, <3>4, <4>2, <4>4, <4>7 DEF ListSound
    <3> QED
      BY Zenon, <2>3, <2>5, <3>2, <3>3, <3>5
  <2>11. CASE Callback(l, e) /\ cur[2] = e[1]
    <3>1. Kind[i] # "wlan"
      BY Zenon, <2>6 DEF NoAccessPoint
    <3> QED
      BY Zenon, <2>7, <2>8, <2>9, <2>10, <2>11, <3>1
         DEF Callback, Unchanged, WanDownCallback, DeleteSelfCallback
  <2> QED
    BY Zenon, <2>1, <2>7, <2>11 DEF Unchanged
<1> QED
  BY Zenon, <1>4, <1>5, <1>6 DEF Next, ProcessThread, PostLink, Wakeup, WaitForEvent, FinishEvent,
     vars

\* The invariant holds when the manager has registered.
LEMMA DispInitInv == Init => DispInv
<1> SUFFICES ASSUME Init PROVE DispInv
  BY Zenon
<1> DEFINE r == <<Mgr, "LINK_UP">>
<1>1. QueueInv
  BY Zenon, QueueInvInit DEF Init
<1>2. EventsKnown
  BY Zenon DEF Init, QueueInit, EventsKnown
<1>3. DispTypes
  BY Zenon, IfacesAssumption DEF Init, DispTypes, InstStates
<1>4. r \in RegNodes
  BY Zenon DEF RegNodes
<1>5. regs = <<r>> /\ \A i \in Ifaces : inst[i] = "none"
  BY Zenon DEF Init
<1>6. regs \in Seq(RegNodes) /\ Len(regs) = 1 /\ regs[1] = r
  BY <1>4, <1>5
<1>7. \A i \in Ifaces : \A x : <<i, x>> # r
  BY Zenon, DispAssumption
<1> HIDE DEF r
<1>8. Registered = {r}
  BY <1>6 DEF Registered
<1>9. ListSound
  BY SMTT(30), <1>5, <1>6, <1>7, <1>8 DEF ListSound, r
<1> QED
  BY Zenon, <1>1, <1>2, <1>3, <1>9 DEF DispInv, Init

\* The invariant implies the property.
LEMMA DispInvSafe ==
  ASSUME DispInv, NoAccessPoint
  PROVE  NothingFreedReached
<1>1. PICK s \in Seq(Msgs) : Lists(s)
  BY Zenon DEF DispInv, QueueInv
<1>2. QueuedAreAllocated
  BY Zenon, <1>1, QueueListed
<1>3. ListSound /\ DispTypes /\ QueueTypes /\ EventsKnown /\ cur \in Registered \cup {Null}
  BY Zenon DEF DispInv, QueueInv
<1>4. Registered \subseteq RegNodes
  BY <1>3 DEF Registered, ListSound
<1>5. QHead \in Msgs \cup {NoMsg} /\ allocated \subseteq Msgs
  BY <1>1, <1>3 DEF Lists, QueueTypes, Members
<1>6. TypeOK
  BY Zenon, <1>3, <1>4, <1>5 DEF TypeOK, QueueTypes, DispTypes
<1>7. Cardinality(Registered) = Len(regs)
  <2>1. Len(regs) \in Nat /\ regs \in [1 .. Len(regs) -> Registered]
    BY <1>3 DEF ListSound, Registered
  <2>2. regs \in Bijection(1 .. Len(regs), Registered)
    BY Zenon, <1>3, <2>1 DEF ListSound, Registered, Bijection, Injection, Surjection, IsInjective
  <2>3. IsFiniteSet(1 .. Len(regs)) /\ Cardinality(1 .. Len(regs)) = Len(regs)
    BY Zenon, <2>1, IntervalSize
  <2> QED
    BY Zenon, <2>2, <2>3, FS_Bijection DEF ExistsBijection
<1>8. ASSUME NEW i \in Ifaces
      PROVE  {r[2] : r \in {q \in Registered : q[1] = i}} =
               IF inst[i] = "none" THEN {}
               ELSE {Registrations(Kind[i])[k] : k \in 1 .. Len(Registrations(Kind[i]))}
  <2>1. {Registrations(Kind[i])[k] : k \in 1 .. Len(Registrations(Kind[i]))} = Names(i)
    <3>1. Kind[i] \in {"lan", "wan"}
      BY Zenon, IfacesAssumption DEF NoAccessPoint
    <3>2. CASE Kind[i] = "lan"
      <4>1. Registrations(Kind[i]) = <<"LINK_DOWN", "DELETE_SELF">>
        BY Zenon, <3>2 DEF Registrations
      <4>2. /\ Len(<<"LINK_DOWN", "DELETE_SELF">>) = 2
            /\ \A k \in 1 .. 2 : k = 1 \/ k = 2
        OBVIOUS
      <4>3. {<<"LINK_DOWN", "DELETE_SELF">>[k] : k \in 1 .. 2} = {"LINK_DOWN", "DELETE_SELF"}
        BY <4>2
      <4> QED
        BY Zenon, <3>2, <4>1, <4>2, <4>3 DEF Names
    <3>3. CASE Kind[i] = "wan"
      <4>1. Registrations(Kind[i]) = <<"LINK_DOWN">>
        BY Zenon, <3>3 DEF Registrations
      <4> QED
        BY <3>3, <4>1 DEF Names
    <3> QED
      BY Zenon, <3>1, <3>2, <3>3
  <2>2. ASSUME NEW r \in Registered, r[1] = i
        PROVE  r[2] \in Names(i) /\ inst[i] # "none"
    <3>1. PICK x \in {"LINK_DOWN", "DELETE_SELF", "STATS_UPDATE"} : r = <<i, x>>
      BY <1>4, <2>2, DispAssumption DEF RegNodes
    <3> QED
      BY Zenon, <1>3, <3>1 DEF ListSound
  <2>3. ASSUME inst[i] # "none", NEW x \in Names(i)
        PROVE  <<i, x>> \in Registered
    <3>1. x \in {"LINK_DOWN", "DELETE_SELF", "STATS_UPDATE"}
      BY Zenon DEF Names
    <3> QED
      BY Zenon, <1>3, <2>3, <3>1 DEF ListSound
  <2>4. \A x \in Names(i) : <<i, x>>[1] = i /\ <<i, x>>[2] = x
    BY Zenon
  <2> DEFINE of == {r[2] : r \in {q \in Registered : q[1] = i}}
  <2>5. inst[i] = "none" => of = {}
    BY Zenon, <2>2
  <2>6. of \subseteq Names(i)
    BY Zenon, <2>2
  <2>7. inst[i] # "none" => Names(i) \subseteq of
    BY Zenon, <2>3, <2>4
  <2>8. inst[i] # "none" => of = Names(i)
    BY Zenon, <2>6, <2>7
  <2> QED
    BY Zenon, <2>1, <2>5, <2>8
<1> QED
  BY Zenon, <1>2, <1>3, <1>6, <1>7, <1>8 DEF NothingFreedReached, WalkSafe,
     RegistrationsMatchInstances

\* For any LAN and WAN interfaces: ProcessEvt, which walks the list of
\* registrations while the handlers it calls add and remove registrations,
\* never follows a freed one, and the registrations are those of the
\* interfaces that live. (An access point registers for STATS_UPDATE behind
\* DELETE_SELF, and its deletion frees the registration that the walk has read
\* ahead: the theorem does not hold for one.)
THEOREM WalkStaysInList ==
  ASSUME NoAccessPoint
  PROVE  Spec => []NothingFreedReached
<1>1. DispInv /\ [Next]_vars => DispInv'
  BY Zenon, DispStep, EventsStep DEF DispInv
<1>2. DispInv => NothingFreedReached
  BY Zenon, DispInvSafe
<1> QED
  BY DispInitInv, <1>1, <1>2, PTL DEF Spec

------------------------------------------------------------------------------
(* The neighbour cache. *)

CacheEntries == [mac_addr : Macs, iface_index : Nat,
                 ipa_if_num : IpaIfaces \cup {INVALID_IFACE}, v4_addr : Nat]

\* A client has one entry, with a place it may be at and an address it may have.
CachePlaced(nc, seen, heard) ==
  /\ nc \in Seq(CacheEntries) /\ Len(nc) <= IPA_MAX_NUM_NEIGHBOR_CLIENTS
  /\ seen \in [Macs -> SUBSET Nat] /\ heard \in [Macs -> SUBSET Nat]
  /\ \A i, j \in DOMAIN nc : nc[i].mac_addr = nc[j].mac_addr => i = j
  /\ \A i \in DOMAIN nc : /\ nc[i].iface_index \in seen[nc[i].mac_addr]
                          /\ nc[i].v4_addr \in heard[nc[i].mac_addr] \cup {0}

AnnouncedPlaced(a, seen, heard) ==
  a # NobodyTold => a.at \in seen[a.mac] /\ (a.fam = "v4" => a.addr \in heard[a.mac])

NeighboursInv ==
  /\ CachePlaced(neighbor_client, seenAt, toldV4)
  /\ AnnouncedPlaced(announced, seenAt, toldV4)

\* The table of interfaces has a place for an index, or none.
LEMMA PlaceOfIndex ==
  ASSUME NEW index
  PROVE  iface_ipa_index_query(index) \in IpaIfaces \cup {INVALID_IFACE}
BY Zenon DEF iface_ipa_index_query

\* The search for a client's entry finds it.
LEMMA EntryFound ==
  ASSUME NEW mac, Known(mac), CachePlaced(neighbor_client, seenAt, toldV4)
  PROVE  Entry(mac) \in DOMAIN neighbor_client /\ neighbor_client[Entry(mac)].mac_addr = mac
<1>1. PICK i \in EntriesOf(mac) : TRUE
  BY Zenon DEF Known
<1>2. i \in Nat
  BY <1>1 DEF EntriesOf, CachePlaced
<1>3. \A j \in EntriesOf(mac) : j = i
  BY Zenon, <1>1 DEF EntriesOf, CachePlaced
<1>4. i <= i
  BY <1>2
<1>5. \A j \in EntriesOf(mac) : i <= j
  BY Zenon, <1>3, <1>4
<1>6. Entry(mac) \in EntriesOf(mac)
  BY Zenon, <1>1, <1>5 DEF Entry
<1> QED BY Zenon, <1>6 DEF EntriesOf

\* Noting more about a client, or anything about one with no entry, keeps the cache
\* placed.
LEMMA CacheLeft ==
  ASSUME NEW nc, NEW seen, NEW heard, CachePlaced(nc, seen, heard), NEW mac \in Macs,
         NEW at \in SUBSET Nat, NEW addrs \in SUBSET Nat,
         (\A i \in DOMAIN nc : nc[i].mac_addr # mac) \/ (seen[mac] \subseteq at /\ heard[mac] \subseteq addrs)
  PROVE  CachePlaced(nc, [seen EXCEPT ![mac] = at], [heard EXCEPT ![mac] = addrs])
<1> DEFINE sn == [seen EXCEPT ![mac] = at]
           tn == [heard EXCEPT ![mac] = addrs]
<1>0. nc \in Seq(CacheEntries)
  BY Zenon DEF CachePlaced
<1>a. \A i \in DOMAIN nc : nc[i] \in CacheEntries
  BY <1>0
<1>1. \A i \in DOMAIN nc : nc[i].mac_addr \in Macs
  BY Zenon, <1>a DEF CacheEntries
<1>2. sn \in [Macs -> SUBSET Nat] /\ tn \in [Macs -> SUBSET Nat]
  BY Zenon DEF CachePlaced
<1>3. sn[mac] = at /\ tn[mac] = addrs
  BY Zenon DEF CachePlaced
<1>4. \A m \in Macs : m # mac => sn[m] = seen[m] /\ tn[m] = heard[m]
  BY Zenon DEF CachePlaced
<1> HIDE DEF sn, tn
<1>5. ASSUME NEW i \in DOMAIN nc
      PROVE  /\ nc[i].iface_index \in sn[nc[i].mac_addr]
             /\ nc[i].v4_addr \in tn[nc[i].mac_addr] \cup {0}
  <2>1. /\ nc[i].iface_index \in seen[nc[i].mac_addr]
        /\ nc[i].v4_addr \in heard[nc[i].mac_addr] \cup {0}
    BY Zenon DEF CachePlaced
  <2>2. CASE nc[i].mac_addr = mac
    BY Zenon, <2>1, <2>2, <1>3
  <2>3. CASE nc[i].mac_addr # mac
    BY Zenon, <2>1, <2>3, <1>1, <1>4
  <2> QED BY Zenon, <2>2, <2>3
<1>6. CachePlaced(nc, sn, tn)
  BY Zenon, <1>2, <1>5 DEF CachePlaced
<1> QED BY Zenon, <1>6 DEF sn, tn

\* An entry rewritten from the event that replaces what was noted of its client.
LEMMA CacheUpdated ==
  ASSUME NEW nc, NEW seen, NEW heard, CachePlaced(nc, seen, heard),
         NEW k \in DOMAIN nc, NEW x \in CacheEntries, x.mac_addr = nc[k].mac_addr,
         NEW at \in SUBSET Nat, NEW addrs \in SUBSET Nat,
         x.iface_index \in at, x.v4_addr \in addrs \cup {0}
  PROVE  CachePlaced([nc EXCEPT ![k] = x], [seen EXCEPT ![nc[k].mac_addr] = at],
                     [heard EXCEPT ![nc[k].mac_addr] = addrs])
<1> DEFINE nd == [nc EXCEPT ![k] = x]
           mac == nc[k].mac_addr
           sn == [seen EXCEPT ![mac] = at]
           tn == [heard EXCEPT ![mac] = addrs]
<1>1. nc \in Seq(CacheEntries) /\ Len(nc) \in Nat /\ DOMAIN nc = 1..Len(nc)
  BY DEF CachePlaced
<1>0. \A i \in DOMAIN nc : nc[i] \in CacheEntries
  BY <1>1
<1>2. nd \in Seq(CacheEntries) /\ Len(nd) = Len(nc) /\ DOMAIN nd = DOMAIN nc
  BY <1>1
<1>3. mac \in Macs
  BY Zenon, <1>0 DEF CacheEntries
<1>4. sn \in [Macs -> SUBSET Nat] /\ tn \in [Macs -> SUBSET Nat]
  BY Zenon, <1>3 DEF CachePlaced
<1>5. \A i \in DOMAIN nc : nd[i] = IF i = k THEN x ELSE nc[i]
  BY Zenon
<1> HIDE DEF nd
<1>6. \A i \in DOMAIN nc : nd[i].mac_addr = nc[i].mac_addr
  BY Zenon, <1>5
<1>7. \A i, j \in DOMAIN nd : nd[i].mac_addr = nd[j].mac_addr => i = j
  BY Zenon, <1>2, <1>6 DEF CachePlaced
<1>8. sn[mac] = at /\ tn[mac] = addrs
  BY Zenon, <1>3 DEF CachePlaced
<1>9. \A m \in Macs : m # mac => sn[m] = seen[m] /\ tn[m] = heard[m]
  BY Zenon DEF CachePlaced
<1>10. ASSUME NEW i \in DOMAIN nd
       PROVE  /\ nd[i].iface_index \in sn[nd[i].mac_addr]
              /\ nd[i].v4_addr \in tn[nd[i].mac_addr] \cup {0}
  <2>1. CASE i = k
    BY Zenon, <2>1, <1>2, <1>5, <1>8
  <2>2. CASE i # k
    <3>1. nc[i].mac_addr # mac /\ nd[i] = nc[i]
      BY Zenon, <2>2, <1>2, <1>5 DEF CachePlaced
    <3>2. nc[i].mac_addr \in Macs
      BY Zenon, <1>0, <1>2 DEF CacheEntries
    <3> QED BY Zenon, <3>1, <3>2, <1>9, <1>2 DEF CachePlaced
  <2> QED BY Zenon, <2>1, <2>2
<1>11. Len(nd) <= IPA_MAX_NUM_NEIGHBOR_CLIENTS
  BY Zenon, <1>2 DEF CachePlaced
<1> HIDE DEF sn, tn
<1>12. CachePlaced(nd, sn, tn)
  BY Zenon, <1>2, <1>4, <1>7, <1>10, <1>11 DEF CachePlaced
<1> QED BY Zenon, <1>12 DEF nd, sn, tn

\* A new entry for a client that has none, where there is room.
LEMMA CacheGrown ==
  ASSUME NEW nc, NEW seen, NEW heard, CachePlaced(nc, seen, heard),
         NEW x \in CacheEntries, \A i \in DOMAIN nc : nc[i].mac_addr # x.mac_addr,
         Len(nc) < IPA_MAX_NUM_NEIGHBOR_CLIENTS,
         x.iface_index \in seen[x.mac_addr], x.v4_addr \in heard[x.mac_addr] \cup {0}
  PROVE  CachePlaced(Append(nc, x), seen, heard)
<1> DEFINE nd == Append(nc, x)
           n == Len(nc) + 1
<1>1. nc \in Seq(CacheEntries) /\ Len(nc) \in Nat /\ DOMAIN nc = 1..Len(nc)
  BY DEF CachePlaced
<1>2. nd \in Seq(CacheEntries) /\ Len(nd) = n /\ DOMAIN nd = 1..n
  BY <1>1
<1>3. n <= IPA_MAX_NUM_NEIGHBOR_CLIENTS
  BY <1>1, RoomForClients
<1>4. \A i \in 1..n : i \in DOMAIN nc \/ i = n
  BY <1>1
<1>5. (\A i \in DOMAIN nc : nd[i] = nc[i]) /\ nd[n] = x
  BY <1>1
<1> HIDE DEF nd, n
<1>6. \A i, j \in DOMAIN nd : nd[i].mac_addr = nd[j].mac_addr => i = j
  <2>1. \A i, j \in DOMAIN nc : nd[i].mac_addr = nd[j].mac_addr => i = j
    BY Zenon, <1>5 DEF CachePlaced
  <2>2. \A i \in DOMAIN nc : nd[i].mac_addr # nd[n].mac_addr
    BY Zenon, <1>5
  <2> QED BY Zenon, <1>2, <1>4, <2>1, <2>2
<1>7. \A i \in DOMAIN nd : /\ nd[i].iface_index \in seen[nd[i].mac_addr]
                           /\ nd[i].v4_addr \in heard[nd[i].mac_addr] \cup {0}
  BY Zenon, <1>2, <1>4, <1>5 DEF CachePlaced
<1>8. CachePlaced(nd, seen, heard)
  BY Zenon, <1>2, <1>3, <1>6, <1>7 DEF CachePlaced
<1> QED BY Zenon, <1>8 DEF nd

\* What is announced of a client where it may be, with an address it may have.
LEMMA AnnouncedHere ==
  ASSUME NEW mac, NEW at, NEW fam, NEW addr, NEW seen, NEW heard, at \in seen[mac],
         fam = "v4" => addr \in heard[mac]
  PROVE  AnnouncedPlaced([mac |-> mac, at |-> at, fam |-> fam, addr |-> addr], seen, heard)
BY Zenon DEF AnnouncedPlaced

\* A new entry, if there is room for it, for a client that has none.
LEMMA CacheKeeps ==
  ASSUME NEW mac \in Macs, NEW index \in Nat, NEW v4 \in Nat, ~Known(mac),
         CachePlaced(neighbor_client, seenAt, toldV4), Cache(mac, index, v4),
         NEW at \in SUBSET Nat, NEW addrs \in SUBSET Nat, index \in at, v4 \in addrs \cup {0}
  PROVE  CachePlaced(neighbor_client', [seenAt EXCEPT ![mac] = at], [toldV4 EXCEPT ![mac] = addrs])
<1> DEFINE nc == neighbor_client
           sn == [seenAt EXCEPT ![mac] = at]
           tn == [toldV4 EXCEPT ![mac] = addrs]
           x == [mac_addr |-> mac, iface_index |-> index,
                 ipa_if_num |-> iface_ipa_index_query(index), v4_addr |-> v4]
<1>1. \A i \in DOMAIN nc : nc[i].mac_addr # mac
  BY Zenon DEF Known, EntriesOf
<1>2. CachePlaced(nc, sn, tn)
  BY Zenon, <1>1, CacheLeft
<1>3. x \in CacheEntries
  BY Zenon, PlaceOfIndex DEF CacheEntries
<1>4. x.mac_addr = mac /\ x.iface_index = index /\ x.v4_addr = v4
  BY Zenon
<1>5. sn[mac] = at /\ tn[mac] = addrs
  BY Zenon DEF CachePlaced
<1>6. nc' = IF Len(nc) < IPA_MAX_NUM_NEIGHBOR_CLIENTS THEN Append(nc, x) ELSE nc
  BY Zenon DEF Cache
<1> HIDE DEF x, sn, tn
<1>7. CASE Len(nc) < IPA_MAX_NUM_NEIGHBOR_CLIENTS
  <2>1. CachePlaced(Append(nc, x), sn, tn)
    BY Zenon, <1>1, <1>2, <1>3, <1>4, <1>5, <1>7, CacheGrown
  <2> QED BY Zenon, <2>1, <1>6, <1>7 DEF sn, tn
<1>8. CASE ~(Len(nc) < IPA_MAX_NUM_NEIGHBOR_CLIENTS)
  BY Zenon, <1>2, <1>6, <1>8 DEF sn, tn
<1> QED BY Zenon, <1>7, <1>8

\* A client that comes back without an address.
LEMMA ReconnectKeeps ==
  ASSUME NEW mac \in Macs, NEW index \in Nat, NEW memory \in BOOLEAN, Known(mac),
         CachePlaced(neighbor_client, seenAt, toldV4), Reconnect(mac, index, memory)
  PROVE  /\ CachePlaced(neighbor_client', [seenAt EXCEPT ![mac] = {index}], toldV4)
         /\ AnnouncedPlaced(announced', [seenAt EXCEPT ![mac] = {index}], toldV4)
<1> DEFINE nc == neighbor_client
           k == Entry(mac)
           e == nc[k]
           x == [e EXCEPT !.iface_index = index]
           sn == [seenAt EXCEPT ![mac] = {index}]
<1>1. k \in DOMAIN nc /\ e.mac_addr = mac
  BY Zenon, EntryFound
<1>2. nc \in Seq(CacheEntries)
  BY Zenon DEF CachePlaced
<1>3. e \in CacheEntries
  BY <1>1, <1>2
<1>4. x \in CacheEntries /\ x.mac_addr = e.mac_addr /\ x.iface_index = index /\ x.v4_addr = e.v4_addr
  BY <1>3 DEF CacheEntries
<1>5. seenAt \in [Macs -> SUBSET Nat] /\ toldV4 \in [Macs -> SUBSET Nat]
  BY Zenon DEF CachePlaced
<1>6. [toldV4 EXCEPT ![mac] = toldV4[mac]] = toldV4 /\ sn[mac] = {index}
  BY <1>5
<1>7. e.v4_addr \in toldV4[mac] \cup {0}
  BY Zenon, <1>1 DEF CachePlaced
<1>8. nc' = [nc EXCEPT ![k] = x]
  BY Zenon DEF Reconnect
<1>9. {index} \in SUBSET Nat /\ index \in {index} /\ toldV4[mac] \in SUBSET Nat
  BY Zenon, <1>5
<1>10. IF memory /\ iface_ipa_index_query(index) = e.ipa_if_num /\ e.v4_addr # 0
       THEN Announce(mac, index, "v4", e.v4_addr) ELSE AnnounceNothing
  BY Zenon DEF Reconnect
<1> HIDE DEF x, k, sn
<1>11. CachePlaced([nc EXCEPT ![k] = x], [seenAt EXCEPT ![e.mac_addr] = {index}],
                   [toldV4 EXCEPT ![e.mac_addr] = toldV4[mac]])
  BY Zenon, <1>1, <1>4, <1>7, <1>9, CacheUpdated
<1>12. CachePlaced(nc', sn, toldV4)
  BY Zenon, <1>1, <1>6, <1>8, <1>11 DEF sn
<1>13. AnnouncedPlaced(announced', sn, toldV4)
  <2>1. CASE Announce(mac, index, "v4", e.v4_addr) /\ e.v4_addr # 0
    <3>1. index \in sn[mac] /\ e.v4_addr \in toldV4[mac]
      BY Zenon, <1>6, <1>7, <2>1
    <3> QED BY Zenon, <3>1, <2>1, AnnouncedHere DEF Announce
  <2>2. CASE AnnounceNothing
    BY Zenon, <2>2 DEF AnnounceNothing, AnnouncedPlaced
  <2> QED BY Zenon, <2>1, <2>2, <1>10
<1> QED BY Zenon, <1>12, <1>13 DEF sn

\* An event about a client leaves the cache placed, and what it announces.
LEMMA EventPlaced ==
  ASSUME NeighboursInv, NEW mac \in Macs, NEW index \in Nat, NEW memory \in BOOLEAN,
         NeighbourEvent(mac, index, memory)
  PROVE  NeighboursInv'
<1> DEFINE nc == neighbor_client
           at == seenAt[mac]
           addrs == toldV4[mac]
           here == [seenAt EXCEPT ![mac] = {index}]
           also == [seenAt EXCEPT ![mac] = at \cup {index}]
<1>1. CachePlaced(nc, seenAt, toldV4)
  BY Zenon DEF NeighboursInv
<1>2. /\ seenAt \in [Macs -> SUBSET Nat] /\ toldV4 \in [Macs -> SUBSET Nat]
      /\ at \in SUBSET Nat /\ addrs \in SUBSET Nat
  BY Zenon, <1>1 DEF CachePlaced
<1>3. [seenAt EXCEPT ![mac] = at] = seenAt /\ [toldV4 EXCEPT ![mac] = addrs] = toldV4
  BY <1>2
<1>4. ~Known(mac) => \A i \in DOMAIN nc : nc[i].mac_addr # mac
  BY Zenon DEF Known, EntriesOf
<1>5. {index} \in SUBSET Nat /\ at \cup {index} \in SUBSET Nat /\ index \in {index}
  BY Zenon, <1>2
<1>6. here[mac] = {index} /\ also[mac] = at \cup {index}
  BY Zenon, <1>2
<1> HIDE DEF at, addrs
<1>7. ~Known(mac) => CachePlaced(nc, here, toldV4)
  <2>1. ~Known(mac) => CachePlaced(nc, here, [toldV4 EXCEPT ![mac] = addrs])
    BY Zenon, <1>1, <1>2, <1>4, <1>5, CacheLeft
  <2> QED BY Zenon, <2>1, <1>3
<1>8. CachePlaced(nc, also, toldV4)
  <2>1. seenAt[mac] \subseteq at \cup {index} /\ toldV4[mac] \subseteq addrs
    BY Zenon DEF at, addrs
  <2>2. CachePlaced(nc, also, [toldV4 EXCEPT ![mac] = addrs])
    BY Zenon, <1>1, <1>2, <1>5, <2>1, CacheLeft
  <2> QED BY Zenon, <2>2, <1>3
<1> USE DEF at, addrs
<1>9. Known(mac) => /\ Entry(mac) \in DOMAIN nc /\ nc[Entry(mac)].mac_addr = mac
                    /\ nc[Entry(mac)].iface_index \in at
  BY Zenon, <1>1, EntryFound DEF CachePlaced
<1>10. AnnounceNothing => AnnouncedPlaced(announced', seenAt', toldV4')
  BY Zenon DEF AnnounceNothing, AnnouncedPlaced
<1>11. SUFFICES /\ CachePlaced(nc', seenAt', toldV4')
                /\ AnnouncedPlaced(announced', seenAt', toldV4')
  BY Zenon DEF NeighboursInv, CachePlaced, AnnouncedPlaced
<1> HIDE DEF here, also
<1>12. CASE ~OnBridge(index) /\ ClientAssociated(mac, index, memory) /\ Noted(mac, index, {}, TRUE)
  <2>1. seenAt' = here /\ toldV4' = toldV4
    BY Zenon, <1>12 DEF Noted, here
  <2>2. CASE Known(mac)
    BY Zenon, <1>1, <1>12, <2>1, <2>2, ReconnectKeeps DEF ClientAssociated, here
  <2>3. CASE ~Known(mac)
    BY Zenon, <1>7, <1>10, <1>12, <2>1, <2>3 DEF ClientAssociated
  <2> QED BY Zenon, <2>2, <2>3
<1>13. CASE NeighbourAlone(mac, index, memory) /\ Noted(mac, index, {}, TRUE)
  <2>1. CASE OnBridge(index)
    BY Zenon, <1>1, <1>10, <1>13, <2>1 DEF NeighbourAlone, Noted
  <2>2. CASE ~OnBridge(index)
    <3>1. seenAt' = here /\ toldV4' = toldV4
      BY Zenon, <1>13, <2>2 DEF Noted, here
    <3>2. CASE Known(mac)
      <4>1. Reconnect(mac, index, memory)
        BY Zenon, <1>13, <2>2, <3>2 DEF NeighbourAlone
      <4> QED BY Zenon, <1>1, <3>1, <3>2, <4>1, ReconnectKeeps DEF here
    <3>3. CASE ~Known(mac)
      <4>1. Cache(mac, index, 0) /\ AnnounceNothing
        BY Zenon, <1>13, <2>2, <3>3 DEF NeighbourAlone
      <4>2. 0 \in Nat /\ 0 \in addrs \cup {0}
        BY Zenon
      <4>3. CachePlaced(nc', here, [toldV4 EXCEPT ![mac] = addrs])
        BY Zenon, <1>1, <1>2, <1>5, <3>3, <4>1, <4>2, CacheKeeps DEF here
      <4> QED BY Zenon, <1>3, <1>10, <3>1, <4>1, <4>3
    <3> QED BY Zenon, <3>2, <3>3
  <2> QED BY Zenon, <2>1, <2>2
<1>14. ASSUME NEW addr \in V4s, OnBridge(index), NeighbourV4OnBridge(mac, addr, memory),
              Noted(mac, index, {addr}, TRUE)
       PROVE  CachePlaced(nc', seenAt', toldV4') /\ AnnouncedPlaced(announced', seenAt', toldV4')
  <2> DEFINE tn == [toldV4 EXCEPT ![mac] = {addr}]
             k == Entry(mac)
             x == [nc[k] EXCEPT !.v4_addr = addr]
  <2>1. seenAt' = seenAt /\ toldV4' = tn
    BY Zenon, <1>14 DEF Noted
  <2>2. addr \in Nat
    BY DEF V4s
  <2>3. {addr} \in SUBSET Nat /\ tn[mac] = {addr} /\ addr \in {addr} \cup {0}
    BY Zenon, <1>2, <2>2
  <2>4. CASE Known(mac)
    <3>1. nc \in Seq(CacheEntries)
      BY Zenon, <1>1 DEF CachePlaced
    <3>2. nc[k] \in CacheEntries
      BY <1>9, <2>4, <3>1
    <3>3. /\ x \in CacheEntries /\ x.mac_addr = nc[k].mac_addr /\ x.v4_addr = addr
          /\ x.iface_index = nc[k].iface_index
      BY <2>2, <3>2 DEF CacheEntries
    <3>4. nc' = [nc EXCEPT ![k] = x]
      BY Zenon, <1>14, <2>4 DEF NeighbourV4OnBridge
    <3>5. IF memory THEN Announce(mac, nc[k].iface_index, "v4", addr) ELSE AnnounceNothing
      BY Zenon, <1>14, <2>4 DEF NeighbourV4OnBridge
    <3> HIDE DEF x, k
    <3>6. k \in DOMAIN nc /\ nc[k].mac_addr = mac /\ nc[k].iface_index \in at
      BY Zenon, <1>9, <2>4 DEF k
    <3>7. CachePlaced([nc EXCEPT ![k] = x], [seenAt EXCEPT ![nc[k].mac_addr] = at],
                      [toldV4 EXCEPT ![nc[k].mac_addr] = {addr}])
      BY Zenon, <1>1, <1>2, <2>3, <3>3, <3>6, CacheUpdated
    <3>8. CachePlaced(nc', seenAt', toldV4')
      BY Zenon, <1>3, <2>1, <3>4, <3>6, <3>7
    <3>9. CASE Announce(mac, nc[k].iface_index, "v4", addr)
      <4>1. nc[k].iface_index \in seenAt'[mac] /\ addr \in toldV4'[mac]
        BY Zenon, <2>1, <2>3, <3>6
      <4> QED BY Zenon, <3>8, <3>9, <4>1, AnnouncedHere DEF Announce
    <3> QED BY Zenon, <1>10, <3>5, <3>8, <3>9
  <2>5. CASE ~Known(mac)
    <3>1. CachePlaced(nc, [seenAt EXCEPT ![mac] = at], tn)
      BY Zenon, <1>1, <1>2, <1>4, <2>3, <2>5, CacheLeft
    <3> QED BY Zenon, <1>3, <1>10, <1>14, <2>1, <2>5, <3>1 DEF NeighbourV4OnBridge
  <2> QED BY Zenon, <2>4, <2>5
<1>15. ASSUME NEW addr \in V4s, ~OnBridge(index), NeighbourV4Direct(mac, index, addr, memory),
              Noted(mac, index, {addr}, memory)
       PROVE  CachePlaced(nc', seenAt', toldV4') /\ AnnouncedPlaced(announced', seenAt', toldV4')
  <2>1. addr \in Nat
    BY DEF V4s
  <2>2. /\ {addr} \in SUBSET Nat /\ addrs \cup {addr} \in SUBSET Nat
        /\ addr \in {addr} /\ addr \in {addr} \cup {0}
    BY Zenon, <1>2, <2>1
  <2>3. CASE ~memory
    <3>1. seenAt' = also /\ toldV4' = [toldV4 EXCEPT ![mac] = addrs \cup {addr}]
      BY Zenon, <1>15, <2>3 DEF Noted, also
    <3>2. CachePlaced(nc, also, [toldV4 EXCEPT ![mac] = addrs \cup {addr}])
      BY Zenon, <1>1, <1>5, <2>2, CacheLeft DEF also
    <3> QED BY Zenon, <1>10, <1>15, <2>3, <3>1, <3>2 DEF NeighbourV4Direct
  <2>4. CASE memory
    <3>1. seenAt' = here /\ toldV4' = [toldV4 EXCEPT ![mac] = {addr}]
      BY Zenon, <1>15, <2>4 DEF Noted, here
    <3>2. index \in seenAt'[mac] /\ addr \in toldV4'[mac]
      BY Zenon, <1>2, <1>6, <3>1
    <3>3. Announce(mac, index, "v4", addr)
      BY Zenon, <1>15, <2>4 DEF NeighbourV4Direct
    <3>4. AnnouncedPlaced(announced', seenAt', toldV4')
      BY Zenon, <3>2, <3>3, AnnouncedHere DEF Announce
    <3>5. CASE Known(mac)
      <4> DEFINE k == Entry(mac)
                 place == iface_ipa_index_query(index)
                 x == [nc[k] EXCEPT !.iface_index = index, !.v4_addr = addr, !.ipa_if_num = place]
      <4>1. nc \in Seq(CacheEntries)
        BY Zenon, <1>1 DEF CachePlaced
      <4>2. nc[k] \in CacheEntries
        BY <1>9, <3>5, <4>1
      <4>3. place \in IpaIfaces \cup {INVALID_IFACE}
        BY Zenon, PlaceOfIndex
      <4>4. nc' = [nc EXCEPT ![k] = x]
        BY Zenon, <1>15, <2>4, <3>5 DEF NeighbourV4Direct
      <4> HIDE DEF place, k
      <4>5. /\ x \in CacheEntries /\ x.mac_addr = nc[k].mac_addr /\ x.v4_addr = addr
            /\ x.iface_index = index
        BY <2>1, <4>2, <4>3 DEF CacheEntries
      <4> HIDE DEF x
      <4>6. k \in DOMAIN nc /\ nc[k].mac_addr = mac
        BY Zenon, <1>9, <3>5 DEF k
      <4>7. CachePlaced([nc EXCEPT ![k] = x], [seenAt EXCEPT ![nc[k].mac_addr] = {index}],
                        [toldV4 EXCEPT ![nc[k].mac_addr] = {addr}])
        BY Zenon, <1>1, <1>5, <2>2, <4>5, <4>6, CacheUpdated
      <4> QED BY Zenon, <3>1, <3>4, <4>4, <4>6, <4>7 DEF here
    <3>6. CASE ~Known(mac)
      <4>1. Cache(mac, index, addr)
        BY Zenon, <1>15, <2>4, <3>6 DEF NeighbourV4Direct
      <4>2. CachePlaced(nc', here, [toldV4 EXCEPT ![mac] = {addr}])
        BY Zenon, <1>1, <1>5, <2>1, <2>2, <3>6, <4>1, CacheKeeps DEF here
      <4> QED BY Zenon, <3>1, <3>4, <4>2
    <3> QED BY Zenon, <3>5, <3>6
  <2> QED BY Zenon, <2>3, <2>4
<1>16. CASE NeighbourV6(mac, index, memory) /\ Noted(mac, index, {}, FALSE)
  <2>1. nc' = nc /\ toldV4' = toldV4 /\ seenAt' = IF OnBridge(index) THEN seenAt ELSE also
    BY Zenon, <1>16 DEF NeighbourV6, Noted, also
  <2>2. CachePlaced(nc', seenAt', toldV4')
    BY Zenon, <1>1, <1>8, <2>1
  <2>3. CASE ~OnBridge(index) /\ Announce(mac, index, "v6", 0)
    <3>1. index \in seenAt'[mac] /\ ("v6" = "v4" => 0 \in toldV4'[mac])
      BY Zenon, <1>6, <2>1, <2>3
    <3> QED BY Zenon, <2>2, <2>3, <3>1, AnnouncedHere DEF Announce
  <2>4. CASE OnBridge(index) /\ Known(mac) /\ Announce(mac, nc[Entry(mac)].iface_index, "v6", 0)
    <3>1. nc[Entry(mac)].iface_index \in seenAt'[mac] /\ ("v6" = "v4" => 0 \in toldV4'[mac])
      BY Zenon, <1>9, <2>1, <2>4
    <3> QED BY Zenon, <2>2, <2>4, <3>1, AnnouncedHere DEF Announce
  <2>5. CASE AnnounceNothing
    BY Zenon, <1>10, <2>2, <2>5
  <2> QED BY Zenon, <1>16, <2>3, <2>4, <2>5 DEF NeighbourV6
<1> QED BY Zenon, <1>12, <1>13, <1>14, <1>15, <1>16 DEF NeighbourEvent

\* IPACM_Neighbor announces a client only where it was seen last and with an address
\* it was last heard to have, and keeps within its cache.
THEOREM NeighboursAnnouncedInPlace == NeighboursSpec => []NeighboursPlaced
<1>1. NeighboursInit => NeighboursInv
  <2> SUFFICES ASSUME NeighboursInit PROVE NeighboursInv
    OBVIOUS
  <2>1. neighbor_client \in Seq(CacheEntries) /\ Len(neighbor_client) = 0 /\ DOMAIN neighbor_client = {}
    BY DEF NeighboursInit
  <2>2. 0 <= IPA_MAX_NUM_NEIGHBOR_CLIENTS
    BY RoomForClients
  <2>3. seenAt \in [Macs -> SUBSET Nat] /\ toldV4 \in [Macs -> SUBSET Nat]
    BY DEF NeighboursInit
  <2>4. AnnouncedPlaced(announced, seenAt, toldV4)
    BY Zenon DEF NeighboursInit, AnnouncedPlaced
  <2> QED BY Zenon, <2>1, <2>2, <2>3, <2>4 DEF NeighboursInv, CachePlaced
<1>2. NeighboursInv /\ [NeighboursNext]_neighbourVars => NeighboursInv'
  <2> SUFFICES ASSUME NeighboursInv, [NeighboursNext]_neighbourVars PROVE NeighboursInv'
    OBVIOUS
  <2>1. ASSUME NEW mac \in Macs, NEW index \in 1..MaxIndex, NEW memory \in BOOLEAN,
               NeighbourEvent(mac, index, memory)
        PROVE  NeighboursInv'
    <3>1. index \in Nat
      BY RoomForClients
    <3> QED BY Zenon, <2>1, <3>1, EventPlaced
  <2>2. CASE neighbor_client' = neighbor_client /\ announced' = announced /\ seenAt' = seenAt /\ toldV4' = toldV4
    BY Zenon, <2>2 DEF NeighboursInv, CachePlaced, AnnouncedPlaced
  <2> QED BY Zenon, <2>1, <2>2 DEF NeighboursNext, IfaceCreatedAgain, neighbourVars
<1>3. NeighboursInv => NeighboursPlaced
  BY Zenon DEF NeighboursInv, CachePlaced, AnnouncedPlaced, NeighboursPlaced
<1> QED BY <1>1, <1>2, <1>3, PTL DEF NeighboursSpec

==============================================================================
