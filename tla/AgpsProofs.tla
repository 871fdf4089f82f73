------------------------------ MODULE AgpsProofs ------------------------------
(***************************************************************************)
(* Proofs about the data connections of assisted GPS (GpsAgps): the modem  *)
(* and the engine agree about every connection, through restarts of the    *)
(* modem and whatever the framework and the data service answer.           *)
(***************************************************************************)
EXTENDS GpsAgps, Functions, WellFoundedInduction, TLAPS

------------------------------------------------------------------------------
(* Sequences. *)

\* The length and the elements of a sequence.
LEMMA SeqLen ==
  ASSUME NEW S, NEW s \in Seq(S)
  PROVE  /\ Len(s) \in Nat /\ DOMAIN s = 1 .. Len(s)
         /\ s \in [1 .. Len(s) -> S] /\ \A i \in 1 .. Len(s) : s[i] \in S
OBVIOUS

\* A part of a sequence.
LEMMA SeqPart ==
  ASSUME NEW S, NEW s \in Seq(S), NEW m \in 1 .. Len(s) + 1, NEW n \in m - 1 .. Len(s)
  PROVE  /\ SubSeq(s, m, n) \in Seq(S) /\ Len(SubSeq(s, m, n)) = n - m + 1
         /\ \A i \in 1 .. n - m + 1 : SubSeq(s, m, n)[i] = s[m + i - 1]
OBVIOUS

\* One sequence behind another.
LEMMA SeqJoin ==
  ASSUME NEW S, NEW s \in Seq(S), NEW t \in Seq(S)
  PROVE  /\ s \o t \in Seq(S) /\ Len(s \o t) = Len(s) + Len(t)
         /\ \A i \in 1 .. Len(s) + Len(t) : (s \o t)[i] = IF i <= Len(s) THEN s[i] ELSE t[i - Len(s)]
OBVIOUS

\* A list without repetitions.
Injective(s) == \A i, j \in DOMAIN s : s[i] = s[j] => i = j

\* A list without its k-th entry.
RemoveAt(s, k) == SubSeq(s, 1, k - 1) \o SubSeq(s, k + 1, Len(s))

\* Taking an entry out of a list without repetitions leaves exactly the
\* others: what delete relies on when it unlinks a subscriber.
LEMMA RemoveAtProperties ==
  ASSUME NEW S, NEW q \in Seq(S), Injective(q), NEW k \in DOMAIN q
  PROVE  /\ RemoveAt(q, k) \in Seq(S)
         /\ Injective(RemoveAt(q, k))
         /\ Range(RemoveAt(q, k)) = Range(q) \ {q[k]}
<1> DEFINE r == RemoveAt(q, k)
<1>1. k \in 1..Len(q) /\ Len(q) \in Nat
  BY Zenon, SeqLen
<1>2. /\ SubSeq(q, 1, k-1) \in Seq(S) /\ Len(SubSeq(q, 1, k-1)) = k - 1
      /\ \A i \in 1..(k-1) : SubSeq(q, 1, k-1)[i] = q[i]
  BY <1>1, SeqPart
<1>3. /\ SubSeq(q, k+1, Len(q)) \in Seq(S) /\ Len(SubSeq(q, k+1, Len(q))) = Len(q) - k
      /\ \A i \in 1..(Len(q) - k) : SubSeq(q, k+1, Len(q))[i] = q[k + i]
  BY SMTT(30), <1>1, SeqPart
<1>4. /\ r \in Seq(S) /\ Len(r) = Len(q) - 1 /\ DOMAIN r = 1..(Len(q) - 1)
      /\ \A i \in 1..(Len(q) - 1) : r[i] = IF i < k THEN q[i] ELSE q[i + 1]
  <2> DEFINE a == SubSeq(q, 1, k-1)
             b == SubSeq(q, k+1, Len(q))
  <2>1. r = a \o b
    BY Zenon DEF RemoveAt
  <2>2. /\ a \in Seq(S) /\ Len(a) = k - 1 /\ \A i \in 1..(k-1) : a[i] = q[i]
    BY Zenon, <1>2
  <2>3. /\ b \in Seq(S) /\ Len(b) = Len(q) - k /\ \A i \in 1..(Len(q) - k) : b[i] = q[k + i]
    BY Zenon, <1>3
  <2> HIDE DEF a, b, r
  <2>4. /\ r \in Seq(S) /\ Len(r) = Len(a) + Len(b)
        /\ \A i \in 1..(Len(a) + Len(b)) : r[i] = IF i <= Len(a) THEN a[i] ELSE b[i - Len(a)]
    BY Zenon, <2>1, <2>2, <2>3, SeqJoin
  <2>5. ASSUME NEW i \in 1..(Len(q) - 1) PROVE r[i] = IF i < k THEN q[i] ELSE q[i + 1]
    <3>1. i \in 1..(Len(a) + Len(b)) /\ Len(a) = k - 1
      BY SMTT(30), <1>1, <2>2, <2>3
    <3>2. r[i] = IF i <= k - 1 THEN a[i] ELSE b[i - (k - 1)]
      BY Zenon, <3>1, <2>4
    <3>3. CASE i < k
      BY SMTT(30), <3>3, <1>1, <2>2, <3>2
    <3>4. CASE i >= k
      <4>1. r[i] = b[i - (k - 1)]
        BY <3>4, <1>1, <3>2
      <4>2. i - (k - 1) \in 1..(Len(q) - k) /\ k + (i - (k - 1)) = i + 1
        BY <3>4, <1>1
      <4>3. b[i - (k - 1)] = q[k + (i - (k - 1))]
        BY Zenon, <2>3, <4>2
      <4>4. ~(i < k)
        BY <3>4, <1>1
      <4> QED BY Zenon, <4>1, <4>2, <4>3, <4>4
    <3>5. i < k \/ i >= k
      BY <1>1
    <3> QED BY Zenon, <3>3, <3>4, <3>5
  <2> QED BY SMTT(30), <1>1, <2>2, <2>3, <2>4, <2>5, SeqLen
<1> HIDE DEF r
<1>5. Injective(r)
  <2> SUFFICES ASSUME NEW i \in DOMAIN r, NEW j \in DOMAIN r, r[i] = r[j] PROVE i = j
    BY Zenon DEF Injective
  <2> DEFINE f(n) == IF n < k THEN n ELSE n + 1
  <2>1. f(i) \in DOMAIN q /\ f(j) \in DOMAIN q /\ q[f(i)] = r[i] /\ q[f(j)] = r[j]
    BY SMTT(30), <1>1, <1>4, SeqLen
  <2>2. f(i) = f(j)
    BY Zenon, <2>1 DEF Injective
  <2> QED BY <2>2, <1>1, <1>4
<1>6. Range(r) \subseteq Range(q) \ {q[k]}
  BY SMTT(30), <1>1, <1>4 DEF Range, Injective
<1>7. ASSUME NEW i \in DOMAIN q, q[i] # q[k] PROVE q[i] \in Range(r)
  <2>1. CASE i < k
    BY SMTT(30), <2>1, <1>1, <1>4, r[i] = q[i], i \in DOMAIN r DEF Range
  <2>2. CASE i > k
    BY SMTT(30), <2>2, <1>1, <1>4, r[i-1] = q[i], i-1 \in DOMAIN r DEF Range
  <2> QED BY <2>1, <2>2, <1>1, <1>7
<1>8. Range(r) = Range(q) \ {q[k]}
  BY Zenon, <1>6, <1>7 DEF Range
<1> QED BY Zenon, <1>4, <1>5, <1>8 DEF r

------------------------------------------------------------------------------
(* The data connections of assisted GPS. *)

AtlRequest(id) == <<"requestATL", id>>
AtlRelease(id) == <<"releaseATL", id>>
EngineUp == <<"engineUp", "agnss">>

Waits(q, m) == \E i \in DOMAIN q : q[i] = m

\* A restart of the modem that is not the next message: the modem has not been
\* reached since.
Blocked(q) == \E i \in DOMAIN q : i > 1 /\ q[i] = EngineUp

\* How a handle stands once the last restart is known: req and rel say whether its
\* request and its release wait, held whether agnss has a subscriber for it.
Settled(req, rel, held, n, ci) ==
  \/ ci = "idle" /\ ~held /\ ~req
  \/ ci = "asked" /\ ~rel /\ (IF req THEN ~held ELSE held /\ n = "pending")
  \/ ci = "open" /\ ~rel /\ ~req /\ held /\ n = "acquired"
  \/ ci = "closing" /\ rel /\ ~(req /\ held)

\* ... and while the restart is the next message.
Fresh(req, rel, ci) ==
  \/ ci = "idle" /\ ~req /\ ~rel
  \/ ci = "asked" /\ req /\ ~rel
  \/ ci = "closing" /\ req /\ rel

\* A handle has one request waiting at most, its release comes after it, and neither
\* comes after a restart the modem has not been reached since.
WellQueued(id, q) ==
  /\ \A i, j \in DOMAIN q : q[i] = AtlRequest(id) /\ q[j] = AtlRequest(id) => i = j
  /\ \A i, j \in DOMAIN q : q[i] = AtlRequest(id) /\ q[j] = AtlRelease(id) => i < j
  /\ \A i, j \in DOMAIN q :
       i > 1 /\ q[i] = EngineUp /\ q[j] \in {AtlRequest(id), AtlRelease(id)} => j < i

Agree(id, q, held, n, ci) ==
  /\ WellQueued(id, q)
  /\ Blocked(q) => ci = "idle"
  /\ ~Blocked(q) /\ Waits(q, EngineUp) => Fresh(Waits(q, AtlRequest(id)), Waits(q, AtlRelease(id)), ci)
  /\ ~Waits(q, EngineUp) => Settled(Waits(q, AtlRequest(id)), Waits(q, AtlRelease(id)), held, n, ci)

\* Messages that do not concern an ordinary handle.
Neutral(id, e) == \A i \in DOMAIN e : e[i] \notin {AtlRequest(id), AtlRelease(id), EngineUp}

LEMMA MessagesDiffer ==
  ASSUME NEW id
  PROVE  /\ AtlRequest(id) # AtlRelease(id) /\ AtlRequest(id) # EngineUp
         /\ AtlRelease(id) # EngineUp
BY DEF AtlRequest, AtlRelease, EngineUp

\* The indices of the messages after the first.
LEMMA TailIndices ==
  ASSUME NEW S, NEW q \in Seq(S), q # << >>
  PROVE  /\ Tail(q) \in Seq(S) /\ 1 \in DOMAIN q
         /\ \A i \in DOMAIN Tail(q) : i \in Nat /\ i >= 1 /\ i + 1 \in DOMAIN q /\ Tail(q)[i] = q[i + 1]
         /\ \A i \in DOMAIN q : i \in Nat /\ i >= 1 /\ (i = 1 \/ (i - 1 \in DOMAIN Tail(q) /\ Tail(q)[i - 1] = q[i]))
OBVIOUS

\* What still waits when the first message is taken.
LEMMA TailWaits ==
  ASSUME NEW S, NEW q \in Seq(S), q # << >>, NEW m
  PROVE  Waits(q, m) <=> (q[1] = m \/ Waits(Tail(q), m))
<1>1. /\ 1 \in DOMAIN q
      /\ \A i \in DOMAIN Tail(q) : i + 1 \in DOMAIN q /\ Tail(q)[i] = q[i + 1]
      /\ \A i \in DOMAIN q : i = 1 \/ (i - 1 \in DOMAIN Tail(q) /\ Tail(q)[i - 1] = q[i])
  BY Zenon, TailIndices
<1> QED BY Zenon, <1>1 DEF Waits

LEMMA TailQueued ==
  ASSUME NEW S, NEW q \in Seq(S), q # << >>, NEW id, WellQueued(id, q)
  PROVE  /\ WellQueued(id, Tail(q))
         /\ q[1] = AtlRequest(id) => ~Waits(Tail(q), AtlRequest(id))
         /\ q[1] = AtlRelease(id) => ~Waits(Tail(q), AtlRequest(id))
<1> DEFINE t == Tail(q)
<1>1. /\ 1 \in DOMAIN q
      /\ \A i \in DOMAIN t : i \in Nat /\ i >= 1 /\ i + 1 \in DOMAIN q /\ t[i] = q[i + 1]
  BY Zenon, TailIndices
<1> HIDE DEF t
<1>2. ASSUME NEW i \in DOMAIN t, NEW j \in DOMAIN t,
             t[i] = AtlRequest(id), t[j] = AtlRequest(id)
      PROVE  i = j
  <2>1. i + 1 = j + 1
    BY Zenon, <1>1, <1>2 DEF WellQueued
  <2> QED BY <2>1, <1>1
<1>3. ASSUME NEW i \in DOMAIN t, NEW j \in DOMAIN t,
             t[i] = AtlRequest(id), t[j] = AtlRelease(id)
      PROVE  i < j
  <2>1. i + 1 < j + 1
    BY Zenon, <1>1, <1>3 DEF WellQueued
  <2> QED BY <2>1, <1>1
<1>4. ASSUME NEW i \in DOMAIN t, NEW j \in DOMAIN t, i > 1,
             t[i] = EngineUp, t[j] \in {AtlRequest(id), AtlRelease(id)}
      PROVE  j < i
  <2>1. i + 1 > 1
    BY <1>1
  <2>2. j + 1 < i + 1
    BY Zenon, <1>1, <1>4, <2>1 DEF WellQueued
  <2> QED BY <2>2, <1>1
<1>5. \A i \in DOMAIN t : i + 1 # 1 /\ ~(i + 1 < 1)
  BY <1>1
<1>6. WellQueued(id, t)
  BY Zenon, <1>2, <1>3, <1>4 DEF WellQueued
<1>7. q[1] = AtlRequest(id) => ~Waits(t, AtlRequest(id))
  BY Zenon, <1>1, <1>5 DEF WellQueued, Waits
<1>8. q[1] = AtlRelease(id) => ~Waits(t, AtlRequest(id))
  BY Zenon, <1>1, <1>5 DEF WellQueued, Waits
<1> QED BY Zenon, <1>6, <1>7, <1>8 DEF t

\* A message is taken while the modem has not been reached since its restart.
LEMMA TakeBlocked ==
  ASSUME NEW S, NEW q \in Seq(S), q # << >>, NEW id, NEW held, NEW n, NEW ci,
         Agree(id, q, held, n, ci), Blocked(q), NEW h, NEW m
  PROVE  Agree(id, Tail(q), h, m, "idle")
<1> DEFINE t == Tail(q)
<1>1. /\ \A i \in DOMAIN t : i \in Nat /\ i >= 1 /\ i + 1 \in DOMAIN q /\ t[i] = q[i + 1]
      /\ \A i \in DOMAIN q : i \in Nat /\ (i = 1 \/ (i - 1 \in DOMAIN t /\ t[i - 1] = q[i]))
  BY Zenon, TailIndices
<1>2. WellQueued(id, q) /\ WellQueued(id, t)
  BY Zenon, TailQueued DEF Agree
<1> HIDE DEF t
<1>3. PICK u \in DOMAIN q : u > 1 /\ q[u] = EngineUp
  BY Zenon DEF Blocked
<1>4. u \in Nat /\ u # 1
  BY <1>1, <1>3
<1>5. u - 1 \in DOMAIN t /\ t[u - 1] = EngineUp
  BY Zenon, <1>1, <1>3, <1>4
<1>6. Waits(t, EngineUp)
  BY Zenon, <1>5 DEF Waits
<1>7. ~Blocked(t) => ~Waits(t, AtlRequest(id)) /\ ~Waits(t, AtlRelease(id))
  <2> SUFFICES ASSUME ~Blocked(t), NEW i \in DOMAIN t, t[i] \in {AtlRequest(id), AtlRelease(id)}
               PROVE  FALSE
    BY Zenon DEF Waits
  <2>1. i + 1 < u
    BY Zenon, <1>1, <1>2, <1>3 DEF WellQueued
  <2>2. ~(u - 1 > 1)
    BY Zenon, <1>5 DEF Blocked
  <2> QED BY <2>1, <2>2, <1>1, <1>4
<1>8. Agree(id, t, h, m, "idle")
  BY Zenon, <1>2, <1>6, <1>7 DEF Agree, Fresh
<1> QED BY Zenon, <1>8 DEF t

\* The engine learns of the restart and forgets its subscribers.
LEMMA TakeUp ==
  ASSUME NEW S, NEW q \in Seq(S), q # << >>, NEW id, NEW held, NEW n, NEW ci,
         Agree(id, q, held, n, ci), ~Blocked(q), q[1] = EngineUp
  PROVE  Agree(id, Tail(q), FALSE, n, ci)
<1> DEFINE t == Tail(q)
<1>1. /\ 1 \in DOMAIN q
      /\ \A i \in DOMAIN t : i \in Nat /\ i >= 1 /\ i + 1 \in DOMAIN q /\ t[i] = q[i + 1]
  BY Zenon, TailIndices
<1>2. WellQueued(id, t)
  BY Zenon, TailQueued DEF Agree
<1>3. /\ Waits(q, AtlRequest(id)) <=> Waits(t, AtlRequest(id))
      /\ Waits(q, AtlRelease(id)) <=> Waits(t, AtlRelease(id))
  BY Zenon, TailWaits, MessagesDiffer
<1> HIDE DEF t
<1>4. \A i \in DOMAIN t : i + 1 > 1
  BY <1>1
<1>5. ~Waits(t, EngineUp)
  BY Zenon, <1>1, <1>4 DEF Blocked, Waits
<1>6. ~Blocked(t)
  BY Zenon, <1>5 DEF Blocked, Waits
<1>7. Waits(q, EngineUp)
  BY Zenon, <1>1 DEF Waits
<1>8. Fresh(Waits(t, AtlRequest(id)), Waits(t, AtlRelease(id)), ci)
  BY Zenon, <1>3, <1>7 DEF Agree, Fresh
<1>9. Settled(Waits(t, AtlRequest(id)), Waits(t, AtlRelease(id)), FALSE, n, ci)
  BY Zenon, <1>8 DEF Fresh, Settled
<1>10. Agree(id, t, FALSE, n, ci)
  BY Zenon, <1>2, <1>5, <1>6, <1>9 DEF Agree
<1> QED BY Zenon, <1>10 DEF t

\* Any other message, according to what its handler makes of the handle.
LEMMA TakeMessage ==
  ASSUME NEW S, NEW q \in Seq(S), q # << >>, NEW id, NEW held, NEW n, NEW ci,
         Agree(id, q, held, n, ci), q[1] # EngineUp, NEW h, NEW m, NEW d,
         Blocked(q) => d = "idle",
         ~Waits(q, EngineUp) =>
           Settled(Waits(Tail(q), AtlRequest(id)), Waits(Tail(q), AtlRelease(id)), h, m, d)
  PROVE  Agree(id, Tail(q), h, m, d)
<1> DEFINE t == Tail(q)
<1>1. CASE Blocked(q)
  BY Zenon, <1>1, TakeBlocked
<1>2. CASE ~Blocked(q)
  <2>1. \A i \in DOMAIN q : i = 1 \/ i > 1
    OBVIOUS
  <2>2. ~Waits(q, EngineUp)
    BY Zenon, <1>2, <2>1 DEF Blocked, Waits
  <2>3. ~Waits(t, EngineUp)
    BY Zenon, <2>2, TailWaits
  <2>4. WellQueued(id, t)
    BY Zenon, TailQueued DEF Agree
  <2> HIDE DEF t
  <2>5. ~Blocked(t)
    BY Zenon, <2>3 DEF Blocked, Waits
  <2>6. Settled(Waits(t, AtlRequest(id)), Waits(t, AtlRelease(id)), h, m, d)
    BY Zenon, <2>2 DEF t
  <2>7. Agree(id, t, h, m, d)
    BY Zenon, <2>3, <2>4, <2>5, <2>6 DEF Agree
  <2> QED BY Zenon, <2>7 DEF t
<1> QED BY Zenon, <1>1, <1>2

LEMMA JoinIndices ==
  ASSUME NEW S, NEW q \in Seq(S), NEW e \in Seq(S)
  PROVE  /\ q \o e \in Seq(S)
         /\ \A i \in DOMAIN q : i \in Nat /\ i \in DOMAIN (q \o e) /\ (q \o e)[i] = q[i]
         /\ \A i \in DOMAIN (q \o e) :
              i \in DOMAIN q \/ (i - Len(q) \in DOMAIN e /\ (q \o e)[i] = e[i - Len(q)])
OBVIOUS

\* Messages that do not concern the handle.
LEMMA AddNeutral ==
  ASSUME NEW S, NEW q \in Seq(S), NEW e \in Seq(S), NEW id, NEW held, NEW n, NEW ci,
         Agree(id, q, held, n, ci), Neutral(id, e)
  PROVE  Agree(id, q \o e, held, n, ci)
<1> DEFINE r == q \o e
<1>1. /\ \A i \in DOMAIN q : i \in DOMAIN r /\ r[i] = q[i]
      /\ \A i \in DOMAIN r : i \in DOMAIN q \/ (i - Len(q) \in DOMAIN e /\ r[i] = e[i - Len(q)])
  BY Zenon, JoinIndices
<1> HIDE DEF r
<1>2. \A i \in DOMAIN r : r[i] \in {AtlRequest(id), AtlRelease(id), EngineUp} =>
        i \in DOMAIN q /\ q[i] = r[i]
  BY Zenon, <1>1 DEF Neutral
<1>3. /\ Waits(r, EngineUp) <=> Waits(q, EngineUp)
      /\ Waits(r, AtlRequest(id)) <=> Waits(q, AtlRequest(id))
      /\ Waits(r, AtlRelease(id)) <=> Waits(q, AtlRelease(id))
  BY Zenon, <1>1, <1>2 DEF Waits
<1>4. Blocked(r) <=> Blocked(q)
  BY Zenon, <1>1, <1>2 DEF Blocked
<1>5. WellQueued(id, r)
  <2>1. WellQueued(id, q)
    BY Zenon DEF Agree
  <2>2. \A i, j \in DOMAIN r : r[i] = AtlRequest(id) /\ r[j] = AtlRequest(id) => i = j
    BY Zenon, <2>1, <1>2 DEF WellQueued
  <2>3. \A i, j \in DOMAIN r : r[i] = AtlRequest(id) /\ r[j] = AtlRelease(id) => i < j
    BY Zenon, <2>1, <1>2 DEF WellQueued
  <2>4. \A i, j \in DOMAIN r :
          i > 1 /\ r[i] = EngineUp /\ r[j] \in {AtlRequest(id), AtlRelease(id)} => j < i
    BY Zenon, <2>1, <1>2 DEF WellQueued
  <2> QED BY Zenon, <2>2, <2>3, <2>4 DEF WellQueued
<1>6. Agree(id, r, held, n, ci)
  BY Zenon, <1>3, <1>4, <1>5 DEF Agree, Fresh, Settled
<1> QED BY Zenon, <1>6 DEF r

LEMMA AppendIndices ==
  ASSUME NEW S, NEW q \in Seq(S), NEW m \in S
  PROVE  /\ Append(q, m) \in Seq(S)
         /\ \A i \in DOMAIN q : i < Len(q) + 1 /\ i # Len(q) + 1 /\ i \in DOMAIN Append(q, m) /\ Append(q, m)[i] = q[i]
         /\ Len(q) + 1 \in DOMAIN Append(q, m) /\ Append(q, m)[Len(q) + 1] = m
         /\ \A i \in DOMAIN Append(q, m) : i \in DOMAIN q \/ i = Len(q) + 1
         /\ Len(q) + 1 > 1 \/ DOMAIN q = {}
         /\ ~(1 < 1)
OBVIOUS

LEMMA AppendNeutral ==
  ASSUME NEW S, NEW q \in Seq(S), NEW x \in S, NEW id, NEW held, NEW n, NEW ci,
         Agree(id, q, held, n, ci), x \notin {AtlRequest(id), AtlRelease(id), EngineUp}
  PROVE  Agree(id, Append(q, x), held, n, ci)
<1>1. <<x>> \in Seq(S) /\ Append(q, x) = q \o <<x>> /\ DOMAIN <<x>> = {1} /\ <<x>>[1] = x
  OBVIOUS
<1>2. Neutral(id, <<x>>)
  BY Zenon, <1>1 DEF Neutral
<1>3. Agree(id, q \o <<x>>, held, n, ci)
  BY Zenon, <1>1, <1>2, AddNeutral
<1> QED BY Zenon, <1>1, <1>3

\* The modem asks for the connection.
LEMMA AskAdds ==
  ASSUME NEW S, NEW q \in Seq(S), NEW id, AtlRequest(id) \in S, NEW held, NEW n,
         Agree(id, q, held, n, "idle"), ~Blocked(q), ~Waits(q, AtlRelease(id))
  PROVE  Agree(id, Append(q, AtlRequest(id)), held, n, "asked")
<1> DEFINE r == Append(q, AtlRequest(id))
           k == Len(q) + 1
<1>1. /\ \A i \in DOMAIN q : i < k /\ i # k /\ i \in DOMAIN r /\ r[i] = q[i]
      /\ k \in DOMAIN r /\ r[k] = AtlRequest(id)
      /\ \A i \in DOMAIN r : i \in DOMAIN q \/ i = k
  BY Zenon, AppendIndices
<1> HIDE DEF r, k
<1>2. ~Waits(q, AtlRequest(id))
  BY Zenon DEF Agree, Fresh, Settled
<1>3. Waits(r, AtlRequest(id))
  BY Zenon, <1>1 DEF Waits
<1>4. ~Waits(r, AtlRelease(id)) /\ (Waits(r, EngineUp) <=> Waits(q, EngineUp))
  BY Zenon, <1>1, MessagesDiffer DEF Waits
<1>5. ~Blocked(r)
  BY Zenon, <1>1, MessagesDiffer DEF Blocked
<1>6. WellQueued(id, r)
  <2>1. \A i \in DOMAIN r : r[i] = AtlRequest(id) => i = k
    BY Zenon, <1>1, <1>2 DEF Waits
  <2>2. \A i \in DOMAIN r : r[i] # AtlRelease(id)
    BY Zenon, <1>4 DEF Waits
  <2>3. \A i \in DOMAIN r : ~(i > 1 /\ r[i] = EngineUp)
    BY Zenon, <1>5 DEF Blocked
  <2> QED BY Zenon, <2>1, <2>2, <2>3 DEF WellQueued
<1>7. ~Waits(q, EngineUp) => ~held
  BY Zenon DEF Agree, Settled
<1>8. Agree(id, r, held, n, "asked")
  BY Zenon, <1>3, <1>4, <1>5, <1>6, <1>7 DEF Agree, Fresh, Settled
<1> QED BY Zenon, <1>8 DEF r

\* The modem gives it back.
LEMMA ReleaseAdds ==
  ASSUME NEW S, NEW q \in Seq(S), NEW id, AtlRelease(id) \in S, NEW held, NEW n, NEW ci,
         Agree(id, q, held, n, ci), ci \in {"asked", "open", "ignored"}
  PROVE  Agree(id, Append(q, AtlRelease(id)), held, n, "closing")
<1> DEFINE r == Append(q, AtlRelease(id))
           k == Len(q) + 1
<1>1. /\ \A i \in DOMAIN q : i < k /\ i # k /\ i \in DOMAIN r /\ r[i] = q[i]
      /\ k \in DOMAIN r /\ r[k] = AtlRelease(id)
      /\ \A i \in DOMAIN r : i \in DOMAIN q \/ i = k
  BY Zenon, AppendIndices
<1> HIDE DEF r, k
<1>2. ci # "idle" /\ ci # "closing"
  OBVIOUS
<1>3. ~Blocked(q) /\ ~Waits(q, AtlRelease(id))
  BY Zenon, <1>2 DEF Agree, Fresh, Settled
<1>4. Waits(r, AtlRelease(id))
  BY Zenon, <1>1 DEF Waits
<1>5. /\ Waits(r, AtlRequest(id)) <=> Waits(q, AtlRequest(id))
      /\ Waits(r, EngineUp) <=> Waits(q, EngineUp)
  BY Zenon, <1>1, MessagesDiffer DEF Waits
<1>6. ~Blocked(r)
  BY Zenon, <1>1, <1>3, MessagesDiffer DEF Blocked
<1>7. WellQueued(id, r)
  <2>1. \A i \in DOMAIN r : r[i] = AtlRequest(id) => i \in DOMAIN q /\ q[i] = AtlRequest(id) /\ i < k
    BY Zenon, <1>1, MessagesDiffer
  <2>2. \A i \in DOMAIN r : r[i] = AtlRelease(id) => i = k
    BY Zenon, <1>1, <1>3 DEF Waits
  <2>3. \A i \in DOMAIN r : ~(i > 1 /\ r[i] = EngineUp)
    BY Zenon, <1>6 DEF Blocked
  <2>4. WellQueued(id, q)
    BY Zenon DEF Agree
  <2> QED BY Zenon, <2>1, <2>2, <2>3, <2>4 DEF WellQueued
<1>8. /\ Waits(q, EngineUp) => Waits(q, AtlRequest(id))
      /\ ~Waits(q, EngineUp) => ~(Waits(q, AtlRequest(id)) /\ held)
  BY Zenon, <1>2, <1>3 DEF Agree, Fresh, Settled
<1>9. Agree(id, r, held, n, "closing")
  BY Zenon, <1>4, <1>5, <1>6, <1>7, <1>8 DEF Agree, Fresh, Settled
<1> QED BY Zenon, <1>9 DEF r

\* The modem restarts.
LEMMA RestartAdds ==
  ASSUME NEW S, NEW q \in Seq(S), EngineUp \in S, NEW id, NEW held, NEW n, NEW ci,
         Agree(id, q, held, n, ci)
  PROVE  Agree(id, Append(q, EngineUp), held, n, "idle")
<1> DEFINE r == Append(q, EngineUp)
           k == Len(q) + 1
<1>1. /\ \A i \in DOMAIN q : i < k /\ i # k /\ i \in DOMAIN r /\ r[i] = q[i]
      /\ k \in DOMAIN r /\ r[k] = EngineUp
      /\ \A i \in DOMAIN r : i \in DOMAIN q \/ i = k
      /\ k > 1 \/ DOMAIN q = {}
  BY Zenon, AppendIndices
<1> HIDE DEF r, k
<1>2. Waits(r, EngineUp)
  BY Zenon, <1>1 DEF Waits
<1>3. \A i \in DOMAIN r : r[i] \in {AtlRequest(id), AtlRelease(id)} => i \in DOMAIN q /\ q[i] = r[i] /\ i < k
  BY Zenon, <1>1, MessagesDiffer
<1>4. WellQueued(id, r)
  <2>1. WellQueued(id, q)
    BY Zenon DEF Agree
  <2>2. \A i, j \in DOMAIN r : r[i] = AtlRequest(id) /\ r[j] = AtlRequest(id) => i = j
    BY Zenon, <2>1, <1>3 DEF WellQueued
  <2>3. \A i, j \in DOMAIN r : r[i] = AtlRequest(id) /\ r[j] = AtlRelease(id) => i < j
    BY Zenon, <2>1, <1>3 DEF WellQueued
  <2>4. \A i, j \in DOMAIN r :
          i > 1 /\ r[i] = EngineUp /\ r[j] \in {AtlRequest(id), AtlRelease(id)} => j < i
    BY Zenon, <2>1, <1>1, <1>3 DEF WellQueued
  <2> QED BY Zenon, <2>2, <2>3, <2>4 DEF WellQueued
<1>5. Blocked(r) \/ DOMAIN q = {}
  BY Zenon, <1>1 DEF Blocked
<1>6. DOMAIN q = {} => ~Waits(r, AtlRequest(id)) /\ ~Waits(r, AtlRelease(id))
  BY Zenon, <1>3 DEF Waits
<1>7. Agree(id, r, held, n, "idle")
  BY Zenon, <1>2, <1>4, <1>5, <1>6 DEF Agree, Fresh
<1> QED BY Zenon, <1>7 DEF r

(* Lists of subscribers. *)

AtlSubscribers == [id : Ids, active : BOOLEAN]
DistinctIds(list) == \A i, j \in DOMAIN list : list[i].id = list[j].id => i = j
AllActive(list) == \A i \in DOMAIN list : list[i].active

\* linked_list_add of a handle that the list does not hold.
LEMMA Added ==
  ASSUME NEW list \in Seq(AtlSubscribers), DistinctIds(list), NEW id \in Ids
  PROVE  /\ addSubscriber(list, id) \in Seq(AtlSubscribers)
         /\ DistinctIds(addSubscriber(list, id))
         /\ IdsOf(addSubscriber(list, id)) = IdsOf(list) \cup {id}
         /\ AllActive(list) => AllActive(addSubscriber(list, id)) /\ addSubscriber(list, id) # << >>
<1> DEFINE x == [id |-> id, active |-> TRUE]
           r == <<x>> \o list
<1>1. CASE id \in IdsOf(list)
  <2>1. addSubscriber(list, id) = list /\ IdsOf(list) = IdsOf(list) \cup {id}
    BY Zenon, <1>1 DEF addSubscriber
  <2>2. list # << >>
    BY <1>1 DEF IdsOf
  <2> QED BY Zenon, <2>1, <2>2
<1>2. CASE id \notin IdsOf(list)
  <2>1. addSubscriber(list, id) = r
    BY Zenon, <1>2 DEF addSubscriber, linked_list_add
  <2>2. x \in AtlSubscribers /\ x.id = id /\ x.active = TRUE
    BY DEF AtlSubscribers
  <2> HIDE DEF x
  <2>3. r \in Seq(AtlSubscribers) /\ 1 \in DOMAIN r /\ r[1] = x /\ r # << >>
    BY <2>2
  <2>c. \A i \in DOMAIN r : i # 1 => \E k \in DOMAIN list : r[i] = list[k] /\ i = k + 1
    <3>1. \A i \in DOMAIN r : i # 1 => i - 1 \in DOMAIN list /\ r[i] = list[i - 1] /\ i = (i - 1) + 1
      BY <2>2
    <3> QED BY Zenon, <3>1
  <2>d. \A i \in DOMAIN list : i + 1 \in DOMAIN r /\ r[i + 1] = list[i]
    BY <2>2
  <2> HIDE DEF r
  <2>4. \A i \in DOMAIN list : list[i].id # id
    BY Zenon, <1>2 DEF IdsOf
  <2>a. \A i \in DOMAIN r : r[i].id = id => i = 1
    BY Zenon, <2>c, <2>4
  <2>b. r[1].id = id /\ r[1].active
    BY Zenon, <2>2, <2>3
  <2>5. DistinctIds(r)
    <3> SUFFICES ASSUME NEW i \in DOMAIN r, NEW j \in DOMAIN r, r[i].id = r[j].id PROVE i = j
      BY Zenon DEF DistinctIds
    <3>1. CASE i = 1 \/ j = 1
      BY Zenon, <3>1, <2>a, <2>b
    <3>2. CASE i # 1 /\ j # 1
      <4>1. PICK a \in DOMAIN list : r[i] = list[a] /\ i = a + 1
        BY Zenon, <3>2, <2>c
      <4>2. PICK b \in DOMAIN list : r[j] = list[b] /\ j = b + 1
        BY Zenon, <3>2, <2>c
      <4>3. a = b
        BY Zenon, <4>1, <4>2 DEF DistinctIds
      <4> QED BY Zenon, <4>1, <4>2, <4>3
    <3> QED BY Zenon, <3>1, <3>2
  <2>6. IdsOf(r) = IdsOf(list) \cup {id}
    <3>1. \A z \in IdsOf(r) : z \in IdsOf(list) \cup {id}
      BY Zenon, <2>c, <2>b DEF IdsOf
    <3>2. \A z \in IdsOf(list) : z \in IdsOf(r)
      BY Zenon, <2>d DEF IdsOf
    <3>3. id \in IdsOf(r)
      BY Zenon, <2>3, <2>b DEF IdsOf
    <3> QED BY Zenon, <3>1, <3>2, <3>3
  <2>7. AllActive(list) => AllActive(r)
    BY Zenon, <2>c, <2>b DEF AllActive
  <2> QED BY Zenon, <2>1, <2>3, <2>5, <2>6, <2>7
<1> QED BY Zenon, <1>1, <1>2

\* linked_list_search, taking out what it finds.
LEMMA Deleted ==
  ASSUME NEW list \in Seq(AtlSubscribers), DistinctIds(list), NEW id \in Ids
  PROVE  /\ delete(list, id) \in Seq(AtlSubscribers)
         /\ DistinctIds(delete(list, id))
         /\ IdsOf(delete(list, id)) = IdsOf(list) \ {id}
         /\ AllActive(list) => AllActive(delete(list, id))
<1> DEFINE equal == [id : {id}, active : BOOLEAN]
           found == {i \in DOMAIN list : list[i] \in equal}
           first == CHOOSE i \in found : \A j \in found : i <= j
<1>1. delete(list, id) = IF found = {} THEN list ELSE RemoveAt(list, first)
  BY DEF delete, linked_list_search, RemoveAt
<1>2. \A i \in DOMAIN list : list[i] \in AtlSubscribers /\ i \in Nat
  OBVIOUS
<1>3. \A x \in AtlSubscribers : x \in equal <=> x.id = id
  BY DEF AtlSubscribers
<1> HIDE DEF equal
<1>4. \A i : i \in found <=> i \in DOMAIN list /\ list[i].id = id
  BY Zenon, <1>2, <1>3
<1> HIDE DEF found
<1>5. CASE found = {}
  <2>1. id \notin IdsOf(list)
    BY Zenon, <1>4, <1>5 DEF IdsOf
  <2> QED BY Zenon, <1>1, <1>5, <2>1
<1>6. CASE found # {}
  <2>1. PICK k \in found : TRUE
    BY Zenon, <1>6
  <2>2. k \in DOMAIN list /\ list[k].id = id /\ found = {k} /\ k \in Nat
    BY Zenon, <2>1, <1>2, <1>4 DEF DistinctIds
  <2>3. k <= k
    BY <2>2
  <2>4. first = k
    BY Zenon, <2>2, <2>3
  <2> DEFINE p == RemoveAt(list, k)
  <2> HIDE DEF first
  <2>5. Injective(list)
    BY Zenon DEF Injective, DistinctIds
  <2>6. p \in Seq(AtlSubscribers) /\ Injective(p) /\ Range(p) = Range(list) \ {list[k]}
    BY Zenon, <2>2, <2>5, RemoveAtProperties
  <2> HIDE DEF p
  <2>7. \A i \in DOMAIN p : \E j \in DOMAIN list : p[i] = list[j] /\ j # k
    BY Zenon, <2>6 DEF Range
  <2>8. \A j \in DOMAIN list : j # k => \E i \in DOMAIN p : p[i] = list[j]
    BY Zenon, <2>2, <2>5, <2>6 DEF Range, Injective
  <2>9. DistinctIds(p)
    <3> SUFFICES ASSUME NEW i \in DOMAIN p, NEW j \in DOMAIN p, p[i].id = p[j].id PROVE p[i] = p[j]
      BY Zenon, <2>6 DEF DistinctIds, Injective
    <3> QED BY Zenon, <2>7 DEF DistinctIds
  <2>10. IdsOf(p) = IdsOf(list) \ {id}
    <3>1. \A i \in DOMAIN list : i # k => list[i].id # id
      BY Zenon, <2>2 DEF DistinctIds
    <3>2. \A z \in IdsOf(p) : z \in IdsOf(list) /\ z # id
      BY Zenon, <2>7, <3>1 DEF IdsOf
    <3>3. \A z \in IdsOf(list) : z # id => z \in IdsOf(p)
      BY Zenon, <2>2, <2>8 DEF IdsOf
    <3> QED BY Zenon, <3>2, <3>3
  <2>11. AllActive(list) => AllActive(p)
    BY Zenon, <2>7 DEF AllActive
  <2> QED BY Zenon, <1>1, <1>6, <2>4, <2>6, <2>9, <2>10, <2>11 DEF p
<1> QED BY Zenon, <1>5, <1>6

LEMMA MadeInactive ==
  ASSUME NEW list \in Seq(AtlSubscribers), DistinctIds(list), NEW id
  PROVE  /\ setInactive(list, id) \in Seq(AtlSubscribers)
         /\ DistinctIds(setInactive(list, id))
         /\ IdsOf(setInactive(list, id)) = IdsOf(list)
<1> DEFINE r == setInactive(list, id)
           new(x) == IF x.id = id THEN [x EXCEPT !.active = FALSE] ELSE x
<1>1. DOMAIN r = DOMAIN list /\ \A i \in DOMAIN list : r[i] = new(list[i])
  BY Zenon DEF setInactive
<1>2. \A x \in AtlSubscribers : new(x) \in AtlSubscribers /\ new(x).id = x.id
  BY DEF AtlSubscribers
<1>3. \A i \in DOMAIN list : list[i] \in AtlSubscribers
  OBVIOUS
<1> HIDE DEF new
<1>4. r = [i \in DOMAIN list |-> new(list[i])]
  BY Zenon DEF setInactive, new
<1>5. r \in Seq(AtlSubscribers)
  <2>1. \A i \in DOMAIN list : new(list[i]) \in AtlSubscribers
    BY Zenon, <1>2, <1>3
  <2> HIDE DEF r
  <2>2. Len(list) \in Nat /\ DOMAIN list = 1..Len(list)
    OBVIOUS
  <2> QED BY <1>1, <2>1, <2>2, <1>4
<1> HIDE DEF r
<1>6. \A i \in DOMAIN list : r[i].id = list[i].id
  BY Zenon, <1>1, <1>2, <1>3
<1>7. DistinctIds(r)
  BY Zenon, <1>1, <1>6 DEF DistinctIds
<1>8. IdsOf(r) = IdsOf(list)
  BY Zenon, <1>1, <1>6 DEF IdsOf
<1> QED BY Zenon, <1>5, <1>7, <1>8 DEF r

\* A set of indices can be listed in order.
Ordered(f, S) ==
  /\ \A i, j \in DOMAIN f : i < j => f[i] < f[j]
  /\ \A i \in S : \E k \in DOMAIN f : f[k] = i

LEMMA OrderExists ==
  ASSUME NEW n \in Nat, NEW S \in SUBSET (1..n)
  PROVE  \E f \in UNION {[1..m -> S] : m \in 0..n} : Ordered(f, S)
<1> DEFINE HasOrder(k, T) == \E m \in 0..k : \E f \in [1..m -> T] : Ordered(f, T)
           bad == {k \in Nat : \E T \in SUBSET (1..k) : ~HasOrder(k, T)}
<1>1. SUFFICES bad = {}
  <2>1. HasOrder(n, S)
    BY Zenon, <1>1
  <2> QED BY Zenon, <2>1
<1>2. SUFFICES ASSUME bad # {} PROVE FALSE
  BY Zenon
<1>3. PICK k \in bad : \A l \in bad : ~(<<l, k>> \in OpToRel(<, Nat))
  BY Zenon, <1>2, NatLessThanWellFounded, WFMin
<1>4. k \in Nat /\ \A l \in Nat : l < k => l \notin bad
  BY Zenon, <1>3 DEF OpToRel
<1>5. PICK T \in SUBSET (1..k) : ~HasOrder(k, T)
  BY Zenon, <1>3
<1>6. CASE k = 0
  <2>1. T = {} /\ 1..0 = {} /\ 0 \in 0..k
    BY <1>5, <1>6
  <2>2. [i \in {} |-> 0] \in [1..0 -> T] /\ Ordered([i \in {} |-> 0], T)
    BY Zenon, <2>1 DEF Ordered
  <2> QED BY Zenon, <1>5, <2>1, <2>2
<1>7. CASE k # 0
  <2> DEFINE U == T \ {k}
  <2>1. k - 1 \in Nat /\ k - 1 < k /\ U \in SUBSET (1..(k - 1))
    BY <1>4, <1>5, <1>7
  <2>2. HasOrder(k - 1, U)
    BY Zenon, <2>1, <1>4
  <2>a. PICK m \in 0..(k - 1) : \E f \in [1..m -> U] : Ordered(f, U)
    BY Zenon, <2>2
  <2>3. PICK f \in [1..m -> U] : Ordered(f, U)
    BY Zenon, <2>a
  <2>4. CASE k \notin T
    <3>1. U = T /\ m \in 0..k
      BY <2>4, <1>4
    <3> QED BY Zenon, <3>1, <2>3, <1>5
  <2>5. CASE k \in T
    <3> DEFINE g == [i \in 1..(m + 1) |-> IF i = m + 1 THEN k ELSE f[i]]
    <3>1. m \in Nat /\ m + 1 \in 0..k /\ m + 1 \in 1..(m + 1)
      BY <1>4, <2>1
    <3>2. \A i \in 1..(m + 1) : i # m + 1 => i \in 1..m /\ f[i] \in T /\ f[i] < k /\ g[i] = f[i]
      <4>1. \A i \in 1..(m + 1) : i # m + 1 => i \in 1..m
        BY <3>1
      <4>2. \A u \in U : u \in T /\ u < k
        BY <1>4, <2>1
      <4>3. \A i \in 1..m : f[i] \in U
        BY Zenon
      <4>4. \A i \in 1..(m + 1) : i # m + 1 => g[i] = f[i]
        BY Zenon
      <4> HIDE DEF g, U
      <4> QED BY Zenon, <4>1, <4>2, <4>3, <4>4
    <3>3. g[m + 1] = k /\ DOMAIN g = 1..(m + 1) /\ \A i \in 1..m : i \in 1..(m + 1) /\ g[i] = f[i]
      BY <3>1
    <3>4. g \in [1..(m + 1) -> T]
      BY Zenon, <3>2, <2>5
    <3> HIDE DEF g, U
    <3>5. \A i, j \in DOMAIN g : i < j => g[i] < g[j]
      <4> SUFFICES ASSUME NEW i \in 1..(m + 1), NEW j \in 1..(m + 1), i < j PROVE g[i] < g[j]
        BY Zenon, <3>3
      <4>1. i # m + 1
        BY <3>1
      <4>2. CASE j = m + 1
        BY Zenon, <3>2, <3>3, <4>1, <4>2
      <4>3. CASE j # m + 1
        BY Zenon, <3>2, <4>1, <4>3, <2>3 DEF Ordered
      <4> QED BY Zenon, <4>2, <4>3
    <3>6. \A i \in T : \E l \in DOMAIN g : g[l] = i
      BY Zenon, <3>1, <3>3, <2>3 DEF Ordered, U
    <3> QED BY Zenon, <3>1, <3>4, <3>5, <3>6, <1>5 DEF Ordered
  <2> QED BY Zenon, <2>4, <2>5
<1> QED BY Zenon, <1>6, <1>7

\* The active subscribers of a list.
LEMMA ActiveOnes ==
  ASSUME NEW list \in Seq(AtlSubscribers), DistinctIds(list)
  PROVE  /\ Active(list) \in Seq(AtlSubscribers)
         /\ DistinctIds(Active(list))
         /\ AllActive(Active(list))
         /\ IdsOf(Active(list)) \subseteq IdsOf(list)
         /\ AllActive(list) => IdsOf(Active(list)) = IdsOf(list)
         /\ (Active(list) = << >>) <=> (\A i \in DOMAIN list : ~list[i].active)
         /\ Active(list) # << >> => Active(list)[1].id \in IdsOf(list)
<1> DEFINE on == {i \in DOMAIN list : list[i].active}
           order == CHOOSE f \in UNION {[1..n -> on] : n \in 0..Len(list)} : Ordered(f, on)
           r == [k \in DOMAIN order |-> list[order[k]]]
<1>1. Active(list) = r
  BY Zenon DEF Active, Ordered
<1>2. Len(list) \in Nat /\ DOMAIN list = 1..Len(list) /\ \A i \in DOMAIN list : list[i] \in AtlSubscribers
  OBVIOUS
<1>3. on \in SUBSET (1..Len(list))
  BY Zenon, <1>2
<1>4. \E f \in UNION {[1..n -> on] : n \in 0..Len(list)} : Ordered(f, on)
  BY Zenon, <1>2, <1>3, OrderExists
<1>5. order \in UNION {[1..n -> on] : n \in 0..Len(list)} /\ Ordered(order, on)
  BY Zenon, <1>4
<1> HIDE DEF order
<1>6. PICK n \in 0..Len(list) : order \in [1..n -> on]
  BY Zenon, <1>5
<1>7. DOMAIN order = 1..n /\ n \in Nat /\ \A k \in 1..n : order[k] \in on
  BY <1>2, <1>6
<1>8. \A k \in 1..n : order[k] \in DOMAIN list /\ list[order[k]].active
  BY Zenon, <1>7
<1>9. DOMAIN r = 1..n /\ \A k \in 1..n : r[k] = list[order[k]]
  BY Zenon, <1>7
<1>10. r = [k \in 1..n |-> list[order[k]]]
  BY Zenon, <1>7
<1>11. \A k \in 1..n : list[order[k]] \in AtlSubscribers
  BY Zenon, <1>2, <1>8
<1>12. r \in Seq(AtlSubscribers) /\ (n = 0 <=> r = << >>) /\ (n # 0 => 1 \in 1..n)
  BY <1>7, <1>10, <1>11
<1> HIDE DEF r
<1>13. \A i, j \in 1..n : order[i] = order[j] => i = j
  <2>1. \A i, j \in 1..n : i = j \/ i < j \/ j < i
    BY <1>7
  <2>2. \A i \in DOMAIN list : ~(i < i)
    BY <1>2
  <2> QED BY Zenon, <2>1, <2>2, <1>5, <1>7, <1>8 DEF Ordered
<1>14. DistinctIds(r)
  <2> SUFFICES ASSUME NEW i \in 1..n, NEW j \in 1..n, r[i].id = r[j].id PROVE i = j
    BY Zenon, <1>9 DEF DistinctIds
  <2>a. order[i] \in DOMAIN list /\ order[j] \in DOMAIN list
    BY Zenon, <1>8
  <2>b. list[order[i]].id = list[order[j]].id
    BY Zenon, <1>9
  <2>1. order[i] = order[j]
    BY Zenon, <2>a, <2>b DEF DistinctIds
  <2> QED BY Zenon, <2>1, <1>13
<1>15. AllActive(r)
  BY Zenon, <1>8, <1>9 DEF AllActive
<1>16. IdsOf(r) \subseteq IdsOf(list)
  <2> SUFFICES ASSUME NEW k \in 1..n PROVE r[k].id \in IdsOf(list)
    BY Zenon, <1>9 DEF IdsOf
  <2> QED BY Zenon, <1>8, <1>9 DEF IdsOf
<1>17. AllActive(list) => IdsOf(list) \subseteq IdsOf(r)
  <2> SUFFICES ASSUME AllActive(list), NEW i \in DOMAIN list PROVE list[i].id \in IdsOf(r)
    BY Zenon DEF IdsOf
  <2>1. PICK k \in 1..n : order[k] = i
    BY Zenon, <1>5, <1>7 DEF AllActive, Ordered
  <2> QED BY Zenon, <2>1, <1>9 DEF IdsOf
<1>18. (r = << >>) <=> (on = {})
  <2>1. n = 0 => 1..n = {}
    OBVIOUS
  <2> QED BY Zenon, <2>1, <1>5, <1>7, <1>12 DEF Ordered
<1>19. r # << >> => r[1].id \in IdsOf(list)
  BY Zenon, <1>8, <1>9, <1>12 DEF IdsOf
<1> QED BY Zenon, <1>1, <1>12, <1>14, <1>15, <1>16, <1>17, <1>18, <1>19

(* The states of the two machines. *)

NifStates == {"released", "pending", "acquired", "releasing"}
ConnStates == {"idle", "asked", "open", "closing", "ignored"}
DsCallStates == {"down", "starting", "up", "stopping"}
AgpsMessages ==
  ({"requestATL", "releaseATL"} \X Ids) \cup ({"requestSuplES"} \X EsIds)
    \cup ({"GRANTED", "RELEASED", "DENIED"} \X Machines) \cup {EngineUp}

\* agnss deletes its subscribers when they leave, so that all are active and it is
\* never releasing, and it has none when released.
AgnssOK(n, list) ==
  /\ n \in NifStates /\ n # "releasing"
  /\ list \in Seq(AtlSubscribers) /\ DistinctIds(list) /\ AllActive(list)
  /\ n = "released" => list = << >>

\* ds has emergency subscribers, and inactive ones only until its call is down.
DsOK(n, list) ==
  /\ n \in NifStates
  /\ list \in Seq(AtlSubscribers) /\ DistinctIds(list) /\ IdsOf(list) \subseteq EsIds
  /\ n = "released" => AllActive(list)

AgpsTypes ==
  /\ nif \in [Machines -> NifStates] /\ subs \in [Machines -> Seq(AtlSubscribers)]
  /\ AgnssOK(nif["agnss"], subs["agnss"]) /\ DsOK(nif["ds"], subs["ds"])
  /\ conn \in [Ids -> ConnStates] /\ inbox \in Seq(AgpsMessages)
  /\ dsCall \in DsCallStates /\ mRetries \in 0..MAX_START_DATA_CALL_RETRIES

AgpsInv ==
  /\ AgpsTypes
  /\ \A id \in Ids \ EsIds :
       Agree(id, inbox, id \in IdsOf(subs["agnss"]), nif["agnss"], conn[id])

\* What each handle makes of being told.
LEMMA ToldEach ==
  ASSUME AgpsTypes, NEW ids, NEW status \in {"open", "refused", "overlooked", "closed"}
  PROVE  /\ Told(ids, status) \in [Ids -> ConnStates]
         /\ \A id \in Ids :
              /\ id \notin ids \/ conn[id] = "idle" => Told(ids, status)[id] = conn[id]
              /\ conn[id] = "closing" /\ status # "closed" => Told(ids, status)[id] = "closing"
              /\ id \in ids /\ status = "closed" => Told(ids, status)[id] = "idle"
              /\ id \in ids /\ status = "open" /\ conn[id] = "asked" => Told(ids, status)[id] = "open"
              /\ id \in ids /\ status = "open" /\ conn[id] = "open" => Told(ids, status)[id] = "open"
              /\ id \in ids /\ status = "refused" /\ conn[id] = "asked" => Told(ids, status)[id] = "idle"
<1>1. conn \in [Ids -> ConnStates]
  BY Zenon DEF AgpsTypes
<1> DEFINE new(id) == IF id \notin ids THEN conn[id] ELSE
       CASE status = "open" -> IF conn[id] = "asked" THEN "open" ELSE conn[id]
       [] status = "refused" -> IF conn[id] = "asked" THEN "idle" ELSE conn[id]
       [] status = "overlooked" -> IF conn[id] = "asked" THEN "ignored" ELSE conn[id]
       [] status = "closed" -> "idle"
<1>2. Told(ids, status) = [id \in Ids |-> new(id)]
  BY DEF Told
<1>3. ASSUME NEW id \in Ids
      PROVE  /\ new(id) \in ConnStates
             /\ id \notin ids \/ conn[id] = "idle" => new(id) = conn[id]
             /\ conn[id] = "closing" /\ status # "closed" => new(id) = "closing"
             /\ id \in ids /\ status = "closed" => new(id) = "idle"
             /\ id \in ids /\ status = "open" /\ conn[id] = "asked" => new(id) = "open"
             /\ id \in ids /\ status = "open" /\ conn[id] = "open" => new(id) = "open"
             /\ id \in ids /\ status = "refused" /\ conn[id] = "asked" => new(id) = "idle"
  <2>1. conn[id] \in ConnStates
    BY Zenon, <1>1
  <2>2. \/ id \notin ids /\ new(id) = conn[id]
        \/ id \in ids /\ status = "open" /\ new(id) = IF conn[id] = "asked" THEN "open" ELSE conn[id]
        \/ id \in ids /\ status = "refused" /\ new(id) = IF conn[id] = "asked" THEN "idle" ELSE conn[id]
        \/ id \in ids /\ status = "overlooked" /\ new(id) = IF conn[id] = "asked" THEN "ignored" ELSE conn[id]
        \/ id \in ids /\ status = "closed" /\ new(id) = "idle"
    <3>1. status = "open" \/ status = "refused" \/ status = "overlooked" \/ status = "closed"
      OBVIOUS
    <3>2. CASE id \notin ids
      BY <3>2
    <3>3. CASE id \in ids /\ status = "open"
      BY <3>3
    <3>4. CASE id \in ids /\ status = "refused"
      BY <3>4
    <3>5. CASE id \in ids /\ status = "overlooked"
      BY <3>5
    <3>6. CASE id \in ids /\ status = "closed"
      BY <3>6
    <3> HIDE DEF new
    <3> QED BY Zenon, <3>1, <3>2, <3>3, <3>4, <3>5, <3>6
  <2> HIDE DEF new
  <2>3. {"idle", "open", "ignored"} \subseteq ConnStates
    BY Zenon DEF ConnStates
  <2> QED BY Zenon, <2>1, <2>2, <2>3
<1> HIDE DEF new
<1>4. Told(ids, status) \in [Ids -> ConnStates]
  BY Zenon, <1>2, <1>3
<1>5. \A id \in Ids : Told(ids, status)[id] = new(id)
  BY Zenon, <1>2
<1> QED BY Zenon, <1>3, <1>4, <1>5

LEMMA ToldOthers ==
  ASSUME NEW ids, NEW status, NEW id \in Ids, id \notin ids
  PROVE  Told(ids, status)[id] = conn[id]
BY Zenon DEF Told

LEMMA ToldHandle ==
  ASSUME AgpsTypes, NEW ids, NEW id \in Ids, NEW status \in {"open", "refused", "overlooked", "closed"}
  PROVE  /\ conn[id] = "idle" => Told(ids, status)[id] = "idle"
         /\ conn[id] = "closing" /\ status # "closed" => Told(ids, status)[id] = "closing"
         /\ id \in ids /\ status = "closed" => Told(ids, status)[id] = "idle"
         /\ id \in ids /\ status = "open" /\ conn[id] = "asked" => Told(ids, status)[id] = "open"
         /\ id \in ids /\ status = "refused" /\ conn[id] = "asked" => Told(ids, status)[id] = "idle"
BY ToldEach

LEMMA OneId ==
  ASSUME NEW id
  PROVE  IdsOf(<<[id |-> id]>>) = {id}
BY DEF IdsOf

LEMMA OneEmergency ==
  ASSUME NEW id \in EsIds
  PROVE  IdsOf(<<[id |-> id]>>) \subseteq EsIds
BY DEF IdsOf

\* A machine that keeps its state.
LEMMA SameFor ==
  ASSUME NEW X, NEW f \in [Machines -> X], NEW m \in Machines
  PROVE  [f EXCEPT ![m] = f[m]] = f
OBVIOUS

\* A handler of agnss leaves the rest alone.
LEMMA AgnssFrame ==
  ASSUME AgpsTypes, inbox # << >>, NEW n, NEW list, AgnssOK(n, list),
         nif' = [nif EXCEPT !["agnss"] = n], subs' = [subs EXCEPT !["agnss"] = list],
         conn' \in [Ids -> ConnStates], inbox' = Tail(inbox), dsCall' = dsCall, mRetries' = mRetries
  PROVE  AgpsTypes' /\ nif'["agnss"] = n /\ subs'["agnss"] = list
<1>1. "agnss" \in Machines /\ "ds" \in Machines
  BY Zenon DEF Machines
<1>2. n \in NifStates /\ list \in Seq(AtlSubscribers)
  BY Zenon DEF AgnssOK
<1>3. nif' \in [Machines -> NifStates] /\ subs' \in [Machines -> Seq(AtlSubscribers)]
  BY Zenon, <1>1, <1>2 DEF AgpsTypes
<1>4. /\ nif'["agnss"] = n /\ nif'["ds"] = nif["ds"]
      /\ subs'["agnss"] = list /\ subs'["ds"] = subs["ds"]
  BY Zenon, <1>1 DEF AgpsTypes
<1>5. inbox \in Seq(AgpsMessages)
  BY Zenon DEF AgpsTypes
<1>6. inbox' \in Seq(AgpsMessages)
  BY <1>5
<1> QED BY Zenon, <1>3, <1>4, <1>6 DEF AgpsTypes, AgnssOK, DsOK

\* The handlers of agnss, by event.
LEMMA AgnssSubscribe ==
  ASSUME AgpsTypes, NEW id, onRsrcEvent("agnss", "SUBSCRIBE", id)
  PROVE  /\ inbox' = Tail(inbox) /\ dsCall' = dsCall /\ mRetries' = mRetries
         /\ subs' = [subs EXCEPT !["agnss"] = addSubscriber(subs["agnss"], id)]
         /\ \/ nif["agnss"] = "released" /\ nif' = [nif EXCEPT !["agnss"] = "pending"] /\ conn' = conn
            \/ nif["agnss"] = "pending" /\ nif' = nif /\ conn' = conn
            \/ nif["agnss"] = "acquired" /\ nif' = nif /\ conn' = Told({id}, "open")
<1>1. CASE AgpsReleasedState("agnss", "SUBSCRIBE", id)
  BY Zenon, <1>1 DEF AgpsReleasedState, request, AgpsRequest, notifyNobody, Keep, Become
<1>2. CASE AgpsPendingState("agnss", "SUBSCRIBE", id)
  BY Zenon, <1>2 DEF AgpsPendingState, notifyNobody, NoRequest, Keep
<1>3. CASE AgpsAcquiredState("agnss", "SUBSCRIBE", id)
  BY Zenon, <1>3, OneId DEF AgpsAcquiredState, notifySubscribers, AtlStatus, NoRequest, Keep
<1>4. CASE AgpsReleasingState("agnss", "SUBSCRIBE", id)
  BY Zenon, <1>4 DEF AgpsReleasingState, AgpsTypes, AgnssOK
<1> QED BY Zenon, <1>1, <1>2, <1>3, <1>4 DEF onRsrcEvent

LEMMA AgnssUnsubscribe ==
  ASSUME AgpsTypes, NEW id \in Ids, id \in IdsOf(subs["agnss"]), onRsrcEvent("agnss", "UNSUBSCRIBE", id)
  PROVE  /\ inbox' = Tail(inbox) /\ dsCall' = dsCall /\ mRetries' = mRetries
         /\ subs' = [subs EXCEPT !["agnss"] = delete(subs["agnss"], id)]
         /\ conn' = Told({id}, "closed")
         /\ \/ delete(subs["agnss"], id) = << >> /\ nif' = [nif EXCEPT !["agnss"] = "released"]
            \/ delete(subs["agnss"], id) # << >> /\ nif' = nif
<1> DEFINE list == delete(subs["agnss"], id)
<1>1. list \in Seq(AtlSubscribers) /\ AllActive(list) /\ DistinctIds(list)
  BY Zenon, Deleted DEF AgpsTypes, AgnssOK
<1>2. (Active(list) = << >>) <=> (\A i \in DOMAIN list : ~list[i].active)
  BY Zenon, <1>1, ActiveOnes
<1> HIDE DEF list
<1>3. (DOMAIN list = {}) <=> (list = << >>)
  BY <1>1
<1>4. (Active(list) = << >>) <=> (list = << >>)
  BY Zenon, <1>1, <1>2, <1>3 DEF AllActive
<1>5. "agnss" \in Machines
  BY Zenon DEF Machines
<1>6. ASSUME Unsubscribed("agnss", id), LastLeaves("agnss")
      PROVE  /\ inbox' = Tail(inbox) /\ dsCall' = dsCall /\ mRetries' = mRetries
             /\ subs' = [subs EXCEPT !["agnss"] = list] /\ conn' = Told({id}, "closed")
             /\ \/ list = << >> /\ nif' = [nif EXCEPT !["agnss"] = "released"]
                \/ list # << >> /\ nif' = nif
  <2>1. subs' = [subs EXCEPT !["agnss"] = list]
    BY Zenon, <1>6 DEF Unsubscribed, Keep, waitForCloseComplete, list
  <2>2. subs'["agnss"] = list
    BY Zenon, <2>1, <1>5 DEF AgpsTypes
  <2>3. inbox' = Tail(inbox) /\ mRetries' = mRetries /\ conn' = Told({id}, "closed")
    BY Zenon, <1>6, OneId DEF Unsubscribed, notifySubscribers, AtlStatus
  <2>4. dsCall' = dsCall
    BY Zenon, <1>6 DEF LastLeaves, release, AgpsRequest, NoRequest
  <2>5. \/ list = << >> /\ nif' = [nif EXCEPT !["agnss"] = "released"]
        \/ list # << >> /\ nif' = nif
    BY Zenon, <1>4, <1>6, <2>2 DEF LastLeaves, Become
  <2> QED BY Zenon, <2>1, <2>3, <2>4, <2>5
<1>7. CASE AgpsReleasedState("agnss", "UNSUBSCRIBE", id)
  <2>1. subs["agnss"] = << >>
    BY Zenon, <1>7 DEF AgpsReleasedState, AgpsTypes, AgnssOK
  <2>2. IdsOf(<< >>) = {}
    BY DEF IdsOf
  <2> QED BY Zenon, <2>1, <2>2
<1>8. CASE AgpsPendingState("agnss", "UNSUBSCRIBE", id)
  BY Zenon, <1>6, <1>8 DEF AgpsPendingState, list
<1>9. CASE AgpsAcquiredState("agnss", "UNSUBSCRIBE", id)
  BY Zenon, <1>6, <1>9 DEF AgpsAcquiredState, list
<1>10. CASE AgpsReleasingState("agnss", "UNSUBSCRIBE", id)
  BY Zenon, <1>10 DEF AgpsReleasingState, AgpsTypes, AgnssOK
<1> QED BY Zenon, <1>7, <1>8, <1>9, <1>10 DEF onRsrcEvent

LEMMA AgnssAnswer ==
  ASSUME AgpsTypes, NEW event \in {"GRANTED", "RELEASED", "DENIED"}, NEW id,
         onRsrcEvent("agnss", event, id)
  PROVE  /\ inbox' = Tail(inbox) /\ dsCall' = dsCall /\ mRetries' = mRetries
         /\ \/ nif' = nif /\ subs' = subs /\ conn' = conn
            \/ /\ nif["agnss"] = "pending" /\ nif' = [nif EXCEPT !["agnss"] = "acquired"]
               /\ subs' = subs /\ conn' = Told(IdsOf(subs["agnss"]), "open")
            \/ /\ nif["agnss"] = "pending" /\ nif' = [nif EXCEPT !["agnss"] = "released"]
               /\ subs' = [subs EXCEPT !["agnss"] = << >>]
               /\ conn' = Told(IdsOf(subs["agnss"]), "refused")
            \/ /\ nif["agnss"] = "acquired" /\ nif' = [nif EXCEPT !["agnss"] = "released"]
               /\ subs' = [subs EXCEPT !["agnss"] = << >>]
               /\ conn' = Told(IdsOf(subs["agnss"]), "closed")
<1>1. IdsOf(Active(subs["agnss"])) = IdsOf(subs["agnss"])
  BY Zenon, ActiveOnes DEF AgpsTypes, AgnssOK
<1>2. CASE AgpsReleasedState("agnss", event, id)
  BY Zenon, <1>2 DEF AgpsReleasedState, notifyNobody, NoRequest
<1>3. CASE AgpsPendingState("agnss", event, id)
  BY Zenon, <1>1, <1>3 DEF AgpsPendingState, notifyNobody, NoRequest, Become, Keep, notifySubscribers, AtlStatus
<1>4. CASE AgpsAcquiredState("agnss", event, id)
  BY Zenon, <1>4 DEF AgpsAcquiredState, notifyNobody, NoRequest, Become, Keep, notifySubscribers, AtlStatus
<1>5. CASE AgpsReleasingState("agnss", event, id)
  BY Zenon, <1>5 DEF AgpsReleasingState, AgpsTypes, AgnssOK
<1> QED BY Zenon, <1>2, <1>3, <1>4, <1>5 DEF onRsrcEvent

\* The messages posted for emergency handles do not concern an ordinary one.
LEMMA EmergencyNeutral ==
  ASSUME NEW e \in Seq({"requestATL"} \X EsIds)
  PROVE  /\ e \in Seq(AgpsMessages)
         /\ \A id \in Ids \ EsIds : Neutral(id, e)
<1>1. \A i \in DOMAIN e : e[i] \in {"requestATL"} \X EsIds
  OBVIOUS
<1>2. \A x \in {"requestATL"} \X EsIds : x \in AgpsMessages
  BY EmergencyHandles DEF AgpsMessages
<1>3. e \in Seq(AgpsMessages)
  <2>1. Len(e) \in Nat /\ DOMAIN e = 1..Len(e) /\ e = [i \in 1..Len(e) |-> e[i]]
    OBVIOUS
  <2>2. \A i \in DOMAIN e : e[i] \in AgpsMessages
    BY Zenon, <1>1, <1>2
  <2> QED BY <2>1, <2>2
<1>4. \A id \in Ids \ EsIds, x \in {"requestATL"} \X EsIds :
        x \notin {AtlRequest(id), AtlRelease(id), EngineUp}
  BY DEF AtlRequest, AtlRelease, EngineUp
<1> QED BY Zenon, <1>1, <1>3, <1>4 DEF Neutral

\* What a handler of ds leaves of the engine's messages and of ordinary handles.
DsTells ==
  /\ \E e \in Seq({"requestATL"} \X EsIds) : inbox' = Tail(inbox) \o e
  /\ conn' \in [Ids -> ConnStates] /\ \A id \in Ids \ EsIds : conn'[id] = conn[id]
  /\ mRetries' \in 0..MAX_START_DATA_CALL_RETRIES

LEMMA NothingAdded ==
  ASSUME NEW q \in Seq(AgpsMessages), q # << >>
  PROVE  << >> \in Seq({"requestATL"} \X EsIds) /\ Tail(q) = Tail(q) \o << >>
<1>1. << >> \in Seq({"requestATL"} \X EsIds)
  OBVIOUS
<1>2. Tail(q) \in Seq(AgpsMessages)
  OBVIOUS
<1>3. \A r \in Seq(AgpsMessages) : r = r \o << >>
  OBVIOUS
<1> QED BY Zenon, <1>1, <1>2, <1>3

LEMMA NobodyToldByDs ==
  ASSUME AgpsTypes, inbox # << >>, notifyNobody
  PROVE  DsTells
BY Zenon, NothingAdded DEF notifyNobody, DsTells, AgpsTypes

LEMMA ToldByDs ==
  ASSUME AgpsTypes, inbox # << >>, NEW list, NEW event, IdsOf(list) \subseteq EsIds,
         event = "DENIED" => list \in Seq(AtlSubscribers), notifySubscribers("ds", list, event)
  PROVE  DsTells
<1>1. informStatus(list, event)
  BY Zenon DEF notifySubscribers
<1>2. conn' \in [Ids -> ConnStates] /\ \A id \in Ids \ EsIds : conn'[id] = conn[id]
  <2>1. \/ conn' = Told(IdsOf(list), "open") \/ conn' = Told(IdsOf(list), "closed") \/ conn' = conn
    BY Zenon, <1>1 DEF informStatus
  <2>2. CASE conn' = conn
    BY Zenon, <2>2 DEF AgpsTypes
  <2>3. ASSUME NEW status \in {"open", "closed"}, conn' = Told(IdsOf(list), status)
        PROVE  conn' \in [Ids -> ConnStates] /\ \A id \in Ids \ EsIds : conn'[id] = conn[id]
    <3>1. status \in {"open", "refused", "overlooked", "closed"}
      BY Zenon
    <3>2. Told(IdsOf(list), status) \in [Ids -> ConnStates]
      BY Zenon, <3>1, ToldEach
    <3>3. ASSUME NEW id \in Ids \ EsIds PROVE Told(IdsOf(list), status)[id] = conn[id]
      BY Zenon, ToldOthers
    <3> QED BY Zenon, <2>3, <3>2, <3>3
  <2> QED BY Zenon, <2>1, <2>2, <2>3
<1>3. CASE event = "DENIED" /\ list # << >>
  <2> DEFINE e == [i \in DOMAIN list |-> <<"requestATL", list[i].id>>]
  <2>1. inbox' = Tail(inbox) \o e /\ mRetries' = 0
    BY Zenon, <1>1, <1>3 DEF informStatus
  <2>2. \A i \in DOMAIN list : <<"requestATL", list[i].id>> \in {"requestATL"} \X EsIds
    BY DEF IdsOf
  <2>3. list \in Seq(AtlSubscribers)
    BY Zenon, <1>3
  <2>4. Len(list) \in Nat /\ DOMAIN list = 1..Len(list)
    BY <2>3
  <2>5. e \in Seq({"requestATL"} \X EsIds)
    BY <2>2, <2>4
  <2>6. 0 \in 0..MAX_START_DATA_CALL_RETRIES
    BY RetryLimit
  <2> HIDE DEF e
  <2> QED BY Zenon, <1>2, <2>1, <2>5, <2>6 DEF DsTells
<1>4. CASE ~(event = "DENIED" /\ list # << >>)
  <2>1. inbox' = Tail(inbox) /\ mRetries' = mRetries
    BY Zenon, <1>1, <1>4 DEF informStatus
  <2> QED BY Zenon, <1>2, <2>1, NothingAdded DEF DsTells, AgpsTypes
<1> QED BY Zenon, <1>3, <1>4

\* Asking for the emergency call, for a list that has an active subscriber.
LEMMA DsRequested ==
  ASSUME AgpsTypes, inbox # << >>, NEW list \in Seq(AtlSubscribers), DistinctIds(list),
         IdsOf(list) \subseteq EsIds, AllActive(list), list # << >>,
         NEW ret \in {"ok", "busy", "failed"}, DsRequest(list, ret)
  PROVE  DsTells /\ dsCall' \in DsCallStates
<1>1. dsCall' \in DsCallStates
  BY Zenon DEF DsRequest, DsCallStates, AgpsTypes
<1>2. conn' \in [Ids -> ConnStates] /\ \A id \in Ids \ EsIds : conn'[id] = conn[id]
  BY Zenon DEF DsRequest, AgpsTypes
<1>3. mRetries \in 0..MAX_START_DATA_CALL_RETRIES /\ mRetries \in Nat
  BY RetryLimit DEF AgpsTypes
<1>4. mRetries' \in 0..MAX_START_DATA_CALL_RETRIES
  <2>1. 0 \in 0..MAX_START_DATA_CALL_RETRIES
    BY RetryLimit
  <2>2. mRetries < MAX_START_DATA_CALL_RETRIES => mRetries + 1 \in 0..MAX_START_DATA_CALL_RETRIES
    BY <1>3, RetryLimit
  <2>3. \/ mRetries' = mRetries \/ mRetries' = 0
        \/ mRetries < MAX_START_DATA_CALL_RETRIES /\ mRetries' = mRetries + 1
    BY Zenon DEF DsRequest
  <2> QED BY Zenon, <1>3, <2>1, <2>2, <2>3
<1>5. CASE inbox' = Tail(inbox)
  BY Zenon, <1>1, <1>2, <1>4, <1>5, NothingAdded DEF DsTells, AgpsTypes
<1>6. CASE inbox' = Append(Tail(inbox), <<"requestATL", Active(list)[1].id>>)
  <2>1. (Active(list) = << >>) <=> (\A i \in DOMAIN list : ~list[i].active)
    BY Zenon, ActiveOnes
  <2>2. 1 \in DOMAIN list
    OBVIOUS
  <2>3. Active(list)[1].id \in EsIds
    BY Zenon, <2>1, <2>2, ActiveOnes DEF AllActive
  <2> DEFINE m == <<"requestATL", Active(list)[1].id>>
  <2>4. m \in {"requestATL"} \X EsIds
    BY Zenon, <2>3
  <2>5. inbox \in Seq(AgpsMessages)
    BY Zenon DEF AgpsTypes
  <2>6. Tail(inbox) \in Seq(AgpsMessages)
    BY <2>5
  <2> HIDE DEF m
  <2>7. Append(Tail(inbox), m) = Tail(inbox) \o <<m>> /\ <<m>> \in Seq({"requestATL"} \X EsIds)
    BY <2>4, <2>6
  <2> QED BY Zenon, <1>1, <1>2, <1>4, <1>6, <2>7 DEF DsTells, m
<1> QED BY Zenon, <1>5, <1>6 DEF DsRequest

\* What a handler of ds leaves of its own state.
DsKeeps(n, list) ==
  /\ nif' = [nif EXCEPT !["ds"] = n] /\ subs' = [subs EXCEPT !["ds"] = list]
  /\ DsOK(n, list) /\ dsCall' \in DsCallStates

LEMMA DsFacts ==
  ASSUME AgpsTypes
  PROVE  /\ DsOK(nif["ds"], subs["ds"]) /\ dsCall \in DsCallStates
         /\ subs["ds"] \in Seq(AtlSubscribers) /\ DistinctIds(subs["ds"]) /\ IdsOf(subs["ds"]) \subseteq EsIds
         /\ nif = [nif EXCEPT !["ds"] = nif["ds"]] /\ subs = [subs EXCEPT !["ds"] = subs["ds"]]
         /\ "ds" \in Machines /\ "agnss" \in Machines
<1>1. "ds" \in Machines /\ "agnss" \in Machines
  BY Zenon DEF Machines
<1>2. nif = [nif EXCEPT !["ds"] = nif["ds"]]
  BY Zenon, <1>1, SameFor DEF AgpsTypes
<1>3. subs = [subs EXCEPT !["ds"] = subs["ds"]]
  BY Zenon, <1>1, SameFor DEF AgpsTypes
<1> QED BY Zenon, <1>1, <1>2, <1>3 DEF AgpsTypes, DsOK

\* No subscribers left.
LEMMA DsNobody ==
  ASSUME NEW n \in NifStates
  PROVE  DsOK(n, << >>)
<1>1. << >> \in Seq(AtlSubscribers) /\ DOMAIN << >> = {}
  OBVIOUS
<1> QED BY Zenon, <1>1 DEF DsOK, DistinctIds, IdsOf, AllActive

LEMMA DsAdded ==
  ASSUME AgpsTypes, NEW id \in EsIds
  PROVE  /\ addSubscriber(subs["ds"], id) \in Seq(AtlSubscribers)
         /\ DistinctIds(addSubscriber(subs["ds"], id))
         /\ IdsOf(addSubscriber(subs["ds"], id)) \subseteq EsIds
         /\ nif["ds"] = "released" =>
              AllActive(addSubscriber(subs["ds"], id)) /\ addSubscriber(subs["ds"], id) # << >>
<1>1. id \in Ids
  BY Zenon, EmergencyHandles
<1>2. nif["ds"] = "released" => AllActive(subs["ds"])
  BY Zenon, DsFacts DEF DsOK
<1>3. IdsOf(addSubscriber(subs["ds"], id)) = IdsOf(subs["ds"]) \cup {id}
  BY Zenon, <1>1, DsFacts, Added
<1> QED BY Zenon, <1>1, <1>2, <1>3, DsFacts, Added

LEMMA DsUnsubscribed ==
  ASSUME AgpsTypes, inbox # << >>, NEW id \in EsIds, Unsubscribed("ds", id)
  PROVE  /\ DsTells
         /\ \E list \in Seq(AtlSubscribers) :
              /\ subs' = [subs EXCEPT !["ds"] = list] /\ subs'["ds"] = list
              /\ DistinctIds(list) /\ IdsOf(list) \subseteq EsIds
<1> DEFINE list == setInactive(subs["ds"], id)
<1>1. subs' = [subs EXCEPT !["ds"] = list]
  BY Zenon DEF Unsubscribed, Keep, waitForCloseComplete
<1>2. list \in Seq(AtlSubscribers) /\ DistinctIds(list) /\ IdsOf(list) \subseteq EsIds
  BY Zenon, DsFacts, MadeInactive
<1> HIDE DEF list
<1>3. subs'["ds"] = list
  BY Zenon, <1>1, DsFacts DEF AgpsTypes
<1>4. IdsOf(<<[id |-> id]>>) \subseteq EsIds
  BY Zenon, OneEmergency
<1>5. "UNSUBSCRIBE" # "DENIED"
  OBVIOUS
<1>6. DsTells
  BY Zenon, <1>4, <1>5, ToldByDs DEF Unsubscribed
<1> QED BY Zenon, <1>1, <1>2, <1>3, <1>6

\* The last active subscriber of ds leaves, or another does.
LEMMA DsLeft ==
  ASSUME AgpsTypes, inbox # << >>, NEW id \in EsIds, Unsubscribed("ds", id), LastLeaves("ds"),
         nif["ds"] # "released"
  PROVE  DsTells /\ \E n \in NifStates, list \in Seq(AtlSubscribers) : DsKeeps(n, list)
<1>1. PICK list \in Seq(AtlSubscribers) :
        /\ subs' = [subs EXCEPT !["ds"] = list] /\ subs'["ds"] = list
        /\ DistinctIds(list) /\ IdsOf(list) \subseteq EsIds
  BY Zenon, DsUnsubscribed
<1>2. DsTells
  BY Zenon, DsUnsubscribed
<1>3. dsCall' \in DsCallStates
  BY Zenon, DsFacts DEF LastLeaves, release, DsRelease, NoRequest, DsCallStates
<1>4. \/ nif' = [nif EXCEPT !["ds"] = nif["ds"]]
      \/ list = << >> /\ nif' = [nif EXCEPT !["ds"] = "released"]
      \/ nif' = [nif EXCEPT !["ds"] = "releasing"]
  BY Zenon, <1>1, DsFacts DEF LastLeaves, Become
<1>5. CASE nif' = [nif EXCEPT !["ds"] = nif["ds"]]
  <2>1. DsOK(nif["ds"], list) /\ nif["ds"] \in NifStates
    BY Zenon, <1>1, DsFacts DEF DsOK
  <2> QED BY Zenon, <1>1, <1>2, <1>3, <1>5, <2>1 DEF DsKeeps
<1>6. CASE list = << >> /\ nif' = [nif EXCEPT !["ds"] = "released"]
  <2>1. "released" \in NifStates
    BY Zenon DEF NifStates
  <2> QED BY Zenon, <1>1, <1>2, <1>3, <1>6, <2>1, DsNobody DEF DsKeeps
<1>7. CASE nif' = [nif EXCEPT !["ds"] = "releasing"]
  <2>1. "releasing" \in NifStates /\ DsOK("releasing", list)
    BY Zenon, <1>1 DEF DsOK, NifStates
  <2> QED BY Zenon, <1>1, <1>2, <1>3, <1>7, <2>1 DEF DsKeeps
<1> QED BY Zenon, <1>4, <1>5, <1>6, <1>7

\* Nothing of ds changes but what it tells.
LEMMA DsUnchanged ==
  ASSUME AgpsTypes, UNCHANGED <<nif, subs>>, NoRequest
  PROVE  \E n \in NifStates, list \in Seq(AtlSubscribers) : DsKeeps(n, list)
<1>1. DsKeeps(nif["ds"], subs["ds"]) /\ nif["ds"] \in NifStates
  BY Zenon, DsFacts DEF DsKeeps, NoRequest, DsOK
<1> QED BY Zenon, <1>1, DsFacts

LEMMA DsSubscribed ==
  ASSUME AgpsTypes, inbox # << >>, NEW id \in EsIds, onRsrcEvent("ds", "SUBSCRIBE", id)
  PROVE  DsTells /\ \E n \in NifStates, list \in Seq(AtlSubscribers) : DsKeeps(n, list)
<1> DEFINE list == addSubscriber(subs["ds"], id)
<1>1. /\ list \in Seq(AtlSubscribers) /\ DistinctIds(list) /\ IdsOf(list) \subseteq EsIds
      /\ nif["ds"] = "released" => AllActive(list) /\ list # << >>
  BY Zenon, DsAdded
<1>2. DsOK(nif["ds"], list) /\ nif["ds"] \in NifStates
  BY Zenon, <1>1, DsFacts DEF DsOK
<1>3. ASSUME subs' = [subs EXCEPT !["ds"] = list], nif' = nif, dsCall' = dsCall
      PROVE  DsKeeps(nif["ds"], list)
  BY Zenon, <1>2, <1>3, DsFacts DEF DsKeeps
<1>4. CASE AgpsReleasedState("ds", "SUBSCRIBE", id)
  <2>1. nif["ds"] = "released" /\ subs' = [subs EXCEPT !["ds"] = list]
    BY Zenon, <1>4 DEF AgpsReleasedState, Keep
  <2>2. PICK ret \in {"ok", "busy", "failed"} :
          /\ DsRequest(list, ret)
          /\ IF ret = "ok" THEN nif' = [nif EXCEPT !["ds"] = "pending"] ELSE nif' = nif
    BY Zenon, <1>4 DEF AgpsReleasedState, request, Become
  <2> HIDE DEF list
  <2>3. DsTells /\ dsCall' \in DsCallStates
    BY Zenon, <1>1, <2>1, <2>2, DsRequested
  <2>4. "pending" \in NifStates /\ DsOK("pending", list)
    BY Zenon, <1>1 DEF DsOK, NifStates
  <2>5. CASE nif' = [nif EXCEPT !["ds"] = "pending"]
    BY Zenon, <1>1, <2>1, <2>3, <2>4, <2>5 DEF DsKeeps
  <2>6. CASE nif' = nif
    BY Zenon, <1>1, <1>2, <2>1, <2>3, <2>6, DsFacts DEF DsKeeps
  <2> QED BY Zenon, <2>2, <2>5, <2>6
<1>5. CASE AgpsPendingState("ds", "SUBSCRIBE", id)
  <2>1. subs' = [subs EXCEPT !["ds"] = list] /\ notifyNobody /\ nif' = nif /\ dsCall' = dsCall
    BY Zenon, <1>5 DEF AgpsPendingState, Keep, NoRequest
  <2>2. DsTells
    BY Zenon, <2>1, NobodyToldByDs
  <2> QED BY Zenon, <1>1, <1>2, <1>3, <2>1, <2>2
<1>6. CASE AgpsAcquiredState("ds", "SUBSCRIBE", id)
  <2>1. /\ subs' = [subs EXCEPT !["ds"] = list] /\ nif' = nif /\ dsCall' = dsCall
        /\ notifySubscribers("ds", <<[id |-> id]>>, "GRANTED")
    BY Zenon, <1>6 DEF AgpsAcquiredState, Keep, NoRequest
  <2>2. IdsOf(<<[id |-> id]>>) \subseteq EsIds
    BY Zenon, OneEmergency
  <2>3. "GRANTED" # "DENIED"
    OBVIOUS
  <2>4. DsTells
    BY Zenon, <2>1, <2>2, <2>3, ToldByDs
  <2> QED BY Zenon, <1>1, <1>2, <1>3, <2>1, <2>4
<1>7. CASE AgpsReleasingState("ds", "SUBSCRIBE", id)
  <2>1. /\ subs' = [subs EXCEPT !["ds"] = list] /\ nif' = nif /\ dsCall' = dsCall
        /\ conn' = conn \/ conn' = Told({id}, "overlooked")
        /\ inbox' = Tail(inbox) /\ mRetries' = mRetries
    BY Zenon, <1>7 DEF AgpsReleasingState, Keep, NoRequest
  <2>2. conn' \in [Ids -> ConnStates]
    <3>1. Told({id}, "overlooked") \in [Ids -> ConnStates]
      BY Zenon, ToldEach
    <3> QED BY Zenon, <2>1, <3>1 DEF AgpsTypes
  <2>3. ASSUME NEW j \in Ids \ EsIds PROVE conn'[j] = conn[j]
    <3>1. j \notin {id}
      OBVIOUS
    <3>2. Told({id}, "overlooked")[j] = conn[j]
      BY Zenon, <3>1, ToldOthers
    <3> QED BY Zenon, <2>1, <3>2
  <2>4. inbox \in Seq(AgpsMessages) /\ mRetries \in 0..MAX_START_DATA_CALL_RETRIES
    BY Zenon DEF AgpsTypes
  <2>5. DsTells
    BY Zenon, <2>1, <2>2, <2>3, <2>4, NothingAdded DEF DsTells
  <2> QED BY Zenon, <1>1, <1>2, <1>3, <2>1, <2>5
<1> QED BY Zenon, <1>4, <1>5, <1>6, <1>7 DEF onRsrcEvent

LEMMA DsUnsubscribe ==
  ASSUME AgpsTypes, inbox # << >>, NEW id \in EsIds, onRsrcEvent("ds", "UNSUBSCRIBE", id)
  PROVE  DsTells /\ \E n \in NifStates, list \in Seq(AtlSubscribers) : DsKeeps(n, list)
<1>1. CASE AgpsReleasedState("ds", "UNSUBSCRIBE", id)
  <2>1. notifySubscribers("ds", <<[id |-> id]>>, "UNSUBSCRIBE") /\ NoRequest /\ UNCHANGED <<nif, subs>>
    BY Zenon, <1>1 DEF AgpsReleasedState
  <2>2. IdsOf(<<[id |-> id]>>) \subseteq EsIds
    BY Zenon, OneEmergency
  <2>3. "UNSUBSCRIBE" # "DENIED"
    OBVIOUS
  <2>4. DsTells
    BY Zenon, <2>1, <2>2, <2>3, ToldByDs
  <2> QED BY Zenon, <2>1, <2>4, DsUnchanged
<1>2. CASE AgpsPendingState("ds", "UNSUBSCRIBE", id)
  <2>1. Unsubscribed("ds", id) /\ LastLeaves("ds") /\ nif["ds"] # "released"
    BY Zenon, <1>2 DEF AgpsPendingState
  <2> QED BY Zenon, <2>1, DsLeft
<1>3. CASE AgpsAcquiredState("ds", "UNSUBSCRIBE", id)
  <2>1. Unsubscribed("ds", id) /\ LastLeaves("ds") /\ nif["ds"] # "released"
    BY Zenon, <1>3 DEF AgpsAcquiredState
  <2> QED BY Zenon, <2>1, DsLeft
<1>4. CASE AgpsReleasingState("ds", "UNSUBSCRIBE", id)
  <2>1. /\ nif["ds"] = "releasing" /\ Unsubscribed("ds", id) /\ dsCall' = dsCall
        /\ IF subs'["ds"] = << >> THEN nif' = [nif EXCEPT !["ds"] = "released"] ELSE nif' = nif
    BY Zenon, <1>4 DEF AgpsReleasingState, NoRequest, Become
  <2>2. PICK list \in Seq(AtlSubscribers) :
          /\ subs' = [subs EXCEPT !["ds"] = list] /\ subs'["ds"] = list
          /\ DistinctIds(list) /\ IdsOf(list) \subseteq EsIds
    BY Zenon, <2>1, DsUnsubscribed
  <2>3. DsTells
    BY Zenon, <2>1, DsUnsubscribed
  <2>4. "released" \in NifStates /\ "releasing" \in NifStates
    BY Zenon DEF NifStates
  <2>5. CASE list = << >>
    BY Zenon, <2>1, <2>2, <2>3, <2>4, <2>5, DsFacts, DsNobody DEF DsKeeps
  <2>6. CASE list # << >>
    <3>1. DsOK("releasing", list)
      BY Zenon, <2>2, <2>4 DEF DsOK
    <3>2. DsKeeps("releasing", list)
      BY Zenon, <2>1, <2>2, <2>6, <3>1, DsFacts DEF DsKeeps
    <3> QED BY Zenon, <2>3, <2>4, <3>2
  <2> QED BY Zenon, <2>5, <2>6
<1> QED BY Zenon, <1>1, <1>2, <1>3, <1>4 DEF onRsrcEvent

LEMMA DsAnswer ==
  ASSUME AgpsTypes, inbox # << >>, NEW event \in {"GRANTED", "RELEASED", "DENIED"}, NEW id,
         onRsrcEvent("ds", event, id)
  PROVE  DsTells /\ \E n \in NifStates, list \in Seq(AtlSubscribers) : DsKeeps(n, list)
<1> DEFINE left == Active(subs["ds"])
<1>1. /\ left \in Seq(AtlSubscribers) /\ DistinctIds(left) /\ AllActive(left)
      /\ IdsOf(left) \subseteq EsIds
  BY Zenon, DsFacts, ActiveOnes
<1>2. /\ << >> \in Seq(AtlSubscribers)
      /\ "GRANTED" # "DENIED" /\ "RELEASED" # "DENIED"
  OBVIOUS
<1>3. \A n \in {"released", "pending", "acquired"} : n \in NifStates
  BY Zenon DEF NifStates
<1>4. ASSUME notifyNobody, NoRequest, UNCHANGED <<nif, subs>>
      PROVE  DsTells /\ \E n \in NifStates, list \in Seq(AtlSubscribers) : DsKeeps(n, list)
  BY Zenon, <1>4, DsUnchanged, NobodyToldByDs
<1>5. ASSUME nif' = [nif EXCEPT !["ds"] = "released"], subs' = [subs EXCEPT !["ds"] = << >>], NoRequest
      PROVE  \E n \in NifStates, list \in Seq(AtlSubscribers) : DsKeeps(n, list)
  <2>1. DsKeeps("released", << >>)
    BY Zenon, <1>3, <1>5, DsFacts, DsNobody DEF DsKeeps, NoRequest
  <2> QED BY Zenon, <1>2, <1>3, <2>1
<1> HIDE DEF left
<1>6. CASE AgpsReleasedState("ds", event, id)
  BY Zenon, <1>4, <1>6 DEF AgpsReleasedState
<1>7. CASE AgpsPendingState("ds", event, id)
  <2>1. CASE notifyNobody /\ NoRequest /\ UNCHANGED <<nif, subs>>
    BY Zenon, <1>4, <2>1
  <2>2. CASE /\ notifySubscribers("ds", left, "GRANTED") /\ NoRequest /\ UNCHANGED subs
             /\ nif' = [nif EXCEPT !["ds"] = "acquired"]
    <3>1. DsTells
      BY Zenon, <1>1, <1>2, <2>2, ToldByDs
    <3>2. DsOK("acquired", subs["ds"])
      BY Zenon, <1>3, DsFacts DEF DsOK
    <3>3. DsKeeps("acquired", subs["ds"])
      BY Zenon, <2>2, <3>2, DsFacts DEF DsKeeps, NoRequest
    <3> QED BY Zenon, <1>3, <3>1, <3>3, DsFacts
  <2>3. CASE /\ notifySubscribers("ds", subs["ds"], "DENIED") /\ NoRequest
             /\ nif' = [nif EXCEPT !["ds"] = "released"] /\ subs' = [subs EXCEPT !["ds"] = << >>]
    <3>1. DsTells
      BY Zenon, <2>3, DsFacts, ToldByDs
    <3> QED BY Zenon, <1>5, <2>3, <3>1
  <2> QED BY Zenon, <1>7, <2>1, <2>2, <2>3 DEF AgpsPendingState, Become, Keep, left
<1>8. CASE AgpsAcquiredState("ds", event, id)
  <2>1. CASE notifyNobody /\ NoRequest /\ UNCHANGED <<nif, subs>>
    BY Zenon, <1>4, <2>1
  <2>2. CASE /\ notifySubscribers("ds", subs["ds"], "RELEASED") /\ NoRequest
             /\ nif' = [nif EXCEPT !["ds"] = "released"] /\ subs' = [subs EXCEPT !["ds"] = << >>]
    <3>1. DsTells
      BY Zenon, <1>2, <2>2, DsFacts, ToldByDs
    <3> QED BY Zenon, <1>5, <2>2, <3>1
  <2> QED BY Zenon, <1>8, <2>1, <2>2 DEF AgpsAcquiredState, Become, Keep
<1>9. CASE AgpsReleasingState("ds", event, id)
  <2>1. CASE notifyNobody /\ NoRequest /\ UNCHANGED <<nif, subs>>
    BY Zenon, <1>4, <2>1
  <2>2. CASE /\ left = << >> /\ subs' = [subs EXCEPT !["ds"] = left]
             /\ nif' = [nif EXCEPT !["ds"] = "released"] /\ notifyNobody /\ NoRequest
    BY Zenon, <1>5, <2>2, NobodyToldByDs
  <2>3. CASE /\ left # << >> /\ subs' = [subs EXCEPT !["ds"] = left]
             /\ nif' = [nif EXCEPT !["ds"] = "pending"]
             /\ \E ret \in {"ok", "busy", "failed"} : DsRequest(left, ret)
    <3>1. PICK ret \in {"ok", "busy", "failed"} : DsRequest(left, ret)
      BY Zenon, <2>3
    <3>2. DsTells /\ dsCall' \in DsCallStates
      BY Zenon, <1>1, <2>3, <3>1, DsRequested
    <3>3. DsOK("pending", left)
      BY Zenon, <1>1, <1>3 DEF DsOK
    <3>4. DsKeeps("pending", left)
      BY Zenon, <2>3, <3>2, <3>3 DEF DsKeeps
    <3> QED BY Zenon, <1>1, <1>3, <3>2, <3>4
  <2> QED BY Zenon, <1>9, <2>1, <2>2, <2>3 DEF AgpsReleasingState, Become, Keep, request, left
<1> QED BY Zenon, <1>6, <1>7, <1>8, <1>9 DEF onRsrcEvent

\* The engine's first message, and the handle it names.
LEMMA FirstMessage ==
  ASSUME AgpsTypes, NEW kind, Next1(kind)
  PROVE  /\ inbox # << >> /\ inbox \in Seq(AgpsMessages) /\ inbox[1] = <<kind, Arg>>
         /\ kind \in {"requestATL", "releaseATL"} => Arg \in Ids
         /\ kind = "requestSuplES" => Arg \in EsIds
         /\ kind = "engineUp" => inbox[1] = EngineUp
         /\ kind # "engineUp" => inbox[1] # EngineUp
<1>1. inbox # << >> /\ inbox[1][1] = kind /\ inbox \in Seq(AgpsMessages)
  BY Zenon DEF Next1, AgpsTypes
<1>2. inbox[1] \in AgpsMessages
  BY <1>1
<1>3. \A x \in AgpsMessages :
        /\ x = <<x[1], x[2]>>
        /\ x[1] \in {"requestATL", "releaseATL"} => x[2] \in Ids
        /\ x[1] = "requestSuplES" => x[2] \in EsIds
        /\ x[1] = "engineUp" => x = EngineUp
        /\ x[1] # "engineUp" => x # EngineUp
  BY DEF AgpsMessages, EngineUp
<1> QED BY Zenon, <1>1, <1>2, <1>3 DEF Arg

\* A message that does not concern the handle is taken.
LEMMA TakeNeutral ==
  ASSUME NEW S, NEW q \in Seq(S), q # << >>, NEW id, NEW held, NEW n, NEW ci,
         Agree(id, q, held, n, ci), q[1] \notin {AtlRequest(id), AtlRelease(id), EngineUp}
  PROVE  Agree(id, Tail(q), held, n, ci)
<1>1. /\ Waits(q, AtlRequest(id)) <=> Waits(Tail(q), AtlRequest(id))
      /\ Waits(q, AtlRelease(id)) <=> Waits(Tail(q), AtlRelease(id))
  BY Zenon, TailWaits
<1>2. ~Waits(q, EngineUp) =>
        Settled(Waits(Tail(q), AtlRequest(id)), Waits(Tail(q), AtlRelease(id)), held, n, ci)
  BY Zenon, <1>1 DEF Agree, Settled
<1>3. Blocked(q) => ci = "idle"
  BY Zenon DEF Agree
<1> QED BY Zenon, <1>2, <1>3, TakeMessage

\* The handlers of ds keep the invariant.
LEMMA DsKeepsAgreement ==
  ASSUME AgpsInv, inbox # << >>, NEW n, NEW list, DsKeeps(n, list), DsTells,
         \A id \in Ids \ EsIds : inbox[1] \notin {AtlRequest(id), AtlRelease(id), EngineUp}
  PROVE  AgpsInv'
<1>1. AgpsTypes /\ inbox \in Seq(AgpsMessages)
  BY Zenon DEF AgpsInv, AgpsTypes
<1>2. "agnss" \in Machines /\ "ds" \in Machines /\ "agnss" # "ds"
  BY Zenon DEF Machines
<1>3. n \in NifStates /\ list \in Seq(AtlSubscribers)
  BY Zenon DEF DsKeeps, DsOK
<1>4. nif' \in [Machines -> NifStates] /\ subs' \in [Machines -> Seq(AtlSubscribers)]
  BY Zenon, <1>1, <1>2, <1>3 DEF AgpsTypes, DsKeeps
<1>5. /\ nif'["ds"] = n /\ nif'["agnss"] = nif["agnss"]
      /\ subs'["ds"] = list /\ subs'["agnss"] = subs["agnss"]
  BY Zenon, <1>1, <1>2 DEF AgpsTypes, DsKeeps
<1>6. PICK e \in Seq({"requestATL"} \X EsIds) : inbox' = Tail(inbox) \o e
  BY Zenon DEF DsTells
<1>7. e \in Seq(AgpsMessages) /\ \A id \in Ids \ EsIds : Neutral(id, e)
  BY Zenon, EmergencyNeutral
<1>8. Tail(inbox) \in Seq(AgpsMessages)
  BY <1>1
<1>9. inbox' \in Seq(AgpsMessages)
  BY Zenon, <1>6, <1>7, <1>8, JoinIndices
<1>10. AgnssOK(nif'["agnss"], subs'["agnss"])
  BY Zenon, <1>1, <1>5 DEF AgpsTypes
<1>11. DsOK(nif'["ds"], subs'["ds"]) /\ dsCall' \in DsCallStates
  BY Zenon, <1>5 DEF DsKeeps
<1>12. /\ conn' \in [Ids -> ConnStates] /\ \A id \in Ids \ EsIds : conn'[id] = conn[id]
       /\ mRetries' \in 0..MAX_START_DATA_CALL_RETRIES
  BY Zenon DEF DsTells
<1>13. AgpsTypes'
  BY Zenon, <1>4, <1>9, <1>10, <1>11, <1>12 DEF AgpsTypes, AgnssOK, DsOK
<1>14. ASSUME NEW id \in Ids \ EsIds
       PROVE  Agree(id, inbox', id \in IdsOf(subs'["agnss"]), nif'["agnss"], conn'[id])
  <2> DEFINE held == id \in IdsOf(subs["agnss"])
  <2>1. Agree(id, inbox, held, nif["agnss"], conn[id])
    BY Zenon DEF AgpsInv
  <2> HIDE DEF held
  <2>2. Agree(id, Tail(inbox), held, nif["agnss"], conn[id])
    BY Zenon, <1>1, <2>1, TakeNeutral
  <2>3. Agree(id, Tail(inbox) \o e, held, nif["agnss"], conn[id])
    BY Zenon, <1>7, <1>8, <2>2, AddNeutral
  <2> QED BY Zenon, <1>5, <1>6, <1>12, <2>3 DEF held
<1> QED BY Zenon, <1>13, <1>14 DEF AgpsInv, Agree, WellQueued, Blocked, Waits, Fresh, Settled, IdsOf

\* A handler of agnss keeps the invariant when each ordinary handle settles.
LEMMA AgnssKeepsAgreement ==
  ASSUME AgpsInv, inbox # << >>, inbox[1] # EngineUp, NEW n, NEW list, AgnssOK(n, list),
         nif' = [nif EXCEPT !["agnss"] = n], subs' = [subs EXCEPT !["agnss"] = list],
         conn' \in [Ids -> ConnStates], inbox' = Tail(inbox), dsCall' = dsCall, mRetries' = mRetries,
         \A id \in Ids \ EsIds :
           /\ conn[id] = "idle" => conn'[id] = "idle"
           /\ WellQueued(id, inbox)
              /\ Settled(Waits(inbox, AtlRequest(id)), Waits(inbox, AtlRelease(id)),
                         id \in IdsOf(subs["agnss"]), nif["agnss"], conn[id]) =>
                Settled(Waits(Tail(inbox), AtlRequest(id)), Waits(Tail(inbox), AtlRelease(id)),
                        id \in IdsOf(list), n, conn'[id])
  PROVE  AgpsInv'
<1>1. AgpsTypes /\ inbox \in Seq(AgpsMessages)
  BY Zenon DEF AgpsInv, AgpsTypes
<1>2. AgpsTypes' /\ nif'["agnss"] = n /\ subs'["agnss"] = list
  BY Zenon, <1>1, AgnssFrame
<1>3. ASSUME NEW id \in Ids \ EsIds
      PROVE  Agree(id, inbox', id \in IdsOf(subs'["agnss"]), nif'["agnss"], conn'[id])
  <2> DEFINE held == id \in IdsOf(subs["agnss"])
             h == id \in IdsOf(list)
             req == Waits(Tail(inbox), AtlRequest(id))
             rel == Waits(Tail(inbox), AtlRelease(id))
  <2>1. Agree(id, inbox, held, nif["agnss"], conn[id])
    BY Zenon DEF AgpsInv
  <2>2. Blocked(inbox) => conn'[id] = "idle"
    BY Zenon, <2>1 DEF Agree
  <2>3. ~Waits(inbox, EngineUp) => Settled(req, rel, h, n, conn'[id])
    BY Zenon, <2>1 DEF Agree
  <2> HIDE DEF held, h
  <2>4. Agree(id, Tail(inbox), h, n, conn'[id])
    BY Zenon, <1>1, <2>1, <2>2, <2>3, TakeMessage
  <2> QED BY Zenon, <1>2, <2>4 DEF h
<1> QED BY Zenon, <1>2, <1>3 DEF AgpsInv, Agree, WellQueued, Blocked, Waits, Fresh, Settled, IdsOf

\* Facts of agnss, and of an ordinary handle when the message of another is taken.
LEMMA AgnssFacts ==
  ASSUME AgpsTypes
  PROVE  /\ AgnssOK(nif["agnss"], subs["agnss"])
         /\ subs["agnss"] \in Seq(AtlSubscribers) /\ DistinctIds(subs["agnss"]) /\ AllActive(subs["agnss"])
         /\ nif = [nif EXCEPT !["agnss"] = nif["agnss"]]
         /\ subs = [subs EXCEPT !["agnss"] = subs["agnss"]]
         /\ nif["agnss"] = "released" => IdsOf(subs["agnss"]) = {}
<1>1. "agnss" \in Machines
  BY Zenon DEF Machines
<1>2. nif = [nif EXCEPT !["agnss"] = nif["agnss"]]
  BY Zenon, <1>1, SameFor DEF AgpsTypes
<1>3. subs = [subs EXCEPT !["agnss"] = subs["agnss"]]
  BY Zenon, <1>1, SameFor DEF AgpsTypes
<1>4. IdsOf(<< >>) = {}
  BY DEF IdsOf
<1> QED BY Zenon, <1>2, <1>3, <1>4 DEF AgpsTypes, AgnssOK

LEMMA NoSubscribers ==
  ASSUME NEW n \in NifStates, n # "releasing"
  PROVE  AgnssOK(n, << >>) /\ IdsOf(<< >>) = {}
<1>1. << >> \in Seq(AtlSubscribers) /\ DOMAIN << >> = {}
  OBVIOUS
<1>2. IdsOf(<< >>) = {}
  BY DEF IdsOf
<1> QED BY Zenon, <1>1, <1>2 DEF AgnssOK, DistinctIds, AllActive

LEMMA OthersMessage ==
  ASSUME AgpsTypes, inbox # << >>, NEW id, inbox[1] \notin {AtlRequest(id), AtlRelease(id)}
  PROVE  /\ Waits(inbox, AtlRequest(id)) <=> Waits(Tail(inbox), AtlRequest(id))
         /\ Waits(inbox, AtlRelease(id)) <=> Waits(Tail(inbox), AtlRelease(id))
<1>1. inbox \in Seq(AgpsMessages)
  BY Zenon DEF AgpsTypes
<1> QED BY Zenon, <1>1, TailWaits

LEMMA RequestTaken ==
  ASSUME AgpsInv, LocEngRequestATL
  PROVE  AgpsInv'
<1> DEFINE a == Arg
           list == addSubscriber(subs["agnss"], a)
           n == IF nif["agnss"] = "released" THEN "pending" ELSE nif["agnss"]
           ids == IdsOf(subs["agnss"])
           told == Told({a}, "open")
<1>1. AgpsTypes /\ Next1("requestATL") /\ onRsrcEvent("agnss", "SUBSCRIBE", a)
  BY Zenon DEF AgpsInv, LocEngRequestATL
<1>2. /\ inbox # << >> /\ inbox \in Seq(AgpsMessages) /\ inbox[1] = AtlRequest(a)
      /\ a \in Ids /\ inbox[1] # EngineUp
  <2>1. "requestATL" # "engineUp"
    OBVIOUS
  <2>2. "requestATL" \in {"requestATL", "releaseATL"}
    OBVIOUS
  <2> QED BY Zenon, <1>1, <2>1, <2>2, FirstMessage DEF AtlRequest
<1> HIDE DEF a
<1>3. /\ inbox' = Tail(inbox) /\ dsCall' = dsCall /\ mRetries' = mRetries
      /\ subs' = [subs EXCEPT !["agnss"] = list] /\ nif' = [nif EXCEPT !["agnss"] = n]
      /\ \/ nif["agnss"] \in {"released", "pending"} /\ n = "pending" /\ conn' = conn
         \/ nif["agnss"] = "acquired" /\ n = "acquired" /\ conn' = told
  BY Zenon, <1>1, AgnssSubscribe, AgnssFacts
<1>4. list \in Seq(AtlSubscribers) /\ DistinctIds(list) /\ AllActive(list) /\ IdsOf(list) = ids \cup {a}
  BY Zenon, <1>1, <1>2, AgnssFacts, Added
<1>5. AgnssOK(n, list)
  BY Zenon, <1>3, <1>4 DEF AgnssOK, NifStates
<1>6. nif["agnss"] = "released" => ids = {}
  BY Zenon, <1>1, AgnssFacts
<1> HIDE DEF n, list, ids
<1>7. told \in [Ids -> ConnStates]
  BY Zenon, <1>1, ToldEach
<1> HIDE DEF told
<1>8. conn' \in [Ids -> ConnStates]
  BY Zenon, <1>1, <1>3, <1>7 DEF AgpsTypes
<1>9. ASSUME NEW id \in Ids \ EsIds
      PROVE  /\ conn[id] = "idle" => conn'[id] = "idle"
             /\ WellQueued(id, inbox)
                /\ Settled(Waits(inbox, AtlRequest(id)), Waits(inbox, AtlRelease(id)),
                           id \in ids, nif["agnss"], conn[id]) =>
                  Settled(Waits(Tail(inbox), AtlRequest(id)), Waits(Tail(inbox), AtlRelease(id)),
                          id \in IdsOf(list), n, conn'[id])
  <2>1. CASE id = a
    <3>1. inbox[1] = AtlRequest(id) /\ AtlRequest(id) # AtlRelease(id)
      BY Zenon, <1>2, <2>1, MessagesDiffer
    <3>2. /\ Waits(inbox, AtlRequest(id))
          /\ Waits(inbox, AtlRelease(id)) <=> Waits(Tail(inbox), AtlRelease(id))
          /\ WellQueued(id, inbox) => ~Waits(Tail(inbox), AtlRequest(id))
      BY Zenon, <1>2, <3>1, TailWaits, TailQueued
    <3>3. /\ conn[id] = "idle" => conn'[id] = "idle"
          /\ conn[id] = "closing" => conn'[id] = "closing"
          /\ conn[id] = "asked" =>
               (conn'[id] = "asked" /\ n = "pending") \/ (conn'[id] = "open" /\ n = "acquired")
      <4>1. id \in {a} /\ "open" # "closed" /\ "open" \in {"open", "refused", "overlooked", "closed"}
        BY <2>1
      <4>2. /\ conn[id] = "idle" => told[id] = conn[id]
            /\ conn[id] = "closing" => told[id] = "closing"
            /\ conn[id] = "asked" => told[id] = "open"
        BY Zenon, <1>1, <4>1, ToldEach DEF told
      <4>3. CASE n = "pending" /\ conn' = conn
        BY Zenon, <4>3
      <4>4. CASE n = "acquired" /\ conn' = told
        <5>1. conn'[id] = told[id] /\ n = "acquired"
          BY Zenon, <4>4
        <5> QED BY Zenon, <4>2, <5>1
      <4> QED BY Zenon, <1>3, <4>3, <4>4
    <3>4. id \in IdsOf(list)
      BY <1>4, <2>1
    <3> QED BY Zenon, <3>2, <3>3, <3>4 DEF Settled
  <2>2. CASE id # a
    <3>1. inbox[1] \notin {AtlRequest(id), AtlRelease(id)}
      BY <1>2, <2>2 DEF AtlRequest, AtlRelease
    <3>2. /\ Waits(inbox, AtlRequest(id)) <=> Waits(Tail(inbox), AtlRequest(id))
          /\ Waits(inbox, AtlRelease(id)) <=> Waits(Tail(inbox), AtlRelease(id))
      BY Zenon, <1>1, <1>2, <3>1, OthersMessage
    <3>3. id \in IdsOf(list) <=> id \in ids
      BY Zenon, <1>4, <2>2
    <3>4. conn'[id] = conn[id]
      <4>1. id \notin {a}
        BY <2>2
      <4>2. told[id] = conn[id]
        BY Zenon, <4>1, ToldOthers DEF told
      <4> QED BY Zenon, <1>3, <4>2
    <3>5. \/ n = nif["agnss"] \/ id \notin ids
      BY Zenon, <1>6 DEF n
    <3>6. nif["agnss"] # "acquired" \/ n = "acquired"
      BY Zenon, <1>3
    <3> QED BY Zenon, <3>2, <3>3, <3>4, <3>5, <3>6 DEF Settled
  <2> QED BY Zenon, <2>1, <2>2
<1> QED BY Zenon, <1>2, <1>3, <1>5, <1>8, <1>9, AgnssKeepsAgreement DEF ids

LEMMA ReleaseTaken ==
  ASSUME AgpsInv, LocEngReleaseATL
  PROVE  AgpsInv'
<1> DEFINE a == Arg
           ids == IdsOf(subs["agnss"])
           told == Told({a}, "closed")
<1>1. AgpsTypes /\ Next1("releaseATL")
  BY Zenon DEF AgpsInv, LocEngReleaseATL
<1>2. /\ inbox # << >> /\ inbox \in Seq(AgpsMessages) /\ inbox[1] = AtlRelease(a)
      /\ a \in Ids /\ inbox[1] # EngineUp
  <2>1. "releaseATL" # "engineUp"
    OBVIOUS
  <2>2. "releaseATL" \in {"requestATL", "releaseATL"}
    OBVIOUS
  <2> QED BY Zenon, <1>1, <2>1, <2>2, FirstMessage DEF AtlRelease
<1> HIDE DEF a
<1>3. ASSUME NEW list, NEW n, AgnssOK(n, list), IdsOf(list) = ids \ {a},
             n = nif["agnss"] \/ IdsOf(list) = {},
             nif' = [nif EXCEPT !["agnss"] = n], subs' = [subs EXCEPT !["agnss"] = list],
             conn' = told, inbox' = Tail(inbox), dsCall' = dsCall, mRetries' = mRetries
      PROVE  AgpsInv'
  <2>1. "closed" \in {"open", "refused", "overlooked", "closed"}
    OBVIOUS
  <2>2. told \in [Ids -> ConnStates]
    BY Zenon, <1>1, <2>1, ToldEach
  <2>3. ASSUME NEW id \in Ids \ EsIds
        PROVE  /\ conn[id] = "idle" => conn'[id] = "idle"
               /\ WellQueued(id, inbox)
                  /\ Settled(Waits(inbox, AtlRequest(id)), Waits(inbox, AtlRelease(id)),
                             id \in ids, nif["agnss"], conn[id]) =>
                    Settled(Waits(Tail(inbox), AtlRequest(id)), Waits(Tail(inbox), AtlRelease(id)),
                            id \in IdsOf(list), n, conn'[id])
    <3>1. CASE id = a
      <4>1. inbox[1] = AtlRelease(id)
        BY Zenon, <1>2, <3>1
      <4>2. WellQueued(id, inbox) => ~Waits(Tail(inbox), AtlRequest(id))
        BY Zenon, <1>2, <4>1, TailQueued
      <4>3. id \in {a} /\ id \notin IdsOf(list)
        BY <1>3, <3>1
      <4>4. conn'[id] = "idle"
        BY Zenon, <1>1, <1>3, <2>1, <4>3, ToldEach
      <4> QED BY Zenon, <4>2, <4>3, <4>4 DEF Settled
    <3>2. CASE id # a
      <4>1. inbox[1] \notin {AtlRequest(id), AtlRelease(id)}
        BY <1>2, <3>2 DEF AtlRequest, AtlRelease
      <4>2. /\ Waits(inbox, AtlRequest(id)) <=> Waits(Tail(inbox), AtlRequest(id))
            /\ Waits(inbox, AtlRelease(id)) <=> Waits(Tail(inbox), AtlRelease(id))
        BY Zenon, <1>1, <1>2, <4>1, OthersMessage
      <4>3. (id \in IdsOf(list) <=> id \in ids) /\ id \notin {a}
        BY Zenon, <1>3, <3>2
      <4>4. conn'[id] = conn[id]
        BY Zenon, <1>3, <4>3, ToldOthers
      <4>5. n = nif["agnss"] \/ id \notin ids
        BY Zenon, <1>3, <4>3
      <4> QED BY Zenon, <4>2, <4>3, <4>4, <4>5 DEF Settled
    <3> QED BY Zenon, <3>1, <3>2
  <2> QED BY Zenon, <1>2, <1>3, <2>2, <2>3, AgnssKeepsAgreement DEF ids
<1>4. CASE a \in IdsOf(subs["agnss"]) /\ onRsrcEvent("agnss", "UNSUBSCRIBE", a)
  <2> DEFINE list == delete(subs["agnss"], a)
  <2>1. /\ list \in Seq(AtlSubscribers) /\ DistinctIds(list) /\ AllActive(list)
        /\ IdsOf(list) = ids \ {a}
    BY Zenon, <1>1, <1>2, AgnssFacts, Deleted
  <2>2. /\ inbox' = Tail(inbox) /\ dsCall' = dsCall /\ mRetries' = mRetries
        /\ subs' = [subs EXCEPT !["agnss"] = list] /\ conn' = told
        /\ \/ list = << >> /\ nif' = [nif EXCEPT !["agnss"] = "released"]
           \/ list # << >> /\ nif' = [nif EXCEPT !["agnss"] = nif["agnss"]]
    BY Zenon, <1>1, <1>2, <1>4, AgnssUnsubscribe, AgnssFacts
  <2> HIDE DEF list
  <2>3. "released" \in NifStates /\ "released" # "releasing"
    BY Zenon DEF NifStates
  <2>4. CASE list = << >> /\ nif' = [nif EXCEPT !["agnss"] = "released"]
    <3>1. AgnssOK("released", list) /\ IdsOf(list) = {}
      BY Zenon, <2>3, <2>4, NoSubscribers
    <3> QED BY Zenon, <1>3, <2>1, <2>2, <2>4, <3>1
  <2>5. CASE list # << >> /\ nif' = [nif EXCEPT !["agnss"] = nif["agnss"]]
    <3>1. nif["agnss"] # "released"
      <4>1. a \in ids
        BY Zenon, <1>4
      <4> QED BY Zenon, <1>1, <4>1, AgnssFacts
    <3>2. AgnssOK(nif["agnss"], list)
      BY Zenon, <1>1, <2>1, <3>1, AgnssFacts DEF AgnssOK
    <3> QED BY Zenon, <1>3, <2>1, <2>2, <2>5, <3>2
  <2> QED BY Zenon, <2>2, <2>4, <2>5
<1>5. CASE a \in IdsOf(subs["ds"]) /\ onRsrcEvent("ds", "UNSUBSCRIBE", a)
  <2>1. a \in EsIds
    BY Zenon, <1>1, <1>5, DsFacts
  <2>2. DsTells /\ \E n \in NifStates, list \in Seq(AtlSubscribers) : DsKeeps(n, list)
    BY Zenon, <1>1, <1>2, <1>5, <2>1, DsUnsubscribe
  <2>3. ASSUME NEW id \in Ids \ EsIds PROVE inbox[1] \notin {AtlRequest(id), AtlRelease(id), EngineUp}
    BY <1>2, <2>1 DEF AtlRequest, AtlRelease
  <2> QED BY Zenon, <1>2, <2>2, <2>3, DsKeepsAgreement
<1>6. CASE /\ \A m \in Machines : a \notin IdsOf(subs[m])
           /\ conn' = Told({a}, "closed") /\ inbox' = Tail(inbox)
           /\ UNCHANGED <<nif, subs, mRetries>> /\ NoRequest
  <2>1. a \notin ids
    BY Zenon, <1>1, <1>6, DsFacts
  <2>2. ids = ids \ {a}
    BY Zenon, <2>1
  <2>3. nif' = nif /\ subs' = subs /\ dsCall' = dsCall /\ mRetries' = mRetries
    BY Zenon, <1>6 DEF NoRequest
  <2> QED BY Zenon, <1>1, <1>3, <1>6, <2>2, <2>3, AgnssFacts
<1> QED BY Zenon, <1>4, <1>5, <1>6 DEF LocEngReleaseATL, a

LEMMA AnswerTaken ==
  ASSUME AgpsInv, LocEngAtlEvent
  PROVE  AgpsInv'
<1> DEFINE ids == IdsOf(subs["agnss"])
<1>1. PICK event \in {"GRANTED", "RELEASED", "DENIED"} :
        Next1(event) /\ Arg = "agnss" /\ onRsrcEvent("agnss", event, 0)
  BY Zenon DEF LocEngAtlEvent
<1>2. AgpsTypes
  BY Zenon DEF AgpsInv
<1>3. event \notin {"requestATL", "releaseATL", "engineUp"}
  OBVIOUS
<1>4. inbox # << >> /\ inbox \in Seq(AgpsMessages) /\ inbox[1] = <<event, Arg>> /\ inbox[1] # EngineUp
  BY Zenon, <1>1, <1>2, <1>3, FirstMessage
<1>5. ASSUME NEW id \in Ids \ EsIds
      PROVE  /\ Waits(inbox, AtlRequest(id)) <=> Waits(Tail(inbox), AtlRequest(id))
             /\ Waits(inbox, AtlRelease(id)) <=> Waits(Tail(inbox), AtlRelease(id))
  <2>1. inbox[1] \notin {AtlRequest(id), AtlRelease(id)}
    BY <1>3, <1>4 DEF AtlRequest, AtlRelease
  <2> QED BY Zenon, <1>2, <1>4, <2>1, OthersMessage
<1>6. /\ inbox' = Tail(inbox) /\ dsCall' = dsCall /\ mRetries' = mRetries
      /\ \/ nif' = nif /\ subs' = subs /\ conn' = conn
         \/ /\ nif["agnss"] = "pending" /\ nif' = [nif EXCEPT !["agnss"] = "acquired"]
            /\ subs' = subs /\ conn' = Told(ids, "open")
         \/ /\ nif["agnss"] = "pending" /\ nif' = [nif EXCEPT !["agnss"] = "released"]
            /\ subs' = [subs EXCEPT !["agnss"] = << >>] /\ conn' = Told(ids, "refused")
         \/ /\ nif["agnss"] = "acquired" /\ nif' = [nif EXCEPT !["agnss"] = "released"]
            /\ subs' = [subs EXCEPT !["agnss"] = << >>] /\ conn' = Told(ids, "closed")
  BY Zenon, <1>1, <1>2, AgnssAnswer
<1> HIDE DEF ids
<1>7. CASE nif' = nif /\ subs' = subs /\ conn' = conn
  <2>1. AgnssOK(nif["agnss"], subs["agnss"]) /\ conn' \in [Ids -> ConnStates]
    BY Zenon, <1>2, <1>7, AgnssFacts DEF AgpsTypes
  <2>2. ASSUME NEW id \in Ids \ EsIds
        PROVE  /\ conn[id] = "idle" => conn'[id] = "idle"
               /\ Settled(Waits(inbox, AtlRequest(id)), Waits(inbox, AtlRelease(id)),
                          id \in IdsOf(subs["agnss"]), nif["agnss"], conn[id]) =>
                    Settled(Waits(Tail(inbox), AtlRequest(id)), Waits(Tail(inbox), AtlRelease(id)),
                            id \in IdsOf(subs["agnss"]), nif["agnss"], conn'[id])
    BY Zenon, <1>5, <1>7 DEF Settled
  <2>3. nif' = [nif EXCEPT !["agnss"] = nif["agnss"]] /\ subs' = [subs EXCEPT !["agnss"] = subs["agnss"]]
    BY Zenon, <1>2, <1>7, AgnssFacts
  <2> QED BY Zenon, <1>4, <1>6, <2>1, <2>2, <2>3, AgnssKeepsAgreement
<1>8. CASE /\ nif["agnss"] = "pending" /\ nif' = [nif EXCEPT !["agnss"] = "acquired"]
           /\ subs' = subs /\ conn' = Told(ids, "open")
  <2> DEFINE told == Told(ids, "open")
  <2>1. "open" \in {"open", "refused", "overlooked", "closed"} /\ "open" # "closed"
    OBVIOUS
  <2>2. told \in [Ids -> ConnStates]
    BY Zenon, <1>2, <2>1, ToldEach
  <2>3. ASSUME NEW id \in Ids \ EsIds
        PROVE  /\ conn[id] = "idle" => told[id] = "idle"
               /\ conn[id] = "closing" => told[id] = "closing"
               /\ id \in ids /\ conn[id] = "asked" => told[id] = "open"
               /\ id \notin ids => told[id] = conn[id]
    <3>1. id \notin ids => told[id] = conn[id]
      BY Zenon, ToldOthers
    <3>2. /\ conn[id] = "idle" => told[id] = "idle"
          /\ conn[id] = "closing" => told[id] = "closing"
          /\ id \in ids /\ conn[id] = "asked" => told[id] = "open"
      BY <1>2, <2>1, ToldHandle
    <3> QED BY Zenon, <3>1, <3>2
  <2> HIDE DEF told
  <2>4. ASSUME NEW id \in Ids \ EsIds
        PROVE  /\ conn[id] = "idle" => told[id] = "idle"
               /\ Settled(Waits(inbox, AtlRequest(id)), Waits(inbox, AtlRelease(id)),
                          id \in ids, "pending", conn[id]) =>
                    Settled(Waits(Tail(inbox), AtlRequest(id)), Waits(Tail(inbox), AtlRelease(id)),
                            id \in ids, "acquired", told[id])
    BY Zenon, <1>5, <2>3 DEF Settled
  <2>5. AgnssOK("acquired", subs["agnss"])
    BY Zenon, <1>2, AgnssFacts DEF AgnssOK, NifStates
  <2>6. conn' = told /\ subs' = [subs EXCEPT !["agnss"] = subs["agnss"]]
    BY Zenon, <1>2, <1>8, AgnssFacts DEF told
  <2>7. ASSUME NEW id \in Ids \ EsIds
        PROVE  /\ conn[id] = "idle" => conn'[id] = "idle"
               /\ Settled(Waits(inbox, AtlRequest(id)), Waits(inbox, AtlRelease(id)),
                          id \in ids, nif["agnss"], conn[id]) =>
                    Settled(Waits(Tail(inbox), AtlRequest(id)), Waits(Tail(inbox), AtlRelease(id)),
                            id \in ids, "acquired", conn'[id])
    BY Zenon, <1>8, <2>4, <2>6
  <2> QED BY Zenon, <1>4, <1>6, <1>8, <2>2, <2>5, <2>6, <2>7, AgnssKeepsAgreement DEF ids
<1>9. ASSUME NEW status \in {"refused", "closed"}, conn' = Told(ids, status),
             nif["agnss"] = (IF status = "refused" THEN "pending" ELSE "acquired"),
             nif' = [nif EXCEPT !["agnss"] = "released"], subs' = [subs EXCEPT !["agnss"] = << >>]
      PROVE  AgpsInv'
  <2> DEFINE told == Told(ids, status)
  <2>1. status \in {"open", "refused", "overlooked", "closed"}
    BY Zenon
  <2>2. told \in [Ids -> ConnStates]
    BY Zenon, <1>2, <2>1, ToldEach
  <2>3. ASSUME NEW id \in Ids \ EsIds
        PROVE  /\ conn[id] = "idle" => told[id] = "idle"
               /\ conn[id] = "closing" /\ status # "closed" => told[id] = "closing"
               /\ id \in ids /\ status = "refused" /\ conn[id] = "asked" => told[id] = "idle"
               /\ id \in ids /\ status = "closed" => told[id] = "idle"
               /\ id \notin ids => told[id] = conn[id]
    <3>1. id \notin ids => told[id] = conn[id]
      BY Zenon, ToldOthers
    <3>2. /\ conn[id] = "idle" => told[id] = "idle"
          /\ conn[id] = "closing" /\ status # "closed" => told[id] = "closing"
          /\ id \in ids /\ status = "closed" => told[id] = "idle"
          /\ id \in ids /\ status = "refused" /\ conn[id] = "asked" => told[id] = "idle"
      BY <1>2, <2>1, ToldHandle
    <3> QED BY Zenon, <3>1, <3>2
  <2> HIDE DEF told
  <2>4. ASSUME NEW id \in Ids \ EsIds
        PROVE  /\ conn[id] = "idle" => told[id] = "idle"
               /\ Settled(Waits(inbox, AtlRequest(id)), Waits(inbox, AtlRelease(id)),
                          id \in ids, nif["agnss"], conn[id]) =>
                    Settled(Waits(Tail(inbox), AtlRequest(id)), Waits(Tail(inbox), AtlRelease(id)),
                            FALSE, "released", told[id])
    <3>1. CASE status = "refused"
      BY Zenon, <1>5, <1>9, <2>3, <3>1 DEF Settled
    <3>2. CASE status = "closed"
      BY Zenon, <1>5, <1>9, <2>3, <3>2 DEF Settled
    <3> QED BY Zenon, <3>1, <3>2
  <2>5. "released" \in NifStates /\ "released" # "releasing"
    BY Zenon DEF NifStates
  <2>6. AgnssOK("released", << >>) /\ IdsOf(<< >>) = {}
    BY Zenon, <2>5, NoSubscribers
  <2>7. ASSUME NEW id \in Ids \ EsIds
        PROVE  Settled(Waits(inbox, AtlRequest(id)), Waits(inbox, AtlRelease(id)),
                       id \in ids, nif["agnss"], conn[id]) =>
                 Settled(Waits(Tail(inbox), AtlRequest(id)), Waits(Tail(inbox), AtlRelease(id)),
                         id \in IdsOf(<< >>), "released", told[id])
    <3>1. id \notin IdsOf(<< >>)
      BY Zenon, <2>6
    <3> QED BY Zenon, <2>4, <3>1 DEF Settled
  <2>8. conn' = told
    BY Zenon, <1>9 DEF told
  <2> QED BY Zenon, <1>4, <1>6, <1>9, <2>2, <2>4, <2>6, <2>7, <2>8, AgnssKeepsAgreement DEF ids
<1> QED BY Zenon, <1>6, <1>7, <1>8, <1>9

LEMMA RestartTaken ==
  ASSUME AgpsInv, LocEngUp
  PROVE  AgpsInv'
<1>1. AgpsTypes /\ Next1("engineUp")
  BY Zenon DEF AgpsInv, LocEngUp
<1>2. inbox # << >> /\ inbox \in Seq(AgpsMessages) /\ inbox[1] = EngineUp
  BY Zenon, <1>1, FirstMessage
<1>3. /\ nif' = nif /\ subs' = [subs EXCEPT !["agnss"] = << >>] /\ conn' = conn /\ inbox' = Tail(inbox)
      /\ dsCall' = dsCall /\ mRetries' = mRetries
  BY Zenon DEF LocEngUp
<1>4. nif["agnss"] \in NifStates /\ nif["agnss"] # "releasing"
  BY Zenon, <1>1, AgnssFacts DEF AgnssOK
<1>5. AgnssOK(nif["agnss"], << >>) /\ IdsOf(<< >>) = {}
  BY Zenon, <1>4, NoSubscribers
<1>6. nif' = [nif EXCEPT !["agnss"] = nif["agnss"]] /\ conn' \in [Ids -> ConnStates]
  BY Zenon, <1>1, <1>3, AgnssFacts DEF AgpsTypes
<1>7. AgpsTypes' /\ nif'["agnss"] = nif["agnss"] /\ subs'["agnss"] = << >>
  BY Zenon, <1>1, <1>2, <1>3, <1>5, <1>6, AgnssFrame
<1>8. ASSUME NEW id \in Ids \ EsIds
      PROVE  Agree(id, inbox', id \in IdsOf(subs'["agnss"]), nif'["agnss"], conn'[id])
  <2> DEFINE held == id \in IdsOf(subs["agnss"])
             h == id \in IdsOf(subs'["agnss"])
  <2>1. Agree(id, inbox, held, nif["agnss"], conn[id])
    BY Zenon DEF AgpsInv
  <2>2. ~h
    BY Zenon, <1>5, <1>7
  <2> HIDE DEF held, h
  <2>3. CASE Blocked(inbox)
    <3>1. conn[id] = "idle"
      BY Zenon, <2>1, <2>3 DEF Agree
    <3>2. Agree(id, Tail(inbox), h, nif["agnss"], "idle")
      BY Zenon, <1>2, <2>1, <2>3, TakeBlocked
    <3> QED BY Zenon, <1>3, <3>1, <3>2 DEF h
  <2>4. CASE ~Blocked(inbox)
    <3>1. Agree(id, Tail(inbox), FALSE, nif["agnss"], conn[id])
      BY Zenon, <1>2, <2>1, <2>4, TakeUp
    <3>2. Agree(id, Tail(inbox), h, nif["agnss"], conn[id])
      BY Zenon, <2>2, <3>1 DEF Agree, Settled
    <3> QED BY Zenon, <1>3, <3>2 DEF h
  <2> QED BY Zenon, <2>3, <2>4
<1> QED BY Zenon, <1>7, <1>8 DEF AgpsInv, Agree, WellQueued, Blocked, Waits, Fresh, Settled, IdsOf

LEMMA EmergencyTaken ==
  ASSUME AgpsInv, LocEngRequestSuplEs \/ LocEngSuplEsEvent
  PROVE  AgpsInv'
<1>1. AgpsTypes
  BY Zenon DEF AgpsInv
<1>2. CASE LocEngRequestSuplEs
  <2>1. Next1("requestSuplES") /\ onRsrcEvent("ds", "SUBSCRIBE", Arg)
    BY Zenon, <1>2 DEF LocEngRequestSuplEs
  <2>2. inbox # << >> /\ inbox[1] = <<"requestSuplES", Arg>> /\ Arg \in EsIds
    BY Zenon, <1>1, <2>1, FirstMessage
  <2>3. DsTells /\ \E n \in NifStates, list \in Seq(AtlSubscribers) : DsKeeps(n, list)
    BY Zenon, <1>1, <2>1, <2>2, DsSubscribed
  <2>4. ASSUME NEW id \in Ids \ EsIds PROVE inbox[1] \notin {AtlRequest(id), AtlRelease(id), EngineUp}
    BY <2>2 DEF AtlRequest, AtlRelease, EngineUp
  <2> QED BY Zenon, <2>2, <2>3, <2>4, DsKeepsAgreement
<1>3. CASE LocEngSuplEsEvent
  <2>1. PICK event \in {"GRANTED", "RELEASED"} :
          Next1(event) /\ Arg = "ds" /\ onRsrcEvent("ds", DsEvent(event), 0)
    BY Zenon, <1>3 DEF LocEngSuplEsEvent
  <2>2. DsEvent(event) \in {"GRANTED", "RELEASED", "DENIED"}
    BY Zenon DEF DsEvent
  <2>3. inbox # << >> /\ inbox[1] = <<event, Arg>>
    BY Zenon, <1>1, <2>1, FirstMessage
  <2>4. DsTells /\ \E n \in NifStates, list \in Seq(AtlSubscribers) : DsKeeps(n, list)
    BY Zenon, <1>1, <2>1, <2>2, <2>3, DsAnswer
  <2>5. ASSUME NEW id \in Ids \ EsIds PROVE inbox[1] \notin {AtlRequest(id), AtlRelease(id), EngineUp}
    BY <2>3 DEF AtlRequest, AtlRelease, EngineUp
  <2> QED BY Zenon, <2>3, <2>4, <2>5, DsKeepsAgreement
<1> QED BY Zenon, <1>2, <1>3

\* Something is posted, and nothing of the engine changes.
LEMMA Posted ==
  ASSUME AgpsInv, nif' = nif, subs' = subs, inbox' \in Seq(AgpsMessages), conn' \in [Ids -> ConnStates],
         dsCall' \in DsCallStates, mRetries' = mRetries,
         \A id \in Ids \ EsIds :
           Agree(id, inbox', id \in IdsOf(subs["agnss"]), nif["agnss"], conn'[id])
  PROVE  AgpsInv'
<1>1. AgpsTypes'
  BY Zenon DEF AgpsInv, AgpsTypes, AgnssOK, DsOK
<1>2. ASSUME NEW id \in Ids \ EsIds
      PROVE  Agree(id, inbox', id \in IdsOf(subs'["agnss"]), nif'["agnss"], conn'[id])
  BY Zenon
<1> QED BY Zenon, <1>1, <1>2 DEF AgpsInv, Agree, WellQueued, Blocked, Waits, Fresh, Settled, IdsOf

\* What is posted does not concern ordinary handles.
LEMMA PostedNeutral ==
  ASSUME AgpsInv, nif' = nif, subs' = subs, dsCall' \in DsCallStates, mRetries' = mRetries, conn' = conn,
         NEW x \in AgpsMessages, inbox' = Append(inbox, x),
         \A id \in Ids \ EsIds : x \notin {AtlRequest(id), AtlRelease(id), EngineUp}
  PROVE  AgpsInv'
<1>1. AgpsTypes /\ inbox \in Seq(AgpsMessages) /\ conn' \in [Ids -> ConnStates]
  BY Zenon DEF AgpsInv, AgpsTypes
<1>2. inbox' \in Seq(AgpsMessages)
  BY Zenon, <1>1, AppendIndices
<1>3. ASSUME NEW id \in Ids \ EsIds
      PROVE  Agree(id, inbox', id \in IdsOf(subs["agnss"]), nif["agnss"], conn'[id])
  <2> DEFINE held == id \in IdsOf(subs["agnss"])
  <2>1. Agree(id, inbox, held, nif["agnss"], conn[id])
    BY Zenon DEF AgpsInv
  <2> HIDE DEF held
  <2>2. Agree(id, Append(inbox, x), held, nif["agnss"], conn[id])
    BY Zenon, <1>1, <2>1, AppendNeutral
  <2> QED BY Zenon, <2>2 DEF held
<1> QED BY Zenon, <1>1, <1>2, <1>3, Posted

LEMMA RetryKeeps ==
  ASSUME AgpsInv, retryCallback
  PROVE  AgpsInv'
<1>1. AgpsTypes /\ inbox \in Seq(AgpsMessages) /\ dsCall \in DsCallStates /\ conn \in [Ids -> ConnStates]
  BY Zenon DEF AgpsInv, AgpsTypes
<1>2. nif' = nif /\ subs' = subs /\ dsCall' = dsCall /\ mRetries' = mRetries /\ conn' = conn
  BY Zenon DEF retryCallback
<1>3. CASE Active(subs["ds"]) = << >>
  <2>1. inbox' = inbox
    BY Zenon, <1>3 DEF retryCallback
  <2> QED BY Zenon, <1>1, <1>2, <2>1, Posted DEF AgpsInv
<1>4. CASE Active(subs["ds"]) # << >>
  <2> DEFINE x == <<"requestSuplES", Active(subs["ds"])[1].id>>
  <2>1. inbox' = Append(inbox, x)
    BY Zenon, <1>4 DEF retryCallback
  <2>2. Active(subs["ds"])[1].id \in EsIds
    BY Zenon, <1>1, <1>4, DsFacts, ActiveOnes
  <2>3. x \in AgpsMessages
    BY <2>2 DEF AgpsMessages
  <2>4. ASSUME NEW id \in Ids \ EsIds PROVE x \notin {AtlRequest(id), AtlRelease(id), EngineUp}
    BY DEF AtlRequest, AtlRelease, EngineUp
  <2> HIDE DEF x
  <2> QED BY Zenon, <1>1, <1>2, <2>1, <2>3, <2>4, PostedNeutral
<1> QED BY Zenon, <1>3, <1>4

\* The framework and the data service.
LEMMA OutsideKeeps ==
  ASSUME AgpsInv, FrameworkAnswers \/ DataServiceReports \/ DataServiceDrops
  PROVE  AgpsInv'
<1>1. AgpsTypes /\ dsCall \in DsCallStates
  BY Zenon DEF AgpsInv, AgpsTypes
<1>2. \E x \in {"GRANTED", "RELEASED", "DENIED"} \X Machines : inbox' = Append(inbox, x)
  <2>1. "agnss" \in Machines /\ "ds" \in Machines
    BY Zenon DEF Machines
  <2>2. \A a \in {"GRANTED", "RELEASED", "DENIED"} :
          /\ <<a, "agnss">> \in {"GRANTED", "RELEASED", "DENIED"} \X Machines
          /\ <<a, "ds">> \in {"GRANTED", "RELEASED", "DENIED"} \X Machines
    BY <2>1
  <2>3. CASE FrameworkAnswers
    <3>1. PICK a \in (IF calls[1] = "request" THEN {"GRANTED", "DENIED"} ELSE {"RELEASED"}) :
            inbox' = Append(inbox, <<a, "agnss">>)
      BY Zenon, <2>3 DEF FrameworkAnswers, Post
    <3>2. a \in {"GRANTED", "RELEASED", "DENIED"}
      BY Zenon, <3>1
    <3> QED BY Zenon, <2>2, <3>1, <3>2
  <2>4. CASE DataServiceReports \/ DataServiceDrops
    BY Zenon, <2>2, <2>4 DEF DataServiceReports, DataServiceDrops, Post
  <2> QED BY Zenon, <2>3, <2>4
<1>3. PICK x \in {"GRANTED", "RELEASED", "DENIED"} \X Machines : inbox' = Append(inbox, x)
  BY Zenon, <1>2
<1>4. x \in AgpsMessages
  BY Zenon, <1>3 DEF AgpsMessages
<1>5. ASSUME NEW id \in Ids \ EsIds PROVE x \notin {AtlRequest(id), AtlRelease(id), EngineUp}
  BY DEF AtlRequest, AtlRelease, EngineUp
<1>6. nif' = nif /\ subs' = subs /\ mRetries' = mRetries /\ conn' = conn
  BY Zenon DEF FrameworkAnswers, DataServiceReports, DataServiceDrops
<1>7. dsCall' \in DsCallStates
  BY Zenon, <1>1 DEF FrameworkAnswers, DataServiceReports, DataServiceDrops, DsCallStates
<1> QED BY Zenon, <1>3, <1>4, <1>5, <1>6, <1>7, PostedNeutral

\* The modem.
LEMMA ModemAsksKeeps ==
  ASSUME AgpsInv, NEW a \in Ids, ModemAsks(a)
  PROVE  AgpsInv'
<1> DEFINE x == <<IF a \in EsIds THEN "requestSuplES" ELSE "requestATL", a>>
<1>1. AgpsTypes /\ inbox \in Seq(AgpsMessages) /\ conn \in [Ids -> ConnStates] /\ dsCall \in DsCallStates
  BY Zenon DEF AgpsInv, AgpsTypes
<1>2. /\ conn[a] = "idle" /\ conn' = [conn EXCEPT ![a] = "asked"] /\ inbox' = Append(inbox, x)
      /\ nif' = nif /\ subs' = subs /\ dsCall' = dsCall /\ mRetries' = mRetries
      /\ \A i \in DOMAIN inbox : inbox[i] # AtlRelease(a)
      /\ \A i \in DOMAIN inbox : inbox[i] = EngineUp => i = 1
  BY Zenon DEF ModemAsks, Post, AtlRelease, EngineUp
<1>3. x \in AgpsMessages
  BY DEF AgpsMessages
<1>4. a \notin EsIds => x = AtlRequest(a)
  BY Zenon DEF AtlRequest
<1>5. ASSUME NEW id \in Ids \ EsIds, id # a
      PROVE  x \notin {AtlRequest(id), AtlRelease(id), EngineUp}
  BY <1>5 DEF AtlRequest, AtlRelease, EngineUp
<1> HIDE DEF x
<1>6. inbox' \in Seq(AgpsMessages)
  BY Zenon, <1>1, <1>2, <1>3, AppendIndices
<1>7. "asked" \in ConnStates
  BY Zenon DEF ConnStates
<1>8. conn' \in [Ids -> ConnStates] /\ conn'[a] = "asked" /\ \A id \in Ids : id # a => conn'[id] = conn[id]
  BY Zenon, <1>1, <1>2, <1>7
<1>9. ~(1 > 1)
  OBVIOUS
<1>10. ~Blocked(inbox) /\ ~Waits(inbox, AtlRelease(a))
  BY Zenon, <1>2, <1>9 DEF Blocked, Waits
<1>11. ASSUME NEW id \in Ids \ EsIds
       PROVE  Agree(id, inbox', id \in IdsOf(subs["agnss"]), nif["agnss"], conn'[id])
  <2> DEFINE held == id \in IdsOf(subs["agnss"])
  <2>1. Agree(id, inbox, held, nif["agnss"], conn[id])
    BY Zenon DEF AgpsInv
  <2> HIDE DEF held
  <2>2. CASE id = a
    <3>1. Agree(a, inbox, held, nif["agnss"], "idle") /\ x = AtlRequest(a) /\ AtlRequest(a) \in AgpsMessages
      BY Zenon, <1>2, <1>3, <1>4, <2>1, <2>2
    <3>2. Agree(a, Append(inbox, AtlRequest(a)), held, nif["agnss"], "asked")
      BY Zenon, <1>1, <1>10, <3>1, AskAdds
    <3> QED BY Zenon, <1>2, <1>8, <2>2, <3>1, <3>2 DEF held
  <2>3. CASE id # a
    <3>1. Agree(id, Append(inbox, x), held, nif["agnss"], conn[id])
      BY Zenon, <1>1, <1>3, <1>5, <2>1, <2>3, AppendNeutral
    <3> QED BY Zenon, <1>2, <1>8, <2>3, <3>1 DEF held
  <2> QED BY Zenon, <2>2, <2>3
<1> QED BY Zenon, <1>1, <1>2, <1>6, <1>8, <1>11, Posted

LEMMA ModemReleasesKeeps ==
  ASSUME AgpsInv, NEW a \in Ids, ModemReleases(a)
  PROVE  AgpsInv'
<1> DEFINE x == AtlRelease(a)
<1>1. AgpsTypes /\ inbox \in Seq(AgpsMessages) /\ conn \in [Ids -> ConnStates] /\ dsCall \in DsCallStates
  BY Zenon DEF AgpsInv, AgpsTypes
<1>2. /\ conn[a] \in {"asked", "open", "ignored"} /\ conn' = [conn EXCEPT ![a] = "closing"]
      /\ inbox' = Append(inbox, x)
      /\ nif' = nif /\ subs' = subs /\ dsCall' = dsCall /\ mRetries' = mRetries
  BY Zenon DEF ModemReleases, Post, AtlRelease
<1>3. x \in AgpsMessages
  BY DEF AgpsMessages, AtlRelease
<1>4. ASSUME NEW id \in Ids \ EsIds, id # a
      PROVE  x \notin {AtlRequest(id), AtlRelease(id), EngineUp}
  BY <1>4 DEF AtlRequest, AtlRelease, EngineUp
<1> HIDE DEF x
<1>5. inbox' \in Seq(AgpsMessages)
  BY Zenon, <1>1, <1>2, <1>3, AppendIndices
<1>6. "closing" \in ConnStates
  BY Zenon DEF ConnStates
<1>7. conn' \in [Ids -> ConnStates] /\ conn'[a] = "closing" /\ \A id \in Ids : id # a => conn'[id] = conn[id]
  BY Zenon, <1>1, <1>2, <1>6
<1>8. ASSUME NEW id \in Ids \ EsIds
      PROVE  Agree(id, inbox', id \in IdsOf(subs["agnss"]), nif["agnss"], conn'[id])
  <2> DEFINE held == id \in IdsOf(subs["agnss"])
  <2>1. Agree(id, inbox, held, nif["agnss"], conn[id])
    BY Zenon DEF AgpsInv
  <2> HIDE DEF held
  <2>2. CASE id = a
    <3>1. Agree(a, inbox, held, nif["agnss"], conn[a]) /\ AtlRelease(a) \in AgpsMessages
      BY Zenon, <1>3, <2>1, <2>2 DEF x
    <3>2. Agree(a, Append(inbox, AtlRelease(a)), held, nif["agnss"], "closing")
      BY Zenon, <1>1, <1>2, <3>1, ReleaseAdds
    <3> QED BY Zenon, <1>2, <1>7, <2>2, <3>2 DEF held, x
  <2>3. CASE id # a
    <3>1. Agree(id, Append(inbox, x), held, nif["agnss"], conn[id])
      BY Zenon, <1>1, <1>3, <1>4, <2>1, <2>3, AppendNeutral
    <3> QED BY Zenon, <1>2, <1>7, <2>3, <3>1 DEF held
  <2> QED BY Zenon, <2>2, <2>3
<1> QED BY Zenon, <1>1, <1>2, <1>5, <1>7, <1>8, Posted

LEMMA ModemRestartsKeeps ==
  ASSUME AgpsInv, ModemRestarts
  PROVE  AgpsInv'
<1>1. AgpsTypes /\ inbox \in Seq(AgpsMessages) /\ dsCall \in DsCallStates
  BY Zenon DEF AgpsInv, AgpsTypes
<1>2. /\ conn' = [id \in Ids |-> "idle"] /\ inbox' = Append(inbox, EngineUp)
      /\ nif' = nif /\ subs' = subs /\ dsCall' = dsCall /\ mRetries' = mRetries
  BY Zenon DEF ModemRestarts, Post, EngineUp
<1>3. EngineUp \in AgpsMessages
  BY Zenon DEF AgpsMessages
<1>4. inbox' \in Seq(AgpsMessages)
  BY Zenon, <1>1, <1>2, <1>3, AppendIndices
<1>5. "idle" \in ConnStates
  BY Zenon DEF ConnStates
<1>6. conn' \in [Ids -> ConnStates] /\ \A id \in Ids : conn'[id] = "idle"
  BY Zenon, <1>2, <1>5
<1>7. ASSUME NEW id \in Ids \ EsIds
      PROVE  Agree(id, inbox', id \in IdsOf(subs["agnss"]), nif["agnss"], conn'[id])
  <2> DEFINE held == id \in IdsOf(subs["agnss"])
  <2>1. Agree(id, inbox, held, nif["agnss"], conn[id])
    BY Zenon DEF AgpsInv
  <2> HIDE DEF held
  <2>2. Agree(id, Append(inbox, EngineUp), held, nif["agnss"], "idle")
    BY Zenon, <1>1, <1>3, <2>1, RestartAdds
  <2> QED BY Zenon, <1>2, <1>6, <2>2 DEF held
<1> QED BY Zenon, <1>1, <1>2, <1>4, <1>6, <1>7, Posted

LEMMA AgpsStarts ==
  ASSUME AgpsInit
  PROVE  AgpsInv
<1>1. "agnss" \in Machines /\ "ds" \in Machines
  BY Zenon DEF Machines
<1>2. /\ << >> \in Seq(AtlSubscribers) /\ << >> \in Seq(AgpsMessages) /\ DOMAIN << >> = {}
      /\ 0 \in 0..MAX_START_DATA_CALL_RETRIES
  BY RetryLimit
<1>3. "released" \in NifStates /\ "idle" \in ConnStates /\ "down" \in DsCallStates /\ "released" # "releasing"
  BY Zenon DEF NifStates, ConnStates, DsCallStates
<1>4. /\ nif = [m \in Machines |-> "released"] /\ subs = [m \in Machines |-> << >>]
      /\ conn = [id \in Ids |-> "idle"] /\ inbox = << >> /\ dsCall = "down" /\ mRetries = 0
  BY Zenon DEF AgpsInit
<1>5. nif["agnss"] = "released" /\ nif["ds"] = "released" /\ subs["agnss"] = << >> /\ subs["ds"] = << >>
  BY Zenon, <1>1, <1>4
<1>6. AgnssOK("released", << >>) /\ IdsOf(<< >>) = {} /\ DsOK("released", << >>)
  BY Zenon, <1>3, NoSubscribers, DsNobody
<1>7. AgpsTypes
  BY Zenon, <1>2, <1>3, <1>4, <1>5, <1>6 DEF AgpsTypes
<1>8. ASSUME NEW id \in Ids \ EsIds
      PROVE  Agree(id, inbox, id \in IdsOf(subs["agnss"]), nif["agnss"], conn[id])
  <2>1. DOMAIN inbox = {} /\ conn[id] = "idle" /\ id \notin IdsOf(subs["agnss"])
    BY Zenon, <1>2, <1>4, <1>5, <1>6
  <2> QED BY Zenon, <2>1 DEF Agree, WellQueued, Blocked, Waits, Fresh, Settled
<1> QED BY Zenon, <1>7, <1>8 DEF AgpsInv

LEMMA AgpsStep ==
  ASSUME AgpsInv, [AgpsNext]_agpsVars
  PROVE  AgpsInv'
<1>1. CASE EngineThread
  BY Zenon, <1>1, RequestTaken, ReleaseTaken, AnswerTaken, RestartTaken, EmergencyTaken DEF EngineThread
<1>2. CASE retryCallback
  BY Zenon, <1>2, RetryKeeps
<1>3. ASSUME NEW id \in Ids, ModemAsks(id) \/ ModemReleases(id)
      PROVE  AgpsInv'
  BY Zenon, <1>3, ModemAsksKeeps, ModemReleasesKeeps
<1>4. CASE ModemRestarts
  BY Zenon, <1>4, ModemRestartsKeeps
<1>5. CASE FrameworkAnswers \/ DataServiceReports \/ DataServiceDrops
  BY Zenon, <1>5, OutsideKeeps
<1>6. CASE UNCHANGED agpsVars
  <2>1. /\ nif' = nif /\ subs' = subs /\ conn' = conn /\ inbox' = inbox /\ dsCall' = dsCall
        /\ mRetries' = mRetries
    BY Zenon, <1>6 DEF agpsVars
  <2>2. inbox \in Seq(AgpsMessages) /\ conn \in [Ids -> ConnStates] /\ dsCall \in DsCallStates
    BY Zenon DEF AgpsInv, AgpsTypes
  <2> QED BY Zenon, <2>1, <2>2, Posted DEF AgpsInv
<1> QED BY Zenon, <1>1, <1>2, <1>3, <1>4, <1>5, <1>6 DEF AgpsNext

\* What the invariant says of a handle no message is waiting for.
LEMMA AgpsAgrees ==
  ASSUME AgpsInv
  PROVE  ModemAgrees
<1>1. AgpsTypeOK
  BY Zenon DEF AgpsInv, AgpsTypes, AgpsTypeOK, NifStates, ConnStates, DsCallStates, AgnssOK, DsOK, DistinctIds, Machines
<1>2. ASSUME NEW id \in Ids \ EsIds, ~UnderWay(id)
      PROVE  /\ (id \in IdsOf(subs["agnss"])) = (conn[id] \in {"asked", "open"})
             /\ conn[id] = "asked" => nif["agnss"] = "pending"
             /\ conn[id] = "open" => nif["agnss"] = "acquired"
  <2> DEFINE held == id \in IdsOf(subs["agnss"])
  <2>1. ~Waits(inbox, AtlRequest(id)) /\ ~Waits(inbox, AtlRelease(id)) /\ ~Waits(inbox, EngineUp)
    BY Zenon, <1>2 DEF UnderWay, Waits, AtlRequest, AtlRelease, EngineUp
  <2>2. Settled(FALSE, FALSE, held, nif["agnss"], conn[id])
    BY Zenon, <2>1 DEF AgpsInv, Agree, Settled
  <2> HIDE DEF held
  <2>3. \/ conn[id] = "idle" /\ ~held
        \/ conn[id] = "asked" /\ held /\ nif["agnss"] = "pending"
        \/ conn[id] = "open" /\ held /\ nif["agnss"] = "acquired"
    BY Zenon, <2>2 DEF Settled
  <2>4. held <=> conn[id] \in {"asked", "open"}
    BY <2>3
  <2>5. conn[id] = "asked" => nif["agnss"] = "pending"
    BY <2>3
  <2>6. conn[id] = "open" => nif["agnss"] = "acquired"
    BY <2>3
  <2>7. (id \in IdsOf(subs["agnss"])) <=> conn[id] \in {"asked", "open"}
    BY Zenon, <2>4 DEF held
  <2> QED BY <2>5, <2>6, <2>7
<1> QED BY Zenon, <1>1, <1>2 DEF ModemAgrees

\* Whatever the modem, the framework, the data service and the retry timer do, however
\* many handles there are and however long the queue grows, the engine (LocEngRequestATL,
\* LocEngReleaseATL and AgpsStateMachine::onRsrcEvent) never loses track of a connection:
\* once nothing is waiting about a handle, agnss has a subscriber for it exactly if the
\* modem asked for it or has it open, and it is open exactly while the connection is.
THEOREM ModemAndEngineAgree == AgpsSpec => []ModemAgrees
<1>1. AgpsInit => AgpsInv
  BY AgpsStarts
<1>2. AgpsInv /\ [AgpsNext]_agpsVars => AgpsInv'
  BY AgpsStep
<1>3. AgpsInv => ModemAgrees
  BY AgpsAgrees
<1> QED BY <1>1, <1>2, <1>3, PTL DEF AgpsSpec

===============================================================================
