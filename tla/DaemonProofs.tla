----------------------------- MODULE DaemonProofs -----------------------------
(***************************************************************************)
(* Proofs about the daemons between Android and the modem.  In rild, the   *)
(* queue of the SAP service (RilSap); the file transfers (FileTransfer);   *)
(* the helper that boots and dumps the modem (ModemHelper).  In IPACM,     *)
(* NatApp with the listener for connection tracking that drives it         *)
(* (ConntrackListener): every rule of the hardware table has an entry of   *)
(* the cache that can delete it, a connection has one entry, and the table *)
(* in use has the address of the WAN.                                      *)
(***************************************************************************)
EXTENDS RilSap, FileTransfer, ModemHelper, ConntrackListener,
        FiniteSetTheorems, NaturalsInduction, WellFoundedInduction, TLAPS

------------------------------------------------------------------------------
(* Sequences. *)

\* The length and the elements of a sequence.
LEMMA SeqLen ==
  ASSUME NEW S, NEW s \in Seq(S)
  PROVE  /\ Len(s) \in Nat /\ DOMAIN s = 1 .. Len(s)
         /\ s \in [1 .. Len(s) -> S] /\ \A i \in 1 .. Len(s) : s[i] \in S
OBVIOUS

\* A part of a sequence.
LEMMA SeqPart ==
  ASSUME NEW S, NEW s \in Seq(S), NEW m \in 1 .. Len(s) + 1, NEW n \in m - 1 .. Len(s)
  PROVE  /\ SubSeq(s, m, n) \in Seq(S) /\ Len(SubSeq(s, m, n)) = n - m + 1
         /\ \A i \in 1 .. n - m + 1 : SubSeq(s, m, n)[i] = s[m + i - 1]
OBVIOUS

\* One sequence behind another.
LEMMA SeqJoin ==
  ASSUME NEW S, NEW s \in Seq(S), NEW t \in Seq(S)
  PROVE  /\ s \o t \in Seq(S) /\ Len(s \o t) = Len(s) + Len(t)
         /\ \A i \in 1 .. Len(s) + Len(t) : (s \o t)[i] = IF i <= Len(s) THEN s[i] ELSE t[i - Len(s)]
OBVIOUS

\* The first of a sequence, and the others.
LEMMA SeqRest ==
  ASSUME NEW S, NEW s \in Seq(S), s # << >>
  PROVE  /\ Head(s) \in S /\ Tail(s) \in Seq(S) /\ Len(Tail(s)) = Len(s) - 1
         /\ \A i \in 1 .. Len(Tail(s)) : Tail(s)[i] = s[i + 1]
OBVIOUS

\* An element at the end of a sequence.
LEMMA SeqMore ==
  ASSUME NEW S, NEW s \in Seq(S), NEW e \in S
  PROVE  /\ Append(s, e) \in Seq(S) /\ Len(Append(s, e)) = Len(s) + 1
         /\ \A i \in 1 .. Len(s) : Append(s, e)[i] = s[i]
         /\ Append(s, e)[Len(s) + 1] = e
OBVIOUS

------------------------------------------------------------------------------
(* The SAP service. *)

\* A queue without repetitions.
Injective(s) == \A i, j \in DOMAIN s : s[i] = s[j] => i = j

\* A queue without its k-th entry.
RemoveAt(s, k) == SubSeq(s, 1, k - 1) \o SubSeq(s, k + 1, Len(s))

\* Taking an entry out of a queue without repetitions leaves exactly the
\* others: what checkAndDequeue relies on when it unlinks a request.
LEMMA RemoveAtProperties ==
  ASSUME NEW S, NEW q \in Seq(S), Injective(q), NEW k \in DOMAIN q
  PROVE  /\ RemoveAt(q, k) \in Seq(S)
         /\ Injective(RemoveAt(q, k))
         /\ Range(RemoveAt(q, k)) = Range(q) \ {q[k]}
<1> DEFINE r == RemoveAt(q, k)
<1>1. k \in 1..Len(q) /\ Len(q) \in Nat
  BY Zenon, SeqLen
<1>2. /\ SubSeq(q, 1, k-1) \in Seq(S) /\ Len(SubSeq(q, 1, k-1)) = k - 1
      /\ \A i \in 1..(k-1) : SubSeq(q, 1, k-1)[i] = q[i]
  BY <1>1, SeqPart
<1>3. /\ SubSeq(q, k+1, Len(q)) \in Seq(S) /\ Len(SubSeq(q, k+1, Len(q))) = Len(q) - k
      /\ \A i \in 1..(Len(q) - k) : SubSeq(q, k+1, Len(q))[i] = q[k + i]
  BY SMTT(30), <1>1, SeqPart
<1>4. /\ r \in Seq(S) /\ Len(r) = Len(q) - 1 /\ DOMAIN r = 1..(Len(q) - 1)
      /\ \A i \in 1..(Len(q) - 1) : r[i] = IF i < k THEN q[i] ELSE q[i + 1]
  <2> DEFINE a == SubSeq(q, 1, k-1)
             b == SubSeq(q, k+1, Len(q))
  <2>1. r = a \o b
    BY Zenon DEF RemoveAt
  <2>2. /\ a \in Seq(S) /\ Len(a) = k - 1 /\ \A i \in 1..(k-1) : a[i] = q[i]
    BY Zenon, <1>2
  <2>3. /\ b \in Seq(S) /\ Len(b) = Len(q) - k /\ \A i \in 1..(Len(q) - k) : b[i] = q[k + i]
    BY Zenon, <1>3
  <2> HIDE DEF a, b, r
  <2>4. /\ r \in Seq(S) /\ Len(r) = Len(a) + Len(b)
        /\ \A i \in 1..(Len(a) + Len(b)) : r[i] = IF i <= Len(a) THEN a[i] ELSE b[i - Len(a)]
    BY Zenon, <2>1, <2>2, <2>3, SeqJoin
  <2>5. ASSUME NEW i \in 1..(Len(q) - 1) PROVE r[i] = IF i < k THEN q[i] ELSE q[i + 1]
    <3>1. i \in 1..(Len(a) + Len(b)) /\ Len(a) = k - 1
      BY SMTT(30), <1>1, <2>2, <2>3
    <3>2. r[i] = IF i <= k - 1 THEN a[i] ELSE b[i - (k - 1)]
      BY Zenon, <3>1, <2>4
    <3>3. CASE i < k
      BY SMTT(30), <3>3, <1>1, <2>2, <3>2
    <3>4. CASE i >= k
      <4>1. r[i] = b[i - (k - 1)]
        BY <3>4, <1>1, <3>2
      <4>2. i - (k - 1) \in 1..(Len(q) - k) /\ k + (i - (k - 1)) = i + 1
        BY <3>4, <1>1
      <4>3. b[i - (k - 1)] = q[k + (i - (k - 1))]
        BY Zenon, <2>3, <4>2
      <4>4. ~(i < k)
        BY <3>4, <1>1
      <4> QED BY Zenon, <4>1, <4>2, <4>3, <4>4
    <3>5. i < k \/ i >= k
      BY <1>1
    <3> QED BY Zenon, <3>3, <3>4, <3>5
  <2> QED BY SMTT(30), <1>1, <2>2, <2>3, <2>4, <2>5, SeqLen
<1> HIDE DEF r
<1>5. Injective(r)
  <2> SUFFICES ASSUME NEW i \in DOMAIN r, NEW j \in DOMAIN r, r[i] = r[j] PROVE i = j
    BY Zenon DEF Injective
  <2> DEFINE f(n) == IF n < k THEN n ELSE n + 1
  <2>1. f(i) \in DOMAIN q /\ f(j) \in DOMAIN q /\ q[f(i)] = r[i] /\ q[f(j)] = r[j]
    BY SMTT(30), <1>1, <1>4, SeqLen
  <2>2. f(i) = f(j)
    BY Zenon, <2>1 DEF Injective
  <2> QED BY <2>2, <1>1, <1>4
<1>6. Range(r) \subseteq Range(q) \ {q[k]}
  BY SMTT(30), <1>1, <1>4 DEF Range, Injective
<1>7. ASSUME NEW i \in DOMAIN q, q[i] # q[k] PROVE q[i] \in Range(r)
  <2>1. CASE i < k
    BY SMTT(30), <2>1, <1>1, <1>4, r[i] = q[i], i \in DOMAIN r DEF Range
  <2>2. CASE i > k
    BY SMTT(30), <2>2, <1>1, <1>4, r[i-1] = q[i], i-1 \in DOMAIN r DEF Range
  <2> QED BY <2>1, <2>2, <1>1, <1>7
<1>8. Range(r) = Range(q) \ {q[k]}
  BY Zenon, <1>6, <1>7 DEF Range
<1> QED BY Zenon, <1>4, <1>5, <1>8 DEF r

\* The entries of the queue: a message with its token.
SapRequests == (DOMAIN AnswerTo) \X Tokens

\* The inductive invariant: requests are in the queue once
\* (RIL_SAP_processRequest's caller never repeats a message with a token that
\* is pending), and one the vendor has answered is no longer with it.
PendingInv ==
  /\ queue \in Seq(SapRequests)
  /\ Injective(queue)
  /\ atVendor \cap answered = {}
  /\ PendingMatchesVendor

\* Nothing is pending when the service starts.
LEMMA PendingInit == SapInit => PendingInv
  BY DEF SapInit, PendingInv, PendingMatchesVendor, Injective, Range

\* A request that is dispatched to the vendor is put at the head of the queue;
\* one that fails before that leaves the queue as it was.
LEMMA RequestPending ==
  ASSUME PendingInv, NEW message \in DOMAIN AnswerTo, NEW token \in Tokens, Request(message, token)
  PROVE  PendingInv'
<1> DEFINE e == <<message, token>>
<1>1. e \in SapRequests
  BY Zenon DEF SapRequests
<1>2. UNCHANGED answered /\ (UNCHANGED <<queue, atVendor>> \/ (queue' = <<e>> \o queue /\ atVendor' = atVendor \cup {e}))
  BY Zenon DEF Request, addPayloadAndDispatchRequest, dispatchRequest, enqueue
<1>3. CASE UNCHANGED <<queue, atVendor>>
  BY Zenon, <1>2, <1>3 DEF PendingInv, PendingMatchesVendor, Injective, Range
<1>4. CASE queue' = <<e>> \o queue /\ atVendor' = atVendor \cup {e}
  <2>1. e \notin Range(queue)
    BY Zenon, SeqLen DEF Request, Range, PendingInv
  <2>2. /\ queue' \in Seq(SapRequests) /\ Len(queue') = Len(queue) + 1 /\ Len(queue) \in Nat
        /\ DOMAIN queue' = 1..(Len(queue)+1)
        /\ queue'[1] = e /\ \A i \in 1..Len(queue) : queue'[i+1] = queue[i]
    BY SMTT(30), <1>1, <1>4, SeqJoin, SeqLen DEF PendingInv
  <2>3. \A i \in DOMAIN queue' : i = 1 \/ (i - 1 \in DOMAIN queue /\ queue'[i] = queue[i-1])
    BY SMTT(30), <2>2, SeqLen DEF PendingInv
  <2>4. Injective(queue')
    <3> SUFFICES ASSUME NEW i \in DOMAIN queue', NEW j \in DOMAIN queue', queue'[i] = queue'[j]
    PROVE  i = j
      BY Zenon DEF Injective
    <3>1. i = 1 \/ queue'[i] # e
      BY Zenon, <2>1, <2>3 DEF Range
    <3>2. j = 1 \/ queue'[j] # e
      BY Zenon, <2>1, <2>3 DEF Range
    <3>3. i = 1 <=> j = 1
      BY Zenon, <3>1, <3>2, <2>2
    <3>4. CASE i # 1 /\ j # 1
      <4>1. i - 1 = j - 1
        BY Zenon, <2>3, <3>4 DEF Injective, PendingInv
      <4> QED BY SMTT(30), <4>1, <2>2
    <3> QED BY Zenon, <3>3, <3>4
  <2>5. Range(queue') \subseteq Range(queue) \cup {e}
    <3>1. ASSUME NEW i \in DOMAIN queue' PROVE queue'[i] \in Range(queue) \cup {e}
      BY Zenon, <2>2, <2>3 DEF Range
    <3> QED BY Zenon, <3>1 DEF Range
  <2>6. Range(queue) \cup {e} \subseteq Range(queue')
    <3>1. 1 \in DOMAIN queue' /\ \A i \in DOMAIN queue : i + 1 \in DOMAIN queue' /\ queue'[i+1] = queue[i]
      BY SMTT(30), <2>2, SeqLen DEF PendingInv
    <3> QED BY Zenon, <3>1, <2>2 DEF Range
  <2> QED BY ZenonT(30), <1>2, <1>4, <2>1, <2>2, <2>4, <2>5, <2>6 DEF PendingInv, PendingMatchesVendor
<1> QED BY Zenon, <1>2, <1>3, <1>4

\* Every step of the service, of its client and of the vendor keeps the queue
\* in step with the vendor.
LEMMA PendingStep == PendingInv /\ [SapNext]_sapVars => PendingInv'
<1> SUFFICES ASSUME PendingInv, [SapNext]_sapVars PROVE PendingInv'
  BY Zenon
<1> USE DEF PendingInv
<1>1. ASSUME UNCHANGED <<queue, atVendor, answered>> PROVE PendingInv'
  BY Zenon, <1>1 DEF PendingMatchesVendor, Injective, Range
<1>2. CASE ClientDown \/ setCallback \/ UNCHANGED sapVars
  BY Zenon, <1>1, <1>2 DEF ClientDown, setCallback, sapVars
<1>3. ASSUME NEW token \in Tokens, NEW message \in DOMAIN AnswerTo, Request(message, token)
      PROVE  PendingInv'
  BY Zenon, <1>3, RequestPending
<1>4. ASSUME NEW request \in atVendor, NEW outcome, onRequestComplete(request, outcome)
      PROVE  PendingInv'
  <2>1. queue' = queue /\ atVendor' = atVendor \ {request} /\ answered' = answered \cup {request}
    BY Zenon, <1>4 DEF onRequestComplete
  <2> QED BY Zenon, <2>1, <1>4 DEF PendingMatchesVendor, Injective, Range
<1>5. ASSUME NEW request \in answered, checkAndDequeue(request) PROVE PendingInv'
  <2> DEFINE matches == {i \in DOMAIN queue : queue[i] = request}
  <2>1. PICK k \in DOMAIN queue : queue[k] = request
    BY Zenon DEF PendingMatchesVendor, Range
  <2>2. matches = {k}
    BY Zenon, <2>1 DEF Injective
  <2>3. (CHOOSE i \in matches : \A j \in matches : i <= j) = k
    BY <2>1, <2>2, SeqLen
  <2>4. queue' = RemoveAt(queue, k) /\ answered' = answered \ {request} /\ atVendor' = atVendor
    BY Zenon, <1>5, <2>2, <2>3 DEF checkAndDequeue, WithoutFirst, RemoveAt
  <2>5. /\ queue' \in Seq(SapRequests) /\ Injective(queue') /\ Range(queue') = Range(queue) \ {request}
    BY Zenon, <2>1, <2>4, RemoveAtProperties
  <2> QED BY Zenon, <2>4, <2>5, <1>5 DEF PendingMatchesVendor
<1>6. ASSUME NEW f, NEW decodes, onUnsolicitedResponse(f, decodes) PROVE PendingInv'
  BY Zenon, <1>1, <1>6 DEF onUnsolicitedResponse
<1>7. {"CONNECT", "DISCONNECT", "APDU", "TRANSFER_ATR", "POWER", "RESET_SIM", "TRANSFER_CARD_READER_STATUS",
       "SET_TRANSFER_PROTOCOL"} \subseteq DOMAIN AnswerTo
  BY Zenon DEF AnswerTo
<1> QED
  BY ZenonT(30), <1>2, <1>3, <1>4, <1>5, <1>6, <1>7 DEF SapNext, connectReq, disconnectReq, apduReq,
     transferAtrReq,
     powerReq, resetSimReq, transferCardReaderStatusReq, setTransferProtocolReq

\* For any set of tokens: the queue of the SAP service holds exactly the
\* requests that are with the vendor or whose answer is on its way, so that an
\* answer always finds its request (sap_service.cpp, checkAndDequeue).
THEOREM SapQueueMatchesVendor == SapSpec => []PendingMatchesVendor
<1>1. PendingInv => PendingMatchesVendor
  BY DEF PendingInv
<1> QED BY <1>1, PendingInit, PendingStep, PTL DEF SapSpec

------------------------------------------------------------------------------
(* File transfers to the modem. *)

\* The phases of each job, ended ones included.
PhasesOf(j) ==
  CASE j = "dump"   -> {"ping", "param", "query", "read", "reping", "end"}
    [] j = "hex"    -> {"ping", "param", "write", "go", "end"}
    [] j = "stream" -> {"ping", "stream", "reset", "end"}

\* A packet that writes names a block of the file.
Carried(p) == p[1] \in {"WRITE", "STREAM"} => p[2] \in 0 .. Blocks - 1

\* The first word of a packet or an answer.
Commands == {"HELLO", "NOP", "PARAM", "QUERY", "READ", "WRITE", "GO", "STREAM", "RESET", "ACK"}

\* The packets and the answers to them.
Packets == {p \in Commands \X (0 .. Blocks) : Carried(p)}

\* The host's phase and block: it ends well only after the last block.
HostInv ==
  /\ job \in {"dump", "hex", "stream"}
  /\ phase \in PhasesOf(job)
  /\ block \in 0 .. Blocks
  /\ phase \notin {"go", "reset", "end"} => block < Blocks
  /\ phase = "reset" => block = Blocks
  /\ result = "ok" => phase = "end"
  /\ result = "ok" /\ job # "hex" => block = Blocks

\* What is on the line, and what the target has stored, are blocks of the
\* file.
LineInv ==
  /\ toTarget \in Seq(Packets) /\ toHost \in Seq(Packets)
  /\ written \subseteq 0 .. Blocks - 1

\* What the target says it has stored, and what the host has taken its word
\* for, is stored.
StoredInv ==
  /\ \A i \in DOMAIN toHost : toHost[i][1] = "STREAM" => toHost[i][2] \in written
  /\ job = "stream" => 0 .. block - 1 \subseteq written

\* A dump has taken the blocks before the current one, in order, once each.
DumpInv == job = "dump" => dumped = [k \in 1 .. block |-> k - 1]

\* The inductive invariant of the transfers. TransferExact speaks of transfers
\* that have ended; the invariant says what is true of the blocks before the
\* current one, and that no answer on the line vouches for a block the target
\* has not stored.
TransferInv == HostInv /\ LineInv /\ StoredInv /\ DumpInv

\* The invariant holds when a job begins.
LEMMA TransferInitInv == TransferInit => TransferInv
  BY TransferAssumption DEF TransferInit, TransferInv, HostInv, LineInv, StoredInv, DumpInv,
     PhasesOf

\* What the host does with an answer that the target had the right to give
\* keeps the host's part of the invariant.
LEMMA HandleInv ==
  ASSUME TransferInv, NEW r, r[1] = "STREAM" => r[2] \in written, Handle(r), UNCHANGED written
  PROVE  HostInv' /\ DumpInv' /\ (job' = "stream" => 0 .. block' - 1 \subseteq written)
<1> DEFINE Claim == HostInv' /\ DumpInv' /\ (job' = "stream" => 0 .. block' - 1 \subseteq written)
<1> USE TransferAssumption DEF TransferInv
<1>1. ASSUME NEW p \in PhasesOf(job), Enter(p), phase \notin {"go", "reset", "end"},
             p \notin {"go", "reset", "end"}
      PROVE  Claim
  BY Zenon, <1>1 DEF Enter, HostInv, DumpInv, StoredInv
<1>2. ASSUME Again PROVE Claim
  BY Zenon, <1>2 DEF Again, HostInv, DumpInv, StoredInv
<1>3. ASSUME End("failed") PROVE Claim
  BY Zenon, <1>3 DEF End, HostInv, DumpInv, StoredInv, PhasesOf
<1>4. ASSUME End("ok"), phase \in {"go", "reset"} PROVE Claim
  BY Zenon, <1>4 DEF End, HostInv, DumpInv, StoredInv, PhasesOf
<1>5. ASSUME NEW next \in PhasesOf(job), NextBlock(next), phase \in {"write", "stream"},
             job = "stream" => block \in written, next \in {"go", "reset"}
      PROVE  Claim
  <2>1. block' = block + 1 /\ UNCHANGED <<job, result, dumped>> /\ job # "dump" /\ block < Blocks
    BY Zenon, <1>5 DEF NextBlock, HostInv, PhasesOf
  <2>2. phase' = IF block + 1 = Blocks THEN next ELSE phase
    BY Zenon, <1>5 DEF NextBlock
  <2>3. HostInv'
    BY <1>5, <2>1, <2>2 DEF HostInv, PhasesOf
  <2>4. DumpInv'
    BY Zenon, <2>1 DEF DumpInv
  <2>5. job' = "stream" => 0 .. block' - 1 \subseteq written
    BY <1>5, <2>1 DEF StoredInv, HostInv
  <2> QED BY Zenon, <2>3, <2>4, <2>5
<1>6. CASE phase = "ping" /\ Ping(r)
  <2>1. "param" \in PhasesOf(job) \/ job = "stream"
    BY Zenon DEF PhasesOf, HostInv
  <2>2. job = "stream" => "stream" \in PhasesOf(job)
    BY Zenon DEF PhasesOf
  <2> QED BY Zenon, <1>1, <1>2, <1>3, <1>6, <2>1, <2>2 DEF Ping, streaming_ping_target, dload_ping_target
<1>7. CASE phase = "param" /\ Param(r)
  <2>1. job = "dump" => "query" \in PhasesOf(job)
    BY Zenon DEF PhasesOf
  <2>2. job # "dump" => "write" \in PhasesOf(job)
    BY Zenon, <1>7 DEF PhasesOf, HostInv
  <2> QED BY Zenon, <1>1, <1>3, <1>7, <2>1, <2>2 DEF Param
<1>8. CASE phase = "query" /\ Query(r)
  <2>1. "read" \in PhasesOf(job)
    BY Zenon, <1>8 DEF PhasesOf, HostInv
  <2> QED BY Zenon, <1>1, <1>3, <1>8, <2>1 DEF Query
<1>9. CASE phase = "read" /\ ReadBlock(r)
  <2>1. job = "dump" /\ {"read", "reping"} \subseteq PhasesOf(job) /\ block < Blocks
    BY Zenon, <1>9 DEF PhasesOf, HostInv
  <2>2. CASE Enter("reping") \/ Enter("read")
    BY Zenon, <1>1, <1>9, <2>1, <2>2
  <2>3. CASE /\ r[2] = block /\ dumped' = Append(dumped, r[2]) /\ block' = block + 1
             /\ phase' = IF block + 1 = Blocks THEN "end" ELSE "read"
             /\ result' = IF block + 1 = Blocks THEN "ok" ELSE "none"
             /\ UNCHANGED job
    <3>1. HostInv'
      BY <2>1, <2>3 DEF HostInv, PhasesOf
    <3>2. DumpInv'
      <4>1. block \in Nat /\ dumped = [k \in 1 .. block |-> k - 1]
        BY <2>1 DEF HostInv, DumpInv
      <4>2. dumped \in Seq(Int) /\ Len(dumped) = block
        BY <4>1
      <4>3. Append(dumped, block) = [k \in 1 .. block + 1 |-> k - 1]
        BY <4>1, <4>2
      <4> QED BY Zenon, <2>3, <4>3 DEF DumpInv
    <3> QED BY Zenon, <2>1, <2>3, <3>1, <3>2
  <2> QED BY Zenon, <1>9, <2>2, <2>3 DEF ReadBlock
<1>10. CASE phase = "reping" /\ dload_ping_target(r, "read")
  <2>1. "read" \in PhasesOf(job)
    BY Zenon, <1>10 DEF PhasesOf, HostInv
  <2> QED BY Zenon, <1>1, <1>2, <1>3, <1>10, <2>1 DEF dload_ping_target
<1>11. CASE phase = "write" /\ WriteBlock(r)
  <2>1. job = "hex" /\ "go" \in PhasesOf(job)
    BY Zenon, <1>11 DEF PhasesOf, HostInv
  <2> QED BY Zenon, <1>2, <1>3, <1>5, <1>11, <2>1 DEF WriteBlock
<1>12. CASE phase = "stream" /\ StreamBlock(r)
  <2>1. {"stream", "reset"} \subseteq PhasesOf(job)
    BY Zenon, <1>12 DEF PhasesOf, HostInv
  <2> QED BY Zenon, <1>1, <1>2, <1>3, <1>5, <1>12, <2>1 DEF StreamBlock
<1>13. CASE phase \in {"go", "reset"} /\ End("ok")
  BY Zenon, <1>4, <1>13
<1> QED BY Zenon, <1>6, <1>7, <1>8, <1>9, <1>10, <1>11, <1>12, <1>13 DEF Handle

\* The fields of a packet.
LEMMA PacketsHave ==
  ASSUME NEW c \in Commands, NEW b \in 0 .. Blocks, c \in {"WRITE", "STREAM"} => b < Blocks
  PROVE  <<c, b>> \in Packets
  BY TransferAssumption DEF Packets, Carried

\* Every step of the host, of the line and of the target keeps the invariant.
LEMMA TransferStep == TransferInv /\ [TransferNext]_transferVars => TransferInv'
<1> SUFFICES ASSUME TransferInv, [TransferNext]_transferVars PROVE TransferInv'
  BY Zenon
<1> USE TransferAssumption DEF TransferInv
<1>1. CASE Send
  <2>1. Packet \in Packets
    <3>1. phase \in {"ping", "param", "query", "read", "reping", "write", "go", "stream", "reset"}
      BY Zenon, <1>1 DEF Send, HostInv, PhasesOf
    <3>2. CASE phase \in {"read", "write", "stream"}
      BY Zenon, <3>2, PacketsHave DEF Packet, HostInv, Commands
    <3>3. CASE phase \in {"param", "query", "reping", "go", "reset"}
      BY <3>3, PacketsHave DEF Packet, Commands
    <3>4. CASE phase = "ping"
      BY <3>4, PacketsHave DEF Packet, Commands
    <3> QED BY Zenon, <3>1, <3>2, <3>3, <3>4
  <2>2. toTarget' = Append(toTarget, Packet) /\ toHost' = << >> /\ UNCHANGED <<job, phase, block, result, dumped, written>>
    BY Zenon, <1>1 DEF Send, tx_data
  <2>3. LineInv'
    BY <2>1, <2>2, SeqMore DEF LineInv
  <2> QED BY <2>2, <2>3 DEF HostInv, StoredInv, DumpInv
<1>2. CASE Receive
  <2>1. PICK n \in 1 .. Len(toHost) : Handle(Decoded(n)) /\ toHost' = SubSeq(toHost, n + 1, Len(toHost))
    BY Zenon, <1>2 DEF Receive
  <2>2. toHost # << >> /\ UNCHANGED <<toTarget, written>>
    BY Zenon, <1>2 DEF Receive
  <2>3. toHost[1][1] = "STREAM" => toHost[1][2] \in written
    BY <2>2 DEF StoredInv, LineInv
  <2>4. Decoded(n)[1] = "STREAM" => Decoded(n)[2] \in written
    BY Zenon, <2>3 DEF Decoded, NoAnswer
  <2>5. HostInv' /\ DumpInv' /\ (job' = "stream" => 0 .. block' - 1 \subseteq written)
    BY Zenon, <2>1, <2>2, <2>4, HandleInv
  <2>6. /\ toHost' \in Seq(Packets) /\ Len(toHost') = Len(toHost) - n /\ Len(toHost) \in Nat
        /\ \A i \in DOMAIN toHost' : i \in 1 .. Len(toHost) - n /\ toHost'[i] = toHost[n + i]
    BY <2>1, SeqPart, SeqLen DEF LineInv
  <2>7. \A i \in DOMAIN toHost' : n + i \in DOMAIN toHost
    BY SMTT(30), <2>1, <2>6, SeqLen DEF LineInv
  <2> QED BY Zenon, <2>2, <2>5, <2>6, <2>7 DEF LineInv, StoredInv
<1>3. CASE Timeout
  <2>1. Handle(NoAnswer) /\ UNCHANGED <<toTarget, toHost, written>> /\ NoAnswer[1] # "STREAM"
    BY Zenon, <1>3 DEF Timeout, NoAnswer
  <2>2. HostInv' /\ DumpInv' /\ (job' = "stream" => 0 .. block' - 1 \subseteq written)
    BY Zenon, <2>1, HandleInv
  <2> QED BY Zenon, <2>1, <2>2 DEF LineInv, StoredInv
<1>4. CASE TargetAnswers
  <2> DEFINE p == Head(toTarget)
  <2>1. p \in Packets /\ Tail(toTarget) \in Seq(Packets) /\ UNCHANGED hostVars
    BY <1>4 DEF TargetAnswers, LineInv
  <2>2. Answer(p) \in Packets
    BY <2>1, PacketsHave DEF Answer, Commands
  <2>3. /\ toTarget' = Tail(toTarget)
        /\ written' = IF p[1] \in {"WRITE", "STREAM"} THEN written \cup {p[2]} ELSE written
        /\ toHost' = Append(toHost, Answer(p)) \/ toHost' = toHost
    BY Zenon, <1>4 DEF TargetAnswers
  <2>4. written \subseteq written' /\ written' \subseteq 0 .. Blocks - 1
    BY Zenon, <2>1, <2>3 DEF LineInv, Packets, Carried
  <2>5. LineInv'
    <3>1. Append(toHost, Answer(p)) \in Seq(Packets)
      BY Zenon, <2>2, SeqMore DEF LineInv
    <3> QED BY Zenon, <2>1, <2>3, <2>4, <3>1 DEF LineInv
  <2>6. Answer(p)[1] = "STREAM" => Answer(p)[2] \in written'
    BY Zenon, <2>3 DEF Answer
  <2>7. StoredInv'
    <3>1. CASE toHost' = toHost
      BY Zenon, <2>1, <2>4, <3>1 DEF StoredInv, hostVars
    <3>2. CASE toHost' = Append(toHost, Answer(p))
      <4>1. \A i \in DOMAIN toHost' : (i \in DOMAIN toHost /\ toHost'[i] = toHost[i]) \/ toHost'[i] = Answer(p)
        BY <2>2, <3>2, SeqMore, SeqLen DEF LineInv
      <4> QED BY Zenon, <2>1, <2>4, <2>6, <4>1 DEF StoredInv, hostVars
    <3> QED BY Zenon, <2>3, <3>1, <3>2
  <2> QED BY Zenon, <2>1, <2>5, <2>7 DEF HostInv, DumpInv, hostVars
<1>5. CASE PacketLost
  BY <1>5 DEF PacketLost, HostInv, DumpInv, StoredInv, LineInv, hostVars
<1>6. CASE UNCHANGED transferVars
  BY Zenon, <1>6 DEF transferVars, hostVars, lineVars, HostInv, DumpInv, StoredInv, LineInv
<1> QED BY Zenon, <1>1, <1>2, <1>3, <1>4, <1>5, <1>6 DEF TransferNext

\* For any number of blocks and any bounds on losses, repetitions and retries:
\* a transfer that is reported done has moved every block, a dump in order and
\* once each, whatever the line loses, repeats or delays.
THEOREM TransfersExact == TransferSpec => []TransferExact
<1>1. TransferInv => TransferExact
  BY Zenon, TransferAssumption DEF TransferInv, TransferExact, StreamedComplete, DumpExact, HostInv,
     StoredInv, DumpInv, LineInv
<1> QED BY <1>1, TransferInitInv, TransferStep, PTL DEF TransferSpec

------------------------------------------------------------------------------
(* The modem's helper. *)

\* The places of the helper in each state.
PcsOf(s) ==
  CASE s = "POWERUP" -> {"register", "notify_retry", "wait_request", "wait_port", "sahara", "notify_done",
                         "poll", "runtime", "efs_port", "boot_done"}
    [] s = "RAMDUMP" -> {"notify_retry", "wait_request", "wait_port", "sahara", "notify_done", "monitor"}
    [] s = "SHUTDOWN" -> {"unbind", "monitor"}
    [] s = "POST_POWERUP" -> {"monitor"}
    [] OTHER -> {"stopped"}

\* The driver has no request for the helper.
Quiet == reqs = << >>

\* The driver has one request for the helper.
Asks(r) == reqs = <<r>>

\* The modem once it has run: up, crashed, or shut down and perhaps powered
\* again.
HasRun ==
  \/ modem = "up" /\ Quiet
  \/ modem = "dump" /\ Asks("DEBUG")
  \/ modem = "rom" /\ Asks("IMG")
  \/ modem = "off" /\ Asks("SHUTDOWN")
  \/ modem = "rom" /\ reqs = <<"SHUTDOWN", "IMG">>

\* Where the helper is in mdm_helper_init and in powering up, and what the
\* modem and the driver do meanwhile.
PowerupAgrees ==
  /\ hpc = "register" => (modem = "off" /\ Quiet) \/ (modem = "rom" /\ Asks("IMG"))
  /\ hpc = "notify_retry" => modem \in {"rom", "stumble"} /\ Quiet
  /\ hpc = "wait_request" => (modem = "rom" /\ Asks("IMG")) \/ (modem = "stumble" /\ Asks("DEBUG"))
  /\ hpc = "wait_port" => modem = "rom" /\ Quiet
  /\ hpc \in {"sahara", "notify_done"} => modem = (IF rcode = "ok" THEN "rom" ELSE "stumble") /\ Quiet
  /\ hpc = "poll" => HasRun \/ (modem \in {"booting", "dead", "stumble"} /\ Quiet)
  /\ hpc \in {"runtime", "efs_port", "boot_done"} => HasRun

\* The same while a ramdump is collected.
RamdumpAgrees ==
  /\ hpc \in {"notify_retry", "wait_port", "sahara", "notify_done"} => modem = "dump" /\ Quiet
  /\ hpc = "wait_request" => modem = "dump" /\ (Asks("IMG") \/ Asks("DEBUG"))
  /\ hpc = "monitor" => HasRun /\ modem \in {"rom", "off"}

\* The same while the modem is shut down.
ShutdownAgrees == (modem = "off" /\ Quiet) \/ (modem = "rom" /\ Asks("IMG"))

\* The helper's place, the modem and the driver's requests agree.
Agreement ==
  /\ hpc \in PcsOf(hstate)
  /\ hstate # "FAIL" => required_action = ActionIn(hstate)
  /\ hstate \in {"POST_POWERUP", "RAMDUMP", "SHUTDOWN"} => power_on_count = 1
  /\ hpc = "boot_done" \/ hstate = "POST_POWERUP" => link = "bound"
  /\ hpc = "sahara" /\ hstate = "POWERUP" => rcode \in {"ok", "unset"}
  /\ hstate = "POWERUP" => PowerupAgrees
  /\ hstate = "RAMDUMP" => RamdumpAgrees
  /\ hstate = "SHUTDOWN" => ShutdownAgrees
  /\ hstate = "POST_POWERUP" => HasRun

\* The inductive invariant of the helper: each wait of the helper is for a
\* request that the driver has made or will make in the modem's state.
HelperInv == HelperTypeOK /\ Agreement

\* The queues of requests that occur.
LEMMA ReqFacts ==
  /\ \A r \in ModemRequests : /\ Head(<<r>>) = r /\ Tail(<<r>>) = << >> /\ <<r>> # << >>
                              /\ << >> \o <<r>> = <<r>> /\ Append(<< >>, r) = <<r>> /\ <<r>> \o << >> = <<r>>
                              /\ <<r>> \in Seq(ModemRequests)
  /\ << >> \o << >> = << >> /\ << >> \in Seq(ModemRequests)
  /\ <<"SHUTDOWN">> \o <<"IMG">> = <<"SHUTDOWN", "IMG">>
  /\ <<"SHUTDOWN", "IMG">> \o << >> = <<"SHUTDOWN", "IMG">> /\ <<"SHUTDOWN", "IMG">> # << >>
  /\ Head(<<"SHUTDOWN", "IMG">>) = "SHUTDOWN" /\ Tail(<<"SHUTDOWN", "IMG">>) = <<"IMG">>
<1>1. ASSUME NEW r \in ModemRequests
      PROVE  /\ Head(<<r>>) = r /\ Tail(<<r>>) = << >> /\ <<r>> # << >> /\ <<r>> \in Seq(ModemRequests)
             /\ << >> \o <<r>> = <<r>> /\ <<r>> \o << >> = <<r>> /\ Append(<< >>, r) = <<r>>
  <2>1. Head(<<r>>) = r OBVIOUS
  <2>2. Tail(<<r>>) = << >> OBVIOUS
  <2>3. <<r>> # << >> BY Zenon
  <2>4. <<r>> \in Seq(ModemRequests) OBVIOUS
  <2>5. << >> \o <<r>> = <<r>> OBVIOUS
  <2>6. <<r>> \o << >> = <<r>> OBVIOUS
  <2>7. Append(<< >>, r) = <<r>> OBVIOUS
  <2> QED BY Zenon, <2>1, <2>2, <2>3, <2>4, <2>5, <2>6, <2>7
<1>2. << >> \o << >> = << >> /\ << >> \in Seq(ModemRequests)
  OBVIOUS
<1>3. <<"SHUTDOWN">> \o <<"IMG">> = <<"SHUTDOWN", "IMG">>
  <2> DEFINE a == <<"SHUTDOWN">>
             b == <<"IMG">>
             c == <<"SHUTDOWN", "IMG">>
  <2>1. /\ a \in Seq(ModemRequests) /\ Len(a) = 1 /\ a[1] = "SHUTDOWN"
        /\ b \in Seq(ModemRequests) /\ Len(b) = 1 /\ b[1] = "IMG"
        /\ c \in Seq(ModemRequests) /\ Len(c) = 2 /\ c[1] = "SHUTDOWN" /\ c[2] = "IMG"
    BY DEF ModemRequests
  <2> HIDE DEF a, b, c
  <2>2. /\ a \o b \in Seq(ModemRequests) /\ Len(a \o b) = Len(a) + Len(b)
        /\ \A i \in 1 .. Len(a) + Len(b) : (a \o b)[i] = IF i <= Len(a) THEN a[i] ELSE b[i - Len(a)]
    BY Zenon, <2>1, SeqJoin
  <2>3. a \o b = c
    BY <2>1, <2>2
  <2> QED BY Zenon, <2>3 DEF a, b, c
<1>4. <<"SHUTDOWN", "IMG">> \o << >> = <<"SHUTDOWN", "IMG">>
  OBVIOUS
<1>5. Head(<<"SHUTDOWN", "IMG">>) = "SHUTDOWN" /\ <<"SHUTDOWN", "IMG">> # << >>
  OBVIOUS
<1>6. Tail(<<"SHUTDOWN", "IMG">>) = <<"IMG">>
  OBVIOUS
<1> QED BY Zenon, <1>1, <1>2, <1>3, <1>4, <1>5, <1>6

\* The invariant holds when the helper starts.
LEMMA HelperInitInv == HelperInit => HelperInv
  BY HelperAssumption, ReqFacts DEF HelperInit, HelperInv, HelperTypeOK, Agreement, PcsOf,
     ActionIn, PowerupAgrees, Quiet,
     States, Actions

\* Every step keeps the types.
LEMMA HelperTypes == HelperTypeOK /\ [HelperNext]_modemVars => HelperTypeOK'
<1> SUFFICES ASSUME HelperTypeOK, [HelperNext]_modemVars PROVE HelperTypeOK'
  BY Zenon
<1> DEFINE Host == /\ hstate' \in States /\ required_action' \in Actions /\ power_on_count' \in 0 .. 1
                   /\ tries' \in 0 .. NUM_LINK_RETRIES - 1 /\ wait_count' \in 0 .. MAX_STATUS_UP_CHECKS
                   /\ rcode' \in {"unset", "ok", "failed"} /\ warm' \in BOOLEAN
           Line == link' \in {"bound", "unbound"}
           Modems == {"off", "rom", "stumble", "dump", "booting", "up", "dead"}
           Driver == modem' \in Modems /\ reqs' \in Seq(ModemRequests)
<1>1. Host /\ Line /\ Driver => HelperTypeOK'
  BY Zenon DEF HelperTypeOK
<1> HIDE DEF Host, Line, Driver
<1>2. ASSUME NEW s \in States, Goto(s), required_action' \in Actions, power_on_count' \in 0 .. 1
      PROVE  Host
  BY <1>2, HelperAssumption DEF Goto, Host, HelperTypeOK
<1>3. ASSUME NEW q, Stay(q) PROVE Host
  BY Zenon, <1>3 DEF Stay, Host, HelperTypeOK
<1>4. ASSUME UNCHANGED helperVars PROVE Host
  BY Zenon, <1>4 DEF helperVars, Host, HelperTypeOK
<1>5. ASSUME Fail PROVE Host
  BY Zenon, <1>2, <1>5 DEF Fail, States, HelperTypeOK
<1>6. ASSUME FailTold PROVE Host /\ modem' \in Modems
  BY Zenon, <1>5, <1>6 DEF FailTold, HelperTypeOK
<1>7. ASSUME NEW m \in Modems, NEW rs \in Seq(ModemRequests), Notified(m, rs) PROVE Driver
  BY Zenon, <1>7, SeqJoin DEF Notified, Driver, HelperTypeOK
<1>8. ASSUME UNCHANGED <<modem, reqs>> PROVE Driver
  BY Zenon, <1>8 DEF Driver, HelperTypeOK
<1>9. ASSUME link' = link \/ link' \in {"bound", "unbound"} PROVE Line
  BY Zenon, <1>9 DEF Line, HelperTypeOK
<1>10. ASSUME reqs' = reqs \/ (reqs # << >> /\ reqs' = Tail(reqs)), modem' \in Modems \/ modem' = modem
       PROVE  Driver
  BY Zenon, <1>10, SeqRest DEF Driver, HelperTypeOK
<1>11. ASSUME NEW rc \in {"unset", "ok", "failed"}, NextAttempt(rc)
       PROVE  Host /\ (modem' \in Modems \/ modem' = modem)
  <2>1. CASE /\ tries + 1 < NUM_LINK_RETRIES /\ tries' = tries + 1 /\ rcode' = rc
             /\ UNCHANGED <<hstate, required_action, power_on_count, wait_count, warm, modem>>
    BY <2>1, HelperAssumption DEF Host, HelperTypeOK
  <2> QED BY Zenon, <1>3, <1>6, <1>11, <2>1 DEF NextAttempt
<1>12. "IMG" \in ModemRequests /\ "DEBUG" \in ModemRequests /\ "SHUTDOWN" \in ModemRequests
  BY Zenon DEF ModemRequests
<1>13. CASE Register
  BY Zenon, <1>1, <1>3, <1>6, <1>9, <1>10, <1>13 DEF Register
<1>14. CASE NotifyRetry
  <2>1. Driver
    BY Zenon, <1>7, <1>12, <1>14, ReqFacts DEF NotifyRetry, NotifiedRetry, HelperTypeOK
  <2> QED BY Zenon, <1>1, <1>3, <1>9, <1>14, <2>1 DEF NotifyRetry, mdm_hsic_peripheral_cmd
<1>15. CASE WaitRequest
  <2>1. rcode \in {"unset", "ok", "failed"}
    BY Zenon DEF HelperTypeOK
  <2> QED BY Zenon, <1>1, <1>3, <1>9, <1>10, <1>11, <1>15, <2>1 DEF WaitRequest, mdm_hsic_peripheral_cmd
<1>16. CASE WaitBootPort
  <2>1. CASE /\ rcode' = "ok"
             /\ UNCHANGED <<hstate, required_action, power_on_count, tries, wait_count, warm, modem>>
    <3>1. Host
      BY Zenon, <2>1 DEF Host, HelperTypeOK
    <3> QED BY Zenon, <1>1, <1>9, <1>10, <1>16, <2>1, <3>1 DEF WaitBootPort
  <2>2. CASE NextAttempt("failed")
    BY Zenon, <1>1, <1>9, <1>10, <1>11, <1>16, <2>2 DEF WaitBootPort
  <2> QED BY Zenon, <1>16, <2>1, <2>2 DEF WaitBootPort
<1>17. CASE LoadSahara
  <2>1. Host /\ (modem' \in Modems \/ modem' = modem)
    BY Zenon, <1>2, <1>3, <1>6, <1>17 DEF LoadSahara, States, HelperTypeOK
  <2> QED BY Zenon, <1>1, <1>9, <1>10, <1>17, <2>1 DEF LoadSahara
<1>18. CASE NotifyImagesDone
  <2>1. Driver
    BY Zenon, <1>7, <1>18, ReqFacts DEF NotifyImagesDone, HelperTypeOK
  <2> QED BY Zenon, <1>1, <1>3, <1>9, <1>18, <2>1 DEF NotifyImagesDone
<1>19. CASE PollStatus
  <2>1. CASE /\ wait_count < MAX_STATUS_UP_CHECKS /\ wait_count' = wait_count + 1
             /\ UNCHANGED <<hstate, required_action, power_on_count, tries, rcode, warm, modem>>
    <3>1. Host
      BY <2>1, HelperAssumption DEF Host, HelperTypeOK
    <3> QED BY Zenon, <1>1, <1>9, <1>10, <1>19, <2>1, <3>1 DEF PollStatus
  <2>2. CASE Stay("runtime") /\ UNCHANGED modem
    BY Zenon, <1>1, <1>3, <1>9, <1>10, <1>19, <2>2 DEF PollStatus
  <2>3. CASE FailTold
    BY Zenon, <1>1, <1>6, <1>9, <1>10, <1>19, <2>3 DEF PollStatus
  <2> QED BY Zenon, <1>19, <2>1, <2>2, <2>3 DEF PollStatus
<1>20. CASE ConfigureRuntime
  BY Zenon, <1>1, <1>3, <1>6, <1>9, <1>10, <1>20 DEF ConfigureRuntime, peripheral_reset
<1>21. CASE WaitEfsPort
  BY Zenon, <1>1, <1>3, <1>6, <1>9, <1>10, <1>21 DEF WaitEfsPort
<1>22. CASE BootDone
  <2>1. Host
    BY <1>2, <1>22 DEF BootDone, ActionIn, Actions, States, HelperTypeOK
  <2> QED BY Zenon, <1>1, <1>8, <1>9, <1>22, <2>1 DEF BootDone, driverVars
<1>23. CASE NotifyDumpDone
  <2>1. Driver
    BY Zenon, <1>7, <1>12, <1>23, ReqFacts DEF NotifyDumpDone
  <2> QED BY Zenon, <1>1, <1>3, <1>9, <1>23, <2>1 DEF NotifyDumpDone
<1>24. CASE ShutdownUnbind
  BY Zenon, <1>1, <1>3, <1>8, <1>9, <1>24 DEF ShutdownUnbind, driverVars, mdm_hsic_peripheral_cmd
<1>25. CASE mdm9k_monitor
  <2>1. Head(reqs) \in ModemRequests
    BY Zenon, <1>25, SeqRest DEF mdm9k_monitor, HelperTypeOK
  <2>2. ActionOf(Head(reqs)) \in {"RAMDUMPS", "NORMAL_BOOT", "SHUTDOWN"}
    BY Zenon, <2>1 DEF ActionOf, ModemRequests
  <2>3. AfterMonitor(ActionOf(Head(reqs))) \in States
    BY Zenon, <2>2 DEF AfterMonitor, States
  <2>4. \A t \in States : ActionIn(t) \in Actions
    BY Zenon DEF ActionIn, Actions
  <2>5. Host
    BY Zenon, <1>2, <1>25, <2>2, <2>3, <2>4 DEF mdm9k_monitor, Actions, HelperTypeOK
  <2> QED BY Zenon, <1>1, <1>9, <1>10, <1>25, <2>5 DEF mdm9k_monitor
<1>26. CASE IoctlFails
  BY Zenon, <1>1, <1>5, <1>6, <1>8, <1>9, <1>10, <1>26 DEF IoctlFails, driverVars, mdm_hsic_peripheral_cmd
<1>27. CASE modem_proxy_routine \/ BootFinishes
  <2>1. Driver
    BY Zenon, <1>7, <1>12, <1>27, ReqFacts DEF modem_proxy_routine, BootFinishes
  <2> QED BY Zenon, <1>1, <1>4, <1>9, <1>27, <2>1 DEF modem_proxy_routine, BootFinishes
<1>28. CASE ModemEvent
  <2>1. Driver
    BY <1>12, <1>28, SeqMore DEF ModemEvent, Driver, HelperTypeOK
  <2> QED BY Zenon, <1>1, <1>4, <1>9, <1>28, <2>1 DEF ModemEvent
<1>29. CASE UNCHANGED modemVars
  BY Zenon, <1>1, <1>4, <1>8, <1>9, <1>29 DEF modemVars, driverVars
<1> QED
  BY Zenon, <1>13, <1>14, <1>15, <1>16, <1>17, <1>18, <1>19, <1>20, <1>21, <1>22, <1>23, <1>24, <1>25,
     <1>26, <1>27, <1>28,
     <1>29 DEF HelperNext, HelperStep, DriverStep

\* Every step of the helper, of the modem and of the driver keeps them in
\* agreement.
LEMMA HelperAgrees == HelperInv /\ [HelperNext]_modemVars => Agreement'
<1> SUFFICES ASSUME HelperInv, [HelperNext]_modemVars PROVE Agreement'
  BY Zenon
<1> USE ReqFacts DEF HelperInv, ModemRequests
<1>1. ASSUME Goto("FAIL") \/ (Goto("REBOOT") /\ UNCHANGED required_action /\ hstate = "POWERUP")
      PROVE  Agreement'
  BY Zenon, <1>1 DEF Goto, EntryOf, Agreement, PcsOf, ActionIn
<1>2. ASSUME Fail PROVE Agreement'
  BY Zenon, <1>1, <1>2 DEF Fail
<1>3. CASE Register
  <2>1. CASE Stay("notify_retry") /\ Head(reqs) = "IMG" /\ UNCHANGED <<modem, link>> /\ reqs' = Tail(reqs)
    BY Zenon, <1>3, <2>1 DEF Register, Stay, Agreement, PcsOf, PowerupAgrees, Quiet, Asks, HasRun,
       HelperTypeOK, States
  <2> QED BY Zenon, <1>2, <1>3, <2>1 DEF Register, FailTold
<1>4. CASE NotifyRetry
  BY Zenon, <1>4 DEF NotifyRetry, NotifiedRetry, Notified, Stay, Agreement, PcsOf, PowerupAgrees,
     RamdumpAgrees, Quiet, Asks,
     HelperTypeOK, States
<1>5. ASSUME NEW rc, NextAttempt(rc), reqs' = << >>, link' = link,
             hstate = "POWERUP" => modem \in {"rom", "stumble"} /\ (rc = "unset" => modem = "stumble"),
             hstate = "RAMDUMP" => modem = "dump",
             hpc \in {"wait_port", "wait_request"}, rc = "unset" => rcode = "unset"
      PROVE Agreement'
  <2>1. CASE FailTold
    BY Zenon, <1>2, <2>1 DEF FailTold
  <2>2. CASE /\ hpc' = "notify_retry" /\ UNCHANGED <<hstate, required_action, power_on_count, modem>>
    BY Zenon, <1>5, <2>2 DEF Agreement, PcsOf, PowerupAgrees, RamdumpAgrees, Quiet, HelperTypeOK, States
  <2>3. CASE rc = "unset" /\ Stay("sahara") /\ UNCHANGED modem
    BY Zenon, <1>5, <2>3 DEF Stay, Agreement, PcsOf, PowerupAgrees, RamdumpAgrees, Quiet, HelperTypeOK,
       States
  <2> QED BY Zenon, <1>5, <2>1, <2>2, <2>3 DEF NextAttempt
<1>6. CASE WaitRequest
  <2>1. hstate \in {"POWERUP", "RAMDUMP"} /\ hpc = "wait_request"
    BY Zenon, <1>6 DEF WaitRequest, Agreement, PcsOf, HelperTypeOK, States
  <2>2. /\ hstate = "POWERUP" => (modem = "rom" /\ Head(reqs) = "IMG") \/ (modem = "stumble" /\ Head(reqs) # "IMG")
        /\ hstate = "RAMDUMP" => modem = "dump"
        /\ reqs' = << >>
    BY Zenon, <1>6, <2>1 DEF WaitRequest, Agreement, PowerupAgrees, RamdumpAgrees, Asks
  <2>3. CASE Head(reqs) # "IMG" /\ hstate # "RAMDUMP" /\ NextAttempt(rcode) /\ UNCHANGED link
    BY Zenon, <1>5, <2>1, <2>2, <2>3
  <2>4. CASE (Head(reqs) = "IMG" \/ hstate = "RAMDUMP") /\ Stay("wait_port") /\ UNCHANGED modem
    BY Zenon, <2>1, <2>2, <2>4 DEF Stay, Agreement, PcsOf, PowerupAgrees, RamdumpAgrees, Quiet
  <2> QED BY Zenon, <1>6, <2>3, <2>4 DEF WaitRequest
<1>7. CASE WaitBootPort
  <2>1. hstate \in {"POWERUP", "RAMDUMP"} /\ hpc = "wait_port" /\ reqs = << >>
        /\ modem = (IF hstate = "POWERUP" THEN "rom" ELSE "dump") /\ UNCHANGED <<link, reqs>>
    BY Zenon, <1>7 DEF WaitBootPort, Agreement, PcsOf, HelperTypeOK, States, PowerupAgrees,
       RamdumpAgrees, Quiet
  <2>2. CASE NextAttempt("failed")
    BY Zenon, <1>5, <2>1, <2>2
  <2>3. CASE hpc' = "sahara" /\ rcode' = "ok" /\ UNCHANGED <<hstate, required_action, power_on_count, modem>>
    BY Zenon, <2>1, <2>3 DEF Agreement, PcsOf, PowerupAgrees, RamdumpAgrees, Quiet
  <2> QED BY Zenon, <1>7, <2>2, <2>3 DEF WaitBootPort
<1>8. CASE LoadSahara
  <2>1. hstate \in {"POWERUP", "RAMDUMP"} /\ UNCHANGED <<link, reqs>> /\ hpc = "sahara"
    BY Zenon, <1>8 DEF LoadSahara, Agreement, PcsOf, HelperTypeOK, States
  <2>2. CASE FailTold
    BY Zenon, <1>2, <2>2 DEF FailTold
  <2>3. CASE hstate = "POWERUP" /\ Goto("REBOOT") /\ UNCHANGED required_action
    BY Zenon, <1>1, <2>3
  <2>4. CASE Stay("notify_done") /\ UNCHANGED modem
    BY Zenon, <2>1, <2>4 DEF Stay, Agreement, PcsOf, PowerupAgrees, RamdumpAgrees, Quiet
  <2> QED BY Zenon, <1>8, <2>2, <2>3, <2>4 DEF LoadSahara
<1>9. CASE NotifyImagesDone
  <2>1. /\ hstate = "POWERUP" /\ modem \in {"rom", "stumble"} /\ reqs = << >>
        /\ modem' \in {"booting", "stumble"} /\ reqs' = << >>
    BY Zenon, <1>9 DEF NotifyImagesDone, Notified, Agreement, PowerupAgrees, Quiet
  <2> QED BY Zenon, <1>9, <2>1 DEF NotifyImagesDone, Stay, Agreement, PcsOf, PowerupAgrees, Quiet
<1>10. CASE PollStatus
  <2>1. hstate = "POWERUP" /\ UNCHANGED <<link, reqs>> /\ hpc = "poll"
    BY Zenon, <1>10 DEF PollStatus, Agreement, PcsOf, HelperTypeOK, States
  <2>2. CASE FailTold
    BY Zenon, <1>2, <2>2 DEF FailTold
  <2>3. CASE modem = "up" /\ Stay("runtime") /\ UNCHANGED modem
    BY Zenon, <2>1, <2>3 DEF Stay, Agreement, PcsOf, PowerupAgrees, HasRun, Quiet, Asks
  <2>4. CASE UNCHANGED <<hstate, hpc, required_action, power_on_count, rcode, modem>>
    BY Zenon, <2>1, <2>4 DEF Agreement, PcsOf, PowerupAgrees, HasRun, Quiet, Asks
  <2> QED BY Zenon, <1>10, <2>2, <2>3, <2>4 DEF PollStatus
<1>11. CASE ConfigureRuntime
  <2>1. hstate = "POWERUP" /\ UNCHANGED reqs /\ hpc = "runtime"
    BY Zenon, <1>11 DEF ConfigureRuntime, Agreement, PcsOf, HelperTypeOK, States
  <2>2. CASE FailTold
    BY Zenon, <1>2, <2>2 DEF FailTold
  <2>3. CASE Stay("efs_port") /\ UNCHANGED modem
    BY Zenon, <2>1, <2>3 DEF Stay, Agreement, PcsOf, PowerupAgrees, HasRun, Quiet, Asks
  <2> QED BY Zenon, <1>11, <2>2, <2>3 DEF ConfigureRuntime
<1>12. CASE WaitEfsPort
  <2>1. hstate = "POWERUP" /\ UNCHANGED <<link, reqs>> /\ hpc = "efs_port"
    BY Zenon, <1>12 DEF WaitEfsPort, Agreement, PcsOf, HelperTypeOK, States
  <2>2. CASE FailTold
    BY Zenon, <1>2, <2>2 DEF FailTold
  <2>3. CASE EfsPort /\ Stay("boot_done") /\ UNCHANGED modem
    BY Zenon, <2>1, <2>3 DEF EfsPort, Stay, Agreement, PcsOf, PowerupAgrees, HasRun, Quiet, Asks
  <2> QED BY Zenon, <1>12, <2>2, <2>3 DEF WaitEfsPort
<1>13. CASE BootDone
  <2>1. hstate = "POWERUP" /\ required_action = "NONE" /\ link = "bound" /\ HasRun
    BY Zenon, <1>13 DEF BootDone, Agreement, PcsOf, HelperTypeOK, States, ActionIn, PowerupAgrees
  <2>2. hstate' = "POST_POWERUP" /\ hpc' = "monitor" /\ required_action' = "NONE" /\ power_on_count' = 1
    BY Zenon, <1>13, <2>1 DEF BootDone, Goto, EntryOf
  <2>3. UNCHANGED <<link, modem, reqs>>
    BY Zenon, <1>13 DEF BootDone, driverVars
  <2> QED BY Zenon, <2>1, <2>2, <2>3 DEF Agreement, PcsOf, ActionIn, HasRun, Quiet, Asks
<1>14. CASE NotifyDumpDone
  <2>1. /\ hstate = "RAMDUMP" /\ reqs = << >>
        /\ (modem' = "rom" /\ reqs' = <<"IMG">>) \/ (modem' = "off" /\ reqs' = <<"SHUTDOWN">>)
    BY Zenon, <1>14 DEF NotifyDumpDone, Notified, Agreement, RamdumpAgrees, Quiet
  <2> QED BY Zenon, <1>14, <2>1 DEF NotifyDumpDone, Stay, Agreement, PcsOf, RamdumpAgrees, HasRun, Asks
<1>15. CASE ShutdownUnbind
  BY Zenon, <1>15 DEF ShutdownUnbind, driverVars, Stay, Agreement, PcsOf, HelperTypeOK, States,
     ShutdownAgrees, Quiet, Asks
<1>16. CASE mdm9k_monitor
  <2> DEFINE s == AfterMonitor(ActionOf(Head(reqs)))
  <2>1. /\ hpc = "monitor" /\ reqs # << >> /\ reqs' = Tail(reqs) /\ UNCHANGED <<power_on_count, link, modem>>
        /\ Goto(s) /\ (s # "FAIL" => required_action' = ActionIn(s))
    BY Zenon, <1>16 DEF mdm9k_monitor
  <2>2. hstate \in {"RAMDUMP", "SHUTDOWN", "POST_POWERUP"} /\ power_on_count = 1
    BY Zenon, <2>1 DEF Agreement, PcsOf, HelperTypeOK, States
  <2>3. \/ s = "RAMDUMP" /\ modem = "dump" /\ reqs' = << >>
        \/ s = "POWERUP" /\ modem = "rom" /\ reqs' = << >>
        \/ s = "SHUTDOWN" /\ modem = "off" /\ reqs' = << >>
        \/ s = "SHUTDOWN" /\ modem = "rom" /\ reqs' = <<"IMG">>
    <3>1. HasRun \/ hstate = "SHUTDOWN"
      BY Zenon, <2>1, <2>2 DEF Agreement, RamdumpAgrees
    <3>2. CASE modem = "dump" /\ reqs = <<"DEBUG">> /\ hstate = "POST_POWERUP"
      BY Zenon, <2>1, <3>2 DEF AfterMonitor, ActionOf
    <3>3. CASE modem = "rom" /\ reqs = <<"IMG">>
      BY Zenon, <2>1, <2>2, <3>3 DEF AfterMonitor, ActionOf
    <3>4. CASE modem = "off" /\ reqs = <<"SHUTDOWN">> /\ hstate # "SHUTDOWN"
      BY Zenon, <2>1, <2>2, <3>4 DEF AfterMonitor, ActionOf
    <3>5. CASE modem = "rom" /\ reqs = <<"SHUTDOWN", "IMG">> /\ hstate # "SHUTDOWN"
      BY Zenon, <2>1, <2>2, <3>5 DEF AfterMonitor, ActionOf
    <3> QED BY Zenon, <2>1, <2>2, <3>1, <3>2, <3>3, <3>4, <3>5 DEF HasRun, Agreement, RamdumpAgrees,
         ShutdownAgrees, Quiet, Asks
  <2> HIDE DEF s
  <2>4. hstate' = s /\ hpc' = EntryOf(s) /\ required_action' = ActionIn(s)
    BY Zenon, <2>1, <2>3 DEF Goto
  <2> QED BY <2>1, <2>2, <2>3, <2>4 DEF EntryOf, Agreement, PcsOf, PowerupAgrees, RamdumpAgrees,
       ShutdownAgrees, Quiet, Asks
<1>17. CASE IoctlFails
  BY Zenon, <1>2, <1>17 DEF IoctlFails, FailTold
<1>18. ASSUME UNCHANGED <<helperVars, link>>,
              \/ modem = "off" /\ modem' = "rom" /\ reqs' = reqs \o <<"IMG">>
              \/ modem = "booting" /\ modem' \in {"up", "dead"} /\ reqs' = reqs \o << >>
              \/ /\ modem = "up" /\ \/ modem' = "dump" /\ reqs' = Append(reqs, "DEBUG")
                                    \/ modem' = "rom" /\ reqs' = Append(reqs, "IMG")
                                    \/ modem' = "off" /\ reqs' = Append(reqs, "SHUTDOWN")
       PROVE  Agreement'
  <2>1. HasRun => HasRun'
    BY Zenon, <1>18 DEF HasRun, Quiet, Asks
  <2>2. ShutdownAgrees => ShutdownAgrees'
    BY Zenon, <1>18 DEF ShutdownAgrees, Quiet, Asks
  <2>3. RamdumpAgrees => RamdumpAgrees'
    BY Zenon, <1>18, <2>1 DEF RamdumpAgrees, HasRun, Quiet, Asks, helperVars
  <2>4. PowerupAgrees => PowerupAgrees'
    BY Zenon, <1>18, <2>1 DEF PowerupAgrees, HasRun, Quiet, Asks, helperVars
  <2> QED BY Zenon, <1>18, <2>1, <2>2, <2>3, <2>4 DEF Agreement, helperVars
<1>19. CASE modem_proxy_routine
  BY Zenon, <1>18, <1>19 DEF modem_proxy_routine, Notified
<1>20. CASE BootFinishes
  BY Zenon, <1>18, <1>20 DEF BootFinishes, Notified
<1>21. CASE ModemEvent
  <2>1. PICK e \in {<<"dump", "DEBUG">>, <<"rom", "IMG">>, <<"off", "SHUTDOWN">>} :
          modem' = e[1] /\ reqs' = Append(reqs, e[2])
    BY Zenon, <1>21 DEF ModemEvent
  <2> QED BY <1>18, <1>21, <2>1 DEF ModemEvent
<1>22. CASE UNCHANGED modemVars
  BY <1>22 DEF modemVars, helperVars, driverVars, Agreement, PowerupAgrees, RamdumpAgrees,
     ShutdownAgrees, HasRun, Quiet, Asks
<1> QED
  BY Zenon, <1>3, <1>4, <1>6, <1>7, <1>8, <1>9, <1>10, <1>11, <1>12, <1>13, <1>14, <1>15,
     <1>16, <1>17,
     <1>19, <1>20, <1>21,
     <1>22 DEF HelperNext, HelperStep, DriverStep

\* For any numbers of retries and checks: the helper and the driver never
\* disagree about what the modem needs, whenever the modem crashes, is shut
\* down or dies while it boots (mdm_helper.c).
THEOREM HelperStaysInStep == HelperSpec => []HelperInStep
<1>1. HelperInv => HelperInStep
  BY Zenon DEF HelperInv, Agreement, HelperInStep, RightTransfer, LinkBoundWhenUp, PowerupAgrees,
     RamdumpAgrees, PcsOf,
     HelperTypeOK, States
<1>2. HelperInv /\ [HelperNext]_modemVars => HelperInv'
  BY HelperTypes, HelperAgrees DEF HelperInv
<1> QED BY <1>1, <1>2, HelperInitInv, PTL DEF HelperSpec

-------------------------------------------------------------------------------
(* NatApp and the listener. *)

\* The entries of the cache.
Entries == [conn : Conns \cup {NoConn}, enabled : BOOLEAN, rule_hdl : Handles \cup {0}]

\* The temporary entries.
TempEntries == [conn : Conns \cup {NoConn}, public_ip : uint16_t]

\* The types of what NatApp keeps, and of the driver's table.
NatTypes ==
    /\ cache \in [Slots -> Entries]
    /\ temp \in [TempSlots -> TempEntries]
    /\ PwrSaveIfs \subseteq Clients
    /\ IsFiniteSet(PwrSaveIfs) /\ Cardinality(PwrSaveIfs) <= MaxPwrSave
    /\ nat_table_hdl \in {0, 1} /\ table_cnt \in {0, 1}
    /\ pub_ip_addr \in PubIps \cup {0} /\ pub_ip_addr_pre \in PubIps \cup {0}
    /\ rules \in [Handles -> Conns \cup {NoConn}]

\* The driver without a table has no rules, and NatApp no handle.
TableKnown ==
    /\ nat_table_hdl # 0 => table_cnt = 1
    /\ table_cnt = 0 => \A h \in Handles : rules[h] = NoConn

\* Entry i of the cache owns the rule with handle h.
Owns(i, h) == cache[i] = [conn |-> rules[h], enabled |-> TRUE, rule_hdl |-> h]

\* What NatApp keeps between two calls.
NatInv == NatTypes /\ NoDuplicateConnections /\ TableKnown /\ NoOrphanRules

\* The WAN: the table in use has its address.
WanInv ==
    /\ wan_ipaddr \in PubIps \cup {0} /\ WanUp \in BOOLEAN /\ isStaMode \in BOOLEAN
    /\ TableHasWanAddress

\* The addresses of the clients.
IfaceTypes ==
    /\ nat_iface_ipv4_addr \in [Ifaces -> Addrs]
    /\ nonnat_iface_ipv4_addr \in [Ifaces -> Addrs]

\* The places of the list of STA clients that are taken.
StaTaken == {j \in StaSlots : sta_clnt_ipv4_addr[j] # NoAddr}

\* The list of STA clients, and its counter.
StaInv ==
    /\ sta_clnt_ipv4_addr \in [StaSlots -> StaSubnet \cup {NoAddr}]
    /\ StaClntCnt = Cardinality(StaTaken)

\* A flush in progress.
FlushTypes ==
    /\ flush \in [at : 0 .. MaxTemp + 1, addr : Addrs, isAdd : BOOLEAN, discon : BOOLEAN]
    /\ flush.discon => flush.addr \in Clients

\* The inductive invariant.
ListInv == NatInv /\ WanInv /\ IfaceTypes /\ StaInv /\ FlushTypes

-----------------------------------------------------------------------------
\* A set of numbers that is not empty has a least element.
LEMMA LeastNumber ==
  ASSUME NEW S \in SUBSET Nat, S # {}
  PROVE  \E n \in S : \A m \in S : n <= m
<1>1. \E x \in S : \A y \in S : ~(<<y, x>> \in OpToRel(<, Nat))
  BY Zenon, NatLessThanWellFounded, WFMin
<1>2. PICK x \in S : \A y \in S : ~(<<y, x>> \in OpToRel(<, Nat))
  BY Zenon, <1>1
<1>3. \A y \in S : ~(y < x)
  BY Zenon, <1>2 DEF OpToRel
<1> QED
  BY <1>3

\* The cleared entry of the cache.
LEMMA ZeroTyped == ZeroEntry \in Entries /\ ZeroEntry.conn = NoConn
  BY Zenon DEF ZeroEntry, Entries

\* What 16 bits hold.
LEMMA Uint16 == 0 \in uint16_t /\ \A n \in Nat : n % 2^16 \in uint16_t
  BY DEF uint16_t

\* The cleared temporary entry.
LEMMA NoTempTyped == NoTemp \in TempEntries
  BY Zenon, Uint16 DEF NoTemp, TempEntries

\* Rules are added back for entries that own none.
LEMMA AddBackKeeps ==
  ASSUME NatTypes, NoDuplicateConnections, NEW S \in SUBSET InUse, NEW hdl \in {0, 1},
         AddBack(S, hdl, rules),
         \A h \in Handles : rules[h] # NoConn => \E i \in Slots \ S : Owns(i, h)
  PROVE  /\ cache' \in [Slots -> Entries]
         /\ rules' \in [Handles -> Conns \cup {NoConn}]
         /\ NoDuplicateConnections'
         /\ \A h \in Handles : rules'[h] # NoConn =>
              \E i \in Slots : cache'[i] = [conn |-> rules'[h], enabled |-> TRUE, rule_hdl |-> h]
         /\ hdl = 0 => rules' = rules
<1>1. PICK f \in [S -> AddResults(hdl, rules)] :
        /\ \A i, j \in S : f[i] = f[j] => i = j \/ f[i] = 0
        /\ cache' = [i \in Slots |->
              IF i \notin S THEN cache[i]
              ELSE IF f[i] = 0 THEN ZeroEntry
              ELSE [cache[i] EXCEPT !.enabled = TRUE, !.rule_hdl = f[i]]]
        /\ rules' = [h \in Handles |->
              IF \E i \in S : f[i] = h
              THEN cache[CHOOSE i \in S : f[i] = h].conn
              ELSE rules[h]]
  BY Zenon DEF AddBack
<1>2. S \subseteq Slots /\ \A i \in Slots : cache[i] \in Entries
  BY Zenon DEF InUse, NatTypes
<1>3. \A i \in S : f[i] \in Handles \cup {0} /\ (f[i] # 0 => f[i] \in Handles /\ rules[f[i]] = NoConn)
  BY Zenon DEF AddResults
<1>4. 0 \notin Handles
  BY SMTT(30), LimitsAssumption DEF Handles
<1>5. \A i \in S : f[i] # 0 => cache'[i] = [conn |-> cache[i].conn, enabled |-> TRUE, rule_hdl |-> f[i]]
  BY ZenonT(30), <1>1, <1>2 DEF Entries
<1>6. \A i \in Slots : i \notin S => cache'[i] = cache[i]
  BY ZenonT(30), <1>1
<1>7. \A i \in S : f[i] = 0 => cache'[i] = ZeroEntry
  BY ZenonT(30), <1>1, <1>2
<1>8. \A i \in S : f[i] # 0 => rules'[f[i]] = cache[i].conn
  <2> SUFFICES ASSUME NEW i \in S, f[i] # 0 PROVE rules'[f[i]] = cache[i].conn
    BY Zenon
  <2>1. (CHOOSE j \in S : f[j] = f[i]) = i
    BY ZenonT(30), <1>1
  <2> QED BY Zenon, <1>1, <1>3, <2>1
<1>9. \A h \in Handles : (\A i \in S : f[i] # h) => rules'[h] = rules[h]
  BY Zenon, <1>1
<1>10. ASSUME NEW i \in Slots
       PROVE  cache'[i] \in Entries /\ cache'[i].conn \in {cache[i].conn, NoConn}
  <2>1. CASE i \notin S
    BY Zenon, <2>1, <1>2, <1>6
  <2>2. CASE i \in S /\ f[i] = 0
    BY Zenon, <2>2, <1>7, ZeroTyped
  <2>3. CASE i \in S /\ f[i] # 0
    <3>1. cache[i].conn \in Conns \cup {NoConn}
      BY Zenon, <1>2 DEF Entries
    <3>2. f[i] \in Handles \cup {0}
      BY Zenon, <2>3, <1>3
    <3>3. cache'[i] = [conn |-> cache[i].conn, enabled |-> TRUE, rule_hdl |-> f[i]]
      BY Zenon, <2>3, <1>5
    <3> QED BY <3>1, <3>2, <3>3 DEF Entries
  <2> QED BY Zenon, <2>1, <2>2, <2>3
<1>11. cache' \in [Slots -> Entries]
  BY Zenon, <1>1, <1>10
<1>12. \A i \in Slots : cache'[i].conn \in {cache[i].conn, NoConn}
  BY Zenon, <1>10
<1>13. \A h \in Handles : rules'[h] \in Conns \cup {NoConn}
  <2> SUFFICES ASSUME NEW h \in Handles PROVE rules'[h] \in Conns \cup {NoConn}
    BY Zenon
  <2>1. CASE \E i \in S : f[i] = h
    <3>1. PICK i \in S : f[i] = h
      BY Zenon, <2>1
    <3>2. rules'[h] = cache[i].conn
      BY Zenon, <3>1, <1>4, <1>8
    <3> QED BY Zenon, <3>2, <1>2 DEF Entries
  <2>2. CASE \A i \in S : f[i] # h
    BY Zenon, <2>2, <1>9 DEF NatTypes
  <2> QED BY Zenon, <2>1, <2>2
<1>14. rules' \in [Handles -> Conns \cup {NoConn}]
  BY Zenon, <1>1, <1>13
<1>15. NoDuplicateConnections'
  BY Zenon, <1>12 DEF NoDuplicateConnections, InUse
<1>16. ASSUME NEW h \in Handles, rules'[h] # NoConn
       PROVE  \E i \in Slots : cache'[i] = [conn |-> rules'[h], enabled |-> TRUE, rule_hdl |-> h]
  <2>1. CASE \E i \in S : f[i] = h
    <3>1. PICK i \in S : f[i] = h
      BY Zenon, <2>1
    <3>2. rules'[h] = cache[i].conn
      BY Zenon, <3>1, <1>4, <1>8
    <3> QED BY Zenon, <3>1, <3>2, <1>2, <1>4, <1>5
  <2>2. CASE \A i \in S : f[i] # h
    <3>1. rules'[h] = rules[h]
      BY Zenon, <2>2, <1>9
    <3>2. PICK i \in Slots \ S : Owns(i, h)
      BY Zenon, <3>1, <1>16
    <3> QED BY Zenon, <3>1, <3>2, <1>6 DEF Owns
  <2> QED BY Zenon, <2>1, <2>2
<1>17. ASSUME hdl = 0 PROVE rules' = rules
  <2>1. \A i \in S : f[i] = 0
    BY Zenon, <1>17 DEF AddResults
  <2>2. \A h \in Handles : rules'[h] = rules[h]
    BY Zenon, <2>1, <1>4, <1>9
  <2>3. rules \in [Handles -> Conns \cup {NoConn}]
    BY Zenon DEF NatTypes
  <2> QED BY <2>2, <2>3, <1>14
<1> QED BY Zenon, <1>11, <1>14, <1>15, <1>16, <1>17

\* Deleting the rules of the entries S: what stays in the table is as it was,
\* and belongs to none of them.
LEMMA DeleteRulesKeeps ==
  ASSUME NatTypes, NEW S \in SUBSET Slots, DeleteRules(S)
  PROVE  /\ rules' \in [Handles -> Conns \cup {NoConn}]
         /\ \A h \in Handles : rules'[h] # NoConn => rules'[h] = rules[h]
         /\ nat_table_hdl # 0 => \A h \in Handles : rules'[h] # NoConn =>
              \A i \in S : cache[i].rule_hdl # h
<1>1. rules' = [h \in Handles |->
        IF \E i \in Deletable(S) : cache[i].rule_hdl = h THEN NoConn ELSE rules[h]]
  BY Zenon DEF DeleteRules
<1>2. rules' \in [Handles -> Conns \cup {NoConn}]
  BY Zenon, <1>1 DEF NatTypes
<1>3. \A h \in Handles : rules'[h] # NoConn => rules'[h] = rules[h]
  BY Zenon, <1>1
<1>4. ASSUME nat_table_hdl # 0, NEW h \in Handles, rules'[h] # NoConn, NEW k \in S,
             cache[k].rule_hdl = h
      PROVE  FALSE
  <2> DEFINE K == {i \in S : cache[i].rule_hdl = h}
  <2>0. Slots \subseteq Nat
    BY LimitsAssumption DEF Slots
  <2>1. K \in SUBSET Nat /\ K # {}
    BY Zenon, <1>4, <2>0
  <2>2. PICK i \in K : \A j \in K : i <= j
    BY Zenon, <2>1, LeastNumber
  <2>3. \A j \in S : j < i => cache[j].rule_hdl # cache[i].rule_hdl
    <3> SUFFICES ASSUME NEW j \in S, j < i, cache[j].rule_hdl = cache[i].rule_hdl PROVE FALSE
      BY Zenon
    <3>1. j \in K /\ i \in Nat /\ j \in Nat
      BY <2>2 DEF Slots
    <3> QED BY <3>1, <2>2
  <2>4. DelSucceeds(cache[i].rule_hdl)
    BY <1>3, <1>4, <2>2, LimitsAssumption DEF DelSucceeds, Handles
  <2>5. i \in Deletable(S)
    BY Zenon, <2>2, <2>3, <2>4 DEF Deletable
  <2> QED BY Zenon, <1>1, <1>4, <2>2, <2>5
<1> QED BY Zenon, <1>2, <1>3, <1>4


-----------------------------------------------------------------------------
\* The operations of NatApp keep its invariant.
LEMMA AddTableInv ==
  ASSUME NatInv, NEW a \in PubIps, AddTable(a)
  PROVE  NatInv'
<1>1. /\ UNCHANGED <<temp, PwrSaveIfs, pub_ip_addr_pre>>
      /\ nat_table_hdl' \in {0, 1} /\ table_cnt' \in {0, 1} /\ pub_ip_addr' \in PubIps \cup {0}
  BY Zenon DEF AddTable, NatInv, NatTypes
<1>2. CASE nat_table_hdl' = 0 /\ UNCHANGED <<cache, rules, pub_ip_addr, table_cnt>>
  BY Zenon, <1>1, <1>2 DEF NatInv, NatTypes, NoDuplicateConnections, InUse, TableKnown, NoOrphanRules
<1>3. CASE /\ table_cnt = 0 /\ table_cnt' = 1
           /\ IF a = pub_ip_addr_pre THEN AddBack(InUse, 1, rules) ELSE UNCHANGED <<cache, rules>>
  <2>1. \A h \in Handles : rules[h] = NoConn
    BY Zenon, <1>3 DEF NatInv, TableKnown
  <2>2. CASE AddBack(InUse, 1, rules)
    <3>1. \A h \in Handles : rules[h] # NoConn => \E i \in Slots \ InUse : Owns(i, h)
      BY Zenon, <2>1
    <3>2. /\ cache' \in [Slots -> Entries]
          /\ rules' \in [Handles -> Conns \cup {NoConn}]
          /\ NoDuplicateConnections'
          /\ \A h \in Handles : rules'[h] # NoConn =>
               \E i \in Slots : cache'[i] = [conn |-> rules'[h], enabled |-> TRUE, rule_hdl |-> h]
      BY Zenon, <2>2, <3>1, AddBackKeeps DEF NatInv
    <3>3. NatTypes'
      BY Zenon, <1>1, <3>2 DEF NatInv, NatTypes
    <3>4. TableKnown'
      BY <1>3 DEF TableKnown
    <3>5. NoOrphanRules'
      BY ZenonT(30), <3>2 DEF NoOrphanRules
    <3> QED BY Zenon, <3>2, <3>3, <3>4, <3>5 DEF NatInv
  <2>3. CASE UNCHANGED <<cache, rules>>
    BY Zenon, <1>1, <1>3, <2>1, <2>3
    DEF NatInv, NatTypes, NoDuplicateConnections, InUse, TableKnown, NoOrphanRules
  <2> QED BY Zenon, <1>3, <2>2, <2>3
<1> QED BY Zenon, <1>2, <1>3 DEF AddTable

\* DeleteTable leaves no table and no rule behind, or changes nothing.
LEMMA DeleteTableInv ==
  ASSUME NatInv, NEW a \in PubIps, DeleteTable(a)
  PROVE  NatInv'
<1>1. CASE UNCHANGED natVars
  BY Zenon, <1>1 DEF natVars, tableVars, NatInv, NatTypes, NoDuplicateConnections, InUse, TableKnown,
     NoOrphanRules
<1>2. CASE /\ pub_ip_addr_pre' = pub_ip_addr /\ nat_table_hdl' = 0 /\ pub_ip_addr' = 0
           /\ table_cnt' = 0 /\ rules' = [h \in Handles |-> NoConn]
           /\ UNCHANGED <<cache, temp, PwrSaveIfs>>
  BY Zenon, <1>2 DEF NatInv, NatTypes, NoDuplicateConnections, InUse, TableKnown, NoOrphanRules
<1> QED BY Zenon, <1>1, <1>2 DEF DeleteTable

\* A connection that is put into a free entry, with a rule of its own or none.
LEMMA NewEntryInv ==
  ASSUME NatInv, NEW c \in Conns, ~Cached(c), NEW i \in Slots, cache[i].conn = NoConn,
         NEW h \in Handles \cup {0}, h # 0 => rules[h] = NoConn /\ nat_table_hdl # 0,
         cache' = [cache EXCEPT ![i] = [conn |-> c, enabled |-> h # 0, rule_hdl |-> h]],
         rules' = IF h = 0 THEN rules ELSE [rules EXCEPT ![h] = c],
         temp' \in [TempSlots -> TempEntries],
         UNCHANGED <<PwrSaveIfs, tableVars>>
  PROVE  NatInv'
<1>1. cache' \in [Slots -> Entries] /\ rules' \in [Handles -> Conns \cup {NoConn}]
  <2>1. [conn |-> c, enabled |-> h # 0, rule_hdl |-> h] \in Entries
    BY Zenon DEF Entries
  <2> QED BY Zenon, <2>1 DEF NatInv, NatTypes
<1>2. NatTypes'
  BY Zenon, <1>1 DEF NatInv, NatTypes, tableVars
<1>3. \A j \in Slots : j # i => cache'[j] = cache[j]
  BY Zenon DEF NatInv, NatTypes
<1>4. cache'[i] = [conn |-> c, enabled |-> h # 0, rule_hdl |-> h]
  BY Zenon DEF NatInv, NatTypes
<1>5. NoDuplicateConnections'
  <2> SUFFICES ASSUME NEW j \in Slots, NEW k \in Slots, cache'[j].conn # NoConn,
                      cache'[j].conn = cache'[k].conn
               PROVE  j = k
    BY Zenon DEF NoDuplicateConnections, InUse
  <2>1. cache'[i].conn = c
    BY <1>4
  <2>2. \A l \in Slots : cache[l].conn # c
    BY Zenon DEF Cached
  <2>3. \A l, m \in Slots : cache[l].conn # NoConn /\ cache[l].conn = cache[m].conn => l = m
    BY Zenon DEF NatInv, NoDuplicateConnections, InUse
  <2> QED BY <1>3, <2>1, <2>2, <2>3
<1>6. TableKnown'
  BY Zenon DEF NatInv, NatTypes, TableKnown, tableVars
<1>7. NoOrphanRules'
  <2> SUFFICES ASSUME nat_table_hdl # 0, NEW g \in Handles, rules'[g] # NoConn
               PROVE  \E j \in Slots : cache'[j] = [conn |-> rules'[g], enabled |-> TRUE, rule_hdl |-> g]
    BY Zenon DEF NoOrphanRules, tableVars
  <2>1. CASE g = h
    <3>1. h # 0
      BY <2>1, LimitsAssumption DEF Handles
    <3>2. rules' = [rules EXCEPT ![h] = c]
      BY Zenon, <3>1
    <3>3. rules'[g] = c
      BY Zenon, <2>1, <3>2 DEF NatInv, NatTypes
    <3> QED BY ZenonT(30), <2>1, <3>1, <3>3, <1>4
  <2>2. CASE g # h
    <3>1. rules'[g] = rules[g]
      BY Zenon, <2>2 DEF NatInv, NatTypes
    <3>2. PICK j \in Slots : cache[j] = [conn |-> rules[g], enabled |-> TRUE, rule_hdl |-> g]
      BY Zenon, <3>1 DEF NatInv, NoOrphanRules
    <3>3. cache[j].conn # NoConn
      BY <3>1, <3>2
    <3>4. j # i
      BY Zenon, <3>3
    <3> QED BY ZenonT(30), <3>1, <3>2, <3>4, <1>3
  <2> QED BY Zenon, <2>1, <2>2
<1> QED BY Zenon, <1>2, <1>5, <1>6, <1>7 DEF NatInv

\* AddEntry takes a free entry and a free handle for a connection that has none.
LEMMA AddEntryOkInv ==
  ASSUME NatInv, NEW c \in Conns, AddEntryOk(c),
         temp' \in [TempSlots -> TempEntries]
  PROVE  NatInv'
<1>1. CASE UNCHANGED <<cache, rules, PwrSaveIfs, tableVars>>
  BY Zenon, <1>1 DEF NatInv, NatTypes, NoDuplicateConnections, InUse, TableKnown, NoOrphanRules, tableVars
<1>2. ASSUME NEW i \in FreeFrom(1), ~Cached(c),
             cache' = [cache EXCEPT ![i] = [conn |-> c, enabled |-> FALSE, rule_hdl |-> 0]],
             UNCHANGED <<rules, PwrSaveIfs, tableVars>>
      PROVE  NatInv'
  <2>1. i \in Slots /\ cache[i].conn = NoConn
    BY Zenon DEF FreeFrom
  <2>2. cache' = [cache EXCEPT ![i] = [conn |-> c, enabled |-> 0 # 0, rule_hdl |-> 0]]
    BY Zenon, <1>2
  <2> QED BY Zenon, <1>2, <2>1, <2>2, NewEntryInv
<1>3. ASSUME NEW i \in FreeFrom(1), ~Cached(c), NEW h \in AddResults(nat_table_hdl, rules) \ {0},
             cache' = [cache EXCEPT ![i] = [conn |-> c, enabled |-> TRUE, rule_hdl |-> h]],
             rules' = [rules EXCEPT ![h] = c], UNCHANGED <<PwrSaveIfs, tableVars>>
      PROVE  NatInv'
  <2>1. i \in Slots /\ cache[i].conn = NoConn
    BY Zenon DEF FreeFrom
  <2>2. h \in Handles /\ h # 0 /\ rules[h] = NoConn /\ nat_table_hdl # 0
    BY Zenon DEF AddResults
  <2>3. cache' = [cache EXCEPT ![i] = [conn |-> c, enabled |-> h # 0, rule_hdl |-> h]]
    BY ZenonT(30), <1>3, <2>2
  <2>4. rules' = IF h = 0 THEN rules ELSE [rules EXCEPT ![h] = c]
    BY Zenon, <1>3, <2>2
  <2> QED BY Zenon, <1>3, <2>1, <2>2, <2>3, <2>4, NewEntryInv
<1> QED BY Zenon, <1>1, <1>2, <1>3 DEF AddEntryOk

\* CacheEntry takes a free entry for a connection that has none.
LEMMA CacheEntryInv ==
  ASSUME NatInv, NEW c \in Conns, CacheEntry(c)
  PROVE  NatInv'
<1>1. UNCHANGED <<temp, PwrSaveIfs, tableVars, rules>>
  BY Zenon DEF CacheEntry
<1>2. CASE UNCHANGED cache
  BY Zenon, <1>1, <1>2 DEF NatInv, NatTypes, NoDuplicateConnections, InUse, TableKnown, NoOrphanRules,
     tableVars
<1>3. ASSUME NEW k \in Slots, NEW i \in FreeFrom(k), ~Cached(c),
             cache' = [cache EXCEPT ![i] = [conn |-> c, enabled |-> FALSE, rule_hdl |-> 0]]
      PROVE  NatInv'
  <2>1. i \in Slots /\ cache[i].conn = NoConn
    BY Zenon DEF FreeFrom
  <2>2. cache' = [cache EXCEPT ![i] = [conn |-> c, enabled |-> 0 # 0, rule_hdl |-> 0]]
    BY Zenon, <1>3
  <2>3. temp' \in [TempSlots -> TempEntries]
    BY Zenon, <1>1 DEF NatInv, NatTypes
  <2> QED BY Zenon, <1>1, <1>3, <2>1, <2>2, <2>3, NewEntryInv
<1> QED BY Zenon, <1>2, <1>3 DEF CacheEntry


\* Deleting rules of some enabled entries S, with the entries whose delete
\* succeeds disabled or zeroed, and others that are not enabled changed.
LEMMA DeletionInv ==
  ASSUME NatInv, NEW S \in SUBSET Slots, DeleteRules(S),
         cache' \in [Slots -> Entries],
         \A i \in Slots : cache'[i].conn \in {cache[i].conn, NoConn},
         \A i \in Slots \ S : cache[i].enabled => cache'[i] = cache[i],
         temp' \in [TempSlots -> TempEntries],
         PwrSaveIfs' \subseteq Clients, IsFiniteSet(PwrSaveIfs'),
         Cardinality(PwrSaveIfs') <= MaxPwrSave, UNCHANGED tableVars
  PROVE  NatInv'
<1>1. /\ rules' \in [Handles -> Conns \cup {NoConn}]
      /\ \A h \in Handles : rules'[h] # NoConn => rules'[h] = rules[h]
      /\ nat_table_hdl # 0 => \A h \in Handles : rules'[h] # NoConn =>
           \A i \in S : cache[i].rule_hdl # h
  BY Zenon, DeleteRulesKeeps DEF NatInv
<1>2. NatTypes'
  BY Zenon, <1>1 DEF NatInv, NatTypes, tableVars
<1>3. NoDuplicateConnections'
  BY DEF NatInv, NoDuplicateConnections, InUse
<1>4. TableKnown'
  BY Zenon, <1>1 DEF NatInv, TableKnown, tableVars
<1>5. NoOrphanRules'
  <2> SUFFICES ASSUME nat_table_hdl # 0, NEW h \in Handles, rules'[h] # NoConn
               PROVE  \E j \in Slots : cache'[j] = [conn |-> rules'[h], enabled |-> TRUE, rule_hdl |-> h]
    BY Zenon DEF NoOrphanRules, tableVars
  <2>1. rules'[h] = rules[h]
    BY Zenon, <1>1
  <2>2. PICK j \in Slots : cache[j] = [conn |-> rules[h], enabled |-> TRUE, rule_hdl |-> h]
    BY Zenon, <2>1 DEF NatInv, NoOrphanRules
  <2>3. cache[j].rule_hdl = h /\ cache[j].enabled
    BY <2>2
  <2>4. j \notin S
    BY Zenon, <1>1, <2>3
  <2> QED BY Zenon, <2>1, <2>2, <2>3, <2>4
<1> QED BY Zenon, <1>2, <1>3, <1>4, <1>5 DEF NatInv

\* What becomes of the power-save list.
LEMMA PwrSaveLists ==
  ASSUME NatTypes, NEW p \in Clients
  PROVE  /\ PwrSaveIfs \ {p} \subseteq Clients /\ IsFiniteSet(PwrSaveIfs \ {p})
         /\ Cardinality(PwrSaveIfs \ {p}) <= MaxPwrSave
         /\ Cardinality(PwrSaveIfs) < MaxPwrSave =>
              /\ PwrSaveIfs \cup {p} \subseteq Clients /\ IsFiniteSet(PwrSaveIfs \cup {p})
              /\ Cardinality(PwrSaveIfs \cup {p}) <= MaxPwrSave
<1>1. IsFiniteSet(PwrSaveIfs) /\ PwrSaveIfs \subseteq Clients /\ Cardinality(PwrSaveIfs) <= MaxPwrSave
  BY Zenon DEF NatTypes
<1>2. Cardinality(PwrSaveIfs) \in Nat
  BY Zenon, <1>1, FS_CardinalityType
<1>3. /\ IsFiniteSet(PwrSaveIfs \ {p})
      /\ Cardinality(PwrSaveIfs \ {p}) =
           IF p \in PwrSaveIfs THEN Cardinality(PwrSaveIfs) - 1 ELSE Cardinality(PwrSaveIfs)
  BY Zenon, <1>1, FS_RemoveElement
<1>4. /\ IsFiniteSet(PwrSaveIfs \cup {p})
      /\ Cardinality(PwrSaveIfs \cup {p}) =
           IF p \in PwrSaveIfs THEN Cardinality(PwrSaveIfs) ELSE Cardinality(PwrSaveIfs) + 1
  BY Zenon, <1>1, FS_AddElement
<1> QED BY <1>1, <1>2, <1>3, <1>4, LimitsAssumption

\* What an operation that keeps the cache's entries, or disables, resets or
\* zeroes them, makes of one.
LEMMA EntryForms ==
  ASSUME NEW e \in Entries
  PROVE  /\ [e EXCEPT !.enabled = FALSE] \in Entries /\ [e EXCEPT !.enabled = FALSE].conn = e.conn
         /\ [e EXCEPT !.enabled = FALSE, !.rule_hdl = 0] \in Entries
         /\ [e EXCEPT !.enabled = FALSE, !.rule_hdl = 0].conn = e.conn
BY ZenonT(30) DEF Entries

\* DeleteEntry clears the entry and deletes its rule.
LEMMA DeleteEntryInv ==
  ASSUME NatInv, NEW c \in Conns, DeleteEntry(c)
  PROVE  NatInv'
<1> DEFINE S == {i \in Slots : cache[i].conn = c /\ \A j \in 1 .. i - 1 : cache[j].conn # c}
<1>1. /\ cache' = [i \in Slots |-> IF i \in S THEN ZeroEntry ELSE cache[i]]
      /\ DeleteRules(Enabled(S))
      /\ UNCHANGED <<temp, PwrSaveIfs, tableVars>>
  BY Zenon DEF DeleteEntry
<1>2. Enabled(S) \in SUBSET Slots /\ \A i \in Slots \ Enabled(S) : cache[i].enabled => i \notin S
  BY Zenon DEF Enabled
<1>3. \A i \in Slots : cache[i] \in Entries
  BY Zenon DEF NatInv, NatTypes
<1> HIDE DEF S
<1>4. cache' \in [Slots -> Entries]
  BY Zenon, <1>1, <1>3, ZeroTyped
<1>5. \A i \in Slots : cache'[i].conn \in {cache[i].conn, NoConn}
  BY Zenon, <1>1, ZeroTyped
<1>6. \A i \in Slots \ Enabled(S) : cache[i].enabled => cache'[i] = cache[i]
  BY Zenon, <1>1, <1>2
<1>7. /\ temp' \in [TempSlots -> TempEntries]
      /\ PwrSaveIfs' \subseteq Clients /\ IsFiniteSet(PwrSaveIfs')
      /\ Cardinality(PwrSaveIfs') <= MaxPwrSave /\ UNCHANGED tableVars
  BY Zenon, <1>1 DEF NatInv, NatTypes
<1> QED BY Zenon, <1>1, <1>2, <1>4, <1>5, <1>6, <1>7, DeletionInv


\* UpdatePwrSaveIf deletes the rules of a client and keeps its entries.
LEMMA UpdatePwrSaveIfInv ==
  ASSUME NatInv, NEW p \in Clients, UpdatePwrSaveIf(p)
  PROVE  NatInv'
<1> DEFINE S == Enabled(OfClient(p))
<1>1. CASE UNCHANGED <<cache, rules, PwrSaveIfs, temp, tableVars>>
  BY Zenon, <1>1 DEF NatInv, NatTypes, NoDuplicateConnections, InUse, TableKnown,
     NoOrphanRules, tableVars
<1>2. CASE /\ PwrSaveIfs' = IF Cardinality(PwrSaveIfs) < MaxPwrSave
                            THEN PwrSaveIfs \cup {p} ELSE PwrSaveIfs
           /\ cache' = [i \in Slots |->
                 IF i \in Deletable(S)
                 THEN [cache[i] EXCEPT !.enabled = FALSE, !.rule_hdl = 0]
                 ELSE cache[i]]
           /\ DeleteRules(S)
           /\ UNCHANGED <<temp, tableVars>>
  <2>1. S \in SUBSET Slots /\ Deletable(S) \subseteq S
    BY Zenon DEF Enabled, OfClient, InUse, Deletable
  <2>2. \A i \in Slots : cache[i] \in Entries
    BY Zenon DEF NatInv, NatTypes
  <2> HIDE DEF S
  <2>3. cache' \in [Slots -> Entries]
    BY ZenonT(30), <1>2, <2>2, EntryForms
  <2>4. \A i \in Slots : cache'[i].conn \in {cache[i].conn, NoConn}
    BY ZenonT(30), <1>2, <2>2, EntryForms
  <2>5. \A i \in Slots \ S : cache[i].enabled => cache'[i] = cache[i]
    BY ZenonT(30), <1>2, <2>1
  <2>6. PwrSaveIfs' \subseteq Clients /\ IsFiniteSet(PwrSaveIfs') /\ Cardinality(PwrSaveIfs') <= MaxPwrSave
    BY ZenonT(30), <1>2, PwrSaveLists DEF NatInv, NatTypes
  <2>7. temp' \in [TempSlots -> TempEntries]
    BY Zenon, <1>2 DEF NatInv, NatTypes
  <2> QED BY ZenonT(30), <1>2, <2>1, <2>3, <2>4, <2>5, <2>6, <2>7, DeletionInv
<1> QED BY ZenonT(30), <1>1, <1>2 DEF UpdatePwrSaveIf

\* DelEntriesOnClntDiscon deletes rules and entries of a client together.
LEMMA ClntDisconInv ==
  ASSUME NatInv, NEW p \in Clients, DelEntriesOnClntDiscon(p)
  PROVE  NatInv'
<1> DEFINE S == Enabled(OfClient(p))
<1>1. /\ PwrSaveIfs' = PwrSaveIfs \ {p}
      /\ cache' = [i \in Slots |->
            IF i \in Deletable(S) THEN [cache[i] EXCEPT !.enabled = FALSE] ELSE cache[i]]
      /\ DeleteRules(S)
      /\ UNCHANGED <<temp, tableVars>>
  BY Zenon DEF DelEntriesOnClntDiscon
<1>2. S \in SUBSET Slots /\ Deletable(S) \subseteq S
  BY Zenon DEF Enabled, OfClient, InUse, Deletable
<1>3. \A i \in Slots : cache[i] \in Entries
  BY Zenon DEF NatInv, NatTypes
<1> HIDE DEF S
<1>4. cache' \in [Slots -> Entries]
  BY ZenonT(30), <1>1, <1>3, EntryForms
<1>5. \A i \in Slots : cache'[i].conn \in {cache[i].conn, NoConn}
  BY Zenon, <1>1, <1>3, EntryForms
<1>6. \A i \in Slots \ S : cache[i].enabled => cache'[i] = cache[i]
  BY Zenon, <1>1, <1>2
<1>7. PwrSaveIfs' \subseteq Clients /\ IsFiniteSet(PwrSaveIfs') /\ Cardinality(PwrSaveIfs') <= MaxPwrSave
  BY Zenon, <1>1, PwrSaveLists DEF NatInv
<1>8. temp' \in [TempSlots -> TempEntries]
  BY Zenon, <1>1 DEF NatInv, NatTypes
<1> QED BY Zenon, <1>1, <1>2, <1>4, <1>5, <1>6, <1>7, <1>8, DeletionInv

\* The same of DelEntriesOnSTAClntDiscon.
LEMMA STAClntDisconInv ==
  ASSUME NatInv, NEW t, DelEntriesOnSTAClntDiscon(t)
  PROVE  NatInv'
<1> DEFINE S == Enabled(OfTarget(t))
           Z == (OfTarget(t) \ S) \cup Deletable(S)
<1>1. /\ cache' = [i \in Slots |-> IF i \in Z THEN ZeroEntry ELSE cache[i]]
      /\ DeleteRules(S)
      /\ UNCHANGED <<temp, PwrSaveIfs, tableVars>>
  BY Zenon DEF DelEntriesOnSTAClntDiscon
<1>2. S \in SUBSET Slots /\ \A i \in Slots \ S : cache[i].enabled => i \notin Z
  BY Zenon DEF Enabled, OfTarget, InUse, Deletable
<1>3. \A i \in Slots : cache[i] \in Entries
  BY Zenon DEF NatInv, NatTypes
<1> HIDE DEF S, Z
<1>4. cache' \in [Slots -> Entries]
  BY Zenon, <1>1, <1>3, ZeroTyped
<1>5. \A i \in Slots : cache'[i].conn \in {cache[i].conn, NoConn}
  BY Zenon, <1>1, ZeroTyped
<1>6. \A i \in Slots \ S : cache[i].enabled => cache'[i] = cache[i]
  BY Zenon, <1>1, <1>2
<1>7. /\ temp' \in [TempSlots -> TempEntries]
      /\ PwrSaveIfs' \subseteq Clients /\ IsFiniteSet(PwrSaveIfs')
      /\ Cardinality(PwrSaveIfs') <= MaxPwrSave /\ UNCHANGED tableVars
  BY Zenon, <1>1 DEF NatInv, NatTypes
<1> QED BY Zenon, <1>1, <1>2, <1>4, <1>5, <1>6, <1>7, DeletionInv

\* ResetPwrSaveIf adds the rules of a client's entries back.
LEMMA ResetPwrSaveIfInv ==
  ASSUME NatInv, NEW p \in Clients, ResetPwrSaveIf(p)
  PROVE  NatInv'
<1> DEFINE S == OfClient(p) \ Enabled(InUse)
<1>1. /\ PwrSaveIfs' = PwrSaveIfs \ {p}
      /\ AddBack(S, nat_table_hdl, rules)
      /\ UNCHANGED <<temp, tableVars>>
  BY Zenon DEF ResetPwrSaveIf
<1>2. S \in SUBSET InUse /\ \A i \in S : ~cache[i].enabled
  BY Zenon DEF OfClient, Enabled
<1>3. NatTypes /\ NoDuplicateConnections /\ nat_table_hdl \in {0, 1}
  BY Zenon DEF NatInv, NatTypes
<1> HIDE DEF S
<1>4. PwrSaveIfs' \subseteq Clients /\ IsFiniteSet(PwrSaveIfs') /\ Cardinality(PwrSaveIfs') <= MaxPwrSave
  BY ZenonT(30), <1>1, PwrSaveLists DEF NatInv
<1>5. CASE nat_table_hdl # 0
  <2>1. \A h \in Handles : rules[h] # NoConn => \E i \in Slots \ S : Owns(i, h)
    <3> SUFFICES ASSUME NEW h \in Handles, rules[h] # NoConn PROVE \E i \in Slots \ S : Owns(i, h)
      BY Zenon
    <3>1. PICK i \in Slots : cache[i] = [conn |-> rules[h], enabled |-> TRUE, rule_hdl |-> h]
      BY Zenon, <1>5 DEF NatInv, NoOrphanRules
    <3>2. i \notin S
      BY <1>2, <3>1
    <3> QED BY Zenon, <3>1, <3>2 DEF Owns
  <2>2. /\ cache' \in [Slots -> Entries]
        /\ rules' \in [Handles -> Conns \cup {NoConn}]
        /\ NoDuplicateConnections'
        /\ \A h \in Handles : rules'[h] # NoConn =>
             \E i \in Slots : cache'[i] = [conn |-> rules'[h], enabled |-> TRUE, rule_hdl |-> h]
    BY Zenon, <1>1, <1>2, <1>3, <2>1, AddBackKeeps
  <2>3. NatTypes'
    BY Zenon, <1>1, <1>4, <2>2 DEF NatInv, NatTypes, tableVars
  <2>4. TableKnown'
    BY <1>1, <1>5 DEF NatInv, TableKnown, tableVars
  <2>5. NoOrphanRules'
    BY Zenon, <2>2 DEF NoOrphanRules
  <2> QED BY Zenon, <2>2, <2>3, <2>4, <2>5 DEF NatInv
<1>6. CASE nat_table_hdl = 0
  <2>1. \A i \in Slots : /\ cache'[i] \in Entries
                         /\ cache'[i].conn \in {cache[i].conn, NoConn}
    <3>1. AddResults(nat_table_hdl, rules) = {0}
      BY Zenon, <1>6 DEF AddResults
    <3>2. cache' = [i \in Slots |-> IF i \notin S THEN cache[i] ELSE ZeroEntry]
      BY Zenon, <1>1, <3>1 DEF AddBack
    <3>3. \A i \in Slots : cache[i] \in Entries
      BY Zenon DEF NatInv, NatTypes
    <3> QED BY Zenon, <3>2, <3>3, ZeroTyped
  <2>2. rules' = rules
    <3>1. \A h \in Handles : h # 0
      BY LimitsAssumption DEF Handles
    <3>2. AddResults(nat_table_hdl, rules) = {0}
      BY Zenon, <1>6 DEF AddResults
    <3>3. PICK f \in [S -> AddResults(nat_table_hdl, rules)] :
            rules' = [h \in Handles |->
              IF \E i \in S : f[i] = h THEN cache[CHOOSE i \in S : f[i] = h].conn ELSE rules[h]]
      BY Zenon, <1>1 DEF AddBack
    <3>4. \A h \in Handles : ~\E i \in S : f[i] = h
      BY Zenon, <3>1, <3>2
    <3>5. rules = [h \in Handles |-> rules[h]]
      BY Zenon DEF NatInv, NatTypes
    <3> QED BY Zenon, <3>3, <3>4, <3>5
  <2>3. cache' = [i \in Slots |-> cache'[i]]
    BY Zenon, <1>1 DEF AddBack
  <2>4. NatTypes'
    BY Zenon, <1>1, <1>4, <2>1, <2>2, <2>3 DEF NatInv, NatTypes, tableVars
  <2>5. NoDuplicateConnections'
    BY Zenon, <2>1 DEF NatInv, NoDuplicateConnections, InUse
  <2>6. TableKnown' /\ NoOrphanRules'
    BY ZenonT(30), <1>1, <1>6, <2>2 DEF NatInv, TableKnown, NoOrphanRules, tableVars
  <2> QED BY Zenon, <2>4, <2>5, <2>6 DEF NatInv
<1> QED BY Zenon, <1>5, <1>6

\* Temporary entries.
LEMMA TempInv ==
  ASSUME NatInv, UNCHANGED <<cache, PwrSaveIfs, tableVars, rules>>,
         temp' \in [TempSlots -> TempEntries]
  PROVE  NatInv'
BY Zenon DEF NatInv, NatTypes, NoDuplicateConnections, InUse, TableKnown, NoOrphanRules, tableVars

\* One turn of FlushTempEntries drops the temporary entry or moves it on.
LEMMA FlushTempEntryInv ==
  ASSUME NatInv, NEW k \in TempSlots, NEW p, NEW b, FlushTempEntry(k, p, b)
  PROVE  NatInv'
<1>0. temp \in [TempSlots -> TempEntries]
  BY Zenon DEF NatInv, NatTypes
<1>1. NoTemp \in TempEntries
  BY Zenon, NoTempTyped
<1>2. CASE UNCHANGED natVars
  BY Zenon, <1>0, <1>2, TempInv DEF natVars
<1>3. CASE TempMatches(k, p) /\ AddEntryOk(temp[k].conn) /\ DropTemp(k)
  <2>1. temp[k].conn \in Conns
    BY Zenon, <1>0, <1>3 DEF TempMatches, TempEntries
  <2>2. temp' \in [TempSlots -> TempEntries]
    BY Zenon, <1>0, <1>1, <1>3 DEF DropTemp
  <2> QED BY Zenon, <1>3, <2>1, <2>2, AddEntryOkInv
<1>4. CASE DropTemp(k) /\ UNCHANGED <<cache, PwrSaveIfs, tableVars, rules>>
  <2>2. temp' \in [TempSlots -> TempEntries]
    BY Zenon, <1>0, <1>1, <1>4 DEF DropTemp
  <2> QED BY Zenon, <1>4, <2>2, TempInv
<1> QED BY Zenon, <1>2, <1>3, <1>4 DEF FlushTempEntry


-----------------------------------------------------------------------------
\* Connections and flushes leave the table alone.
LEMMA NatSame ==
  ASSUME NatInv, UNCHANGED natVars
  PROVE  NatInv'
BY Zenon DEF natVars, tableVars, NatInv, NatTypes, NoDuplicateConnections, InUse, TableKnown,
   NoOrphanRules

\* WanInv is about the WAN's variables and the table's address only.
LEMMA WanSame ==
  ASSUME WanInv, UNCHANGED <<wanVars, tableVars>>
  PROVE  WanInv'
BY Zenon DEF WanInv, wanVars, tableVars, TableHasWanAddress

\* StaInv is about the list of STA clients only.
LEMMA StaSame ==
  ASSUME StaInv, UNCHANGED staVars
  PROVE  StaInv'
BY Zenon DEF StaInv, staVars, StaTaken

\* IfaceTypes is about the addresses of the clients only.
LEMMA IfaceSame ==
  ASSUME IfaceTypes, UNCHANGED ifaceVars
  PROVE  IfaceTypes'
BY Zenon DEF IfaceTypes, ifaceVars

\* A flush that is started, or not.
LEMMA FlushSame ==
  ASSUME FlushTypes, UNCHANGED flush
  PROVE  FlushTypes'
BY Zenon DEF FlushTypes

\* A flush that starts is well formed.
LEMMA FlushStarted ==
  ASSUME NEW p \in Clients, NEW b \in BOOLEAN, NEW d \in BOOLEAN, StartFlush(p, b, d)
  PROVE  FlushTypes'
<1>1. 1 \in 0 .. MaxTemp + 1 /\ p \in Addrs
  BY LimitsAssumption DEF Addrs
<1>2. flush' = [at |-> 1, addr |-> p, isAdd |-> b, discon |-> d]
  BY Zenon DEF StartFlush
<1> QED BY Zenon, <1>1, <1>2 DEF FlushTypes

\* One turn of FlushTempEntries.
LEMMA FlushStepInv ==
  ASSUME ListInv, FlushStep
  PROVE  ListInv'
<1>1. flush.at \in TempSlots /\ FlushTempEntry(flush.at, flush.addr, flush.isAdd)
      /\ flush' = [flush EXCEPT !.at = @ + 1] /\ UNCHANGED <<wanVars, ifaceVars, staVars>>
  BY Zenon DEF FlushStep
<1>2. NatInv'
  BY Zenon, <1>1, FlushTempEntryInv DEF ListInv
<1>3. UNCHANGED tableVars
  BY Zenon, <1>1 DEF FlushTempEntry, AddEntryOk, natVars
<1>4. WanInv' /\ IfaceTypes' /\ StaInv'
  BY Zenon, <1>1, <1>3, WanSame, IfaceSame, StaSame DEF ListInv
<1>5. FlushTypes'
  <2>1. flush.at + 1 \in 0 .. MaxTemp + 1
    BY <1>1, LimitsAssumption DEF TempSlots
  <2> QED BY Zenon, <1>1, <2>1 DEF ListInv, FlushTypes
<1> QED BY Zenon, <1>2, <1>4, <1>5 DEF ListInv

\* No flush is in progress.
LEMMA IdleTyped ==
  /\ Idle \in [at : 0 .. MaxTemp + 1, addr : Addrs, isAdd : BOOLEAN, discon : BOOLEAN]
  /\ ~Idle.discon
BY LimitsAssumption DEF Idle, Addrs, NoAddr

\* The end of FlushTempEntries, and the deletions that follow it.
LEMMA FlushEndInv ==
  ASSUME ListInv, FlushEnd
  PROVE  ListInv'
<1>1. flush' = Idle /\ UNCHANGED <<wanVars, ifaceVars, staVars>>
  BY Zenon DEF FlushEnd
<1>2. NatInv' /\ UNCHANGED tableVars
  <2>1. CASE flush.discon
    <3>1. flush.addr \in Clients /\ DelEntriesOnClntDiscon(flush.addr)
      BY Zenon, <2>1 DEF ListInv, FlushTypes, FlushEnd
    <3>2. NatInv'
      BY Zenon, <3>1, ClntDisconInv DEF ListInv
    <3> QED BY Zenon, <3>1, <3>2 DEF DelEntriesOnClntDiscon
  <2>2. CASE ~flush.discon
    BY Zenon, <2>2, NatSame DEF ListInv, FlushEnd, natVars
  <2> QED BY Zenon, <2>1, <2>2
<1>3. WanInv' /\ IfaceTypes' /\ StaInv'
  BY Zenon, <1>1, <1>2, WanSame, IfaceSame, StaSame DEF ListInv
<1>4. FlushTypes'
  BY Zenon, <1>1, IdleTyped DEF FlushTypes
<1> QED BY Zenon, <1>2, <1>3, <1>4 DEF ListInv

\* TriggerWANUp.
LEMMA WANUpInv ==
  ASSUME ListInv, NEW a \in PubIps, NEW sta \in BOOLEAN, TriggerWANUp(a, sta)
  PROVE  ListInv'
<1>1. /\ WanUp' = TRUE /\ isStaMode' = sta /\ wan_ipaddr' = a /\ AddTable(a)
      /\ UNCHANGED <<ifaceVars, staVars, flush>>
  BY Zenon DEF TriggerWANUp
<1>2. NatInv'
  BY Zenon, <1>1, AddTableInv DEF ListInv
<1>3. nat_table_hdl' # 0 => pub_ip_addr' = a
  BY Zenon, <1>1 DEF AddTable
<1>4. WanInv'
  BY Zenon, <1>1, <1>3 DEF WanInv, TableHasWanAddress
<1>5. IfaceTypes' /\ StaInv' /\ FlushTypes'
  BY Zenon, <1>1, IfaceSame, StaSame, FlushSame DEF ListInv
<1> QED BY Zenon, <1>2, <1>4, <1>5 DEF ListInv

\* TriggerWANDown.
LEMMA WANDownInv ==
  ASSUME ListInv, NEW a \in PubIps, TriggerWANDown(a)
  PROVE  ListInv'
<1>1. WanUp' = FALSE /\ DeleteTable(a) /\ UNCHANGED <<isStaMode, wan_ipaddr, ifaceVars, staVars, flush>>
  BY Zenon DEF TriggerWANDown
<1>2. NatInv'
  BY Zenon, <1>1, DeleteTableInv DEF ListInv
<1>4. WanInv'
  BY Zenon, <1>1 DEF ListInv, WanInv, TableHasWanAddress
<1>5. IfaceTypes' /\ StaInv' /\ FlushTypes'
  BY Zenon, <1>1, IfaceSame, StaSame, FlushSame DEF ListInv
<1> QED BY Zenon, <1>2, <1>4, <1>5 DEF ListInv

\* The first of some places of an array.
LEMMA FirstPlace ==
  ASSUME NEW n \in Nat, NEW S \in SUBSET (1 .. n), S # {}
  PROVE  FirstOf(S) \in S
<1>1. S \in SUBSET Nat
  OBVIOUS
<1>2. \E j \in S : \A k \in S : j <= k
  BY Zenon, <1>1, LeastNumber
<1> QED BY Zenon, <1>2 DEF FirstOf

\* A new address of a NATed interface.
LEMMA NatClientAddInv ==
  ASSUME ListInv, NEW p \in Clients, NatClientAdd(p)
  PROVE  ListInv'
<1> DEFINE j == FirstOf(NatIfaceSlots(p))
<1>1. UNCHANGED <<nonnat_iface_ipv4_addr, wanVars, staVars>>
  BY Zenon DEF NatClientAdd
<1>2. StaInv'
  BY Zenon, <1>1, StaSame DEF ListInv
<1>3. CASE UNCHANGED <<natVars, nat_iface_ipv4_addr, flush>>
  <2>1. NatInv' /\ UNCHANGED tableVars
    BY Zenon, <1>3, NatSame DEF ListInv, natVars
  <2>2. WanInv' /\ IfaceTypes' /\ FlushTypes'
    BY Zenon, <1>1, <1>3, <2>1, WanSame, IfaceSame, FlushSame DEF ListInv, ifaceVars
  <2> QED BY Zenon, <1>2, <2>1, <2>2 DEF ListInv
<1>4. CASE /\ nat_iface_ipv4_addr' = [nat_iface_ipv4_addr EXCEPT ![j] = p]
           /\ ResetPwrSaveIf(p) /\ StartFlush(p, TRUE, FALSE)
  <2>1. NatInv' /\ UNCHANGED tableVars
    BY Zenon, <1>4, ResetPwrSaveIfInv DEF ListInv, ResetPwrSaveIf
  <2>2. WanInv' /\ FlushTypes'
    BY Zenon, <1>1, <1>4, <2>1, WanSame, FlushStarted DEF ListInv
  <2>3. IfaceTypes'
    BY Zenon, <1>1, <1>4 DEF ListInv, IfaceTypes, Addrs
  <2> QED BY Zenon, <1>2, <2>1, <2>2, <2>3 DEF ListInv
<1> QED BY Zenon, <1>3, <1>4 DEF NatClientAdd

\* A new address of another interface.
LEMMA NonNatClientAddInv ==
  ASSUME ListInv, NEW p \in Clients, NEW nated \in BOOLEAN, NonNatClientAdd(p, nated)
  PROVE  ListInv'
<1> DEFINE j == FirstOf(NonNatFree)
<1>1. UNCHANGED <<nat_iface_ipv4_addr, natVars, wanVars, staVars>>
  BY Zenon DEF NonNatClientAdd
<1>2. NatInv' /\ UNCHANGED tableVars
  BY Zenon, <1>1, NatSame DEF ListInv, natVars
<1>3. WanInv' /\ StaInv'
  BY Zenon, <1>1, <1>2, WanSame, StaSame DEF ListInv
<1>4. IfaceTypes' /\ FlushTypes'
  <2>1. CASE UNCHANGED <<nonnat_iface_ipv4_addr, flush>>
    BY Zenon, <1>1, <2>1, IfaceSame, FlushSame DEF ListInv, ifaceVars
  <2>2. CASE /\ nonnat_iface_ipv4_addr' = [nonnat_iface_ipv4_addr EXCEPT ![j] = p]
             /\ StartFlush(p, FALSE, FALSE)
    <3>1. FlushTypes'
      BY Zenon, <2>2, FlushStarted
    <3>2. IfaceTypes'
      BY Zenon, <1>1, <2>2 DEF ListInv, IfaceTypes, Addrs
    <3> QED BY Zenon, <3>1, <3>2
  <2> QED BY Zenon, <2>1, <2>2 DEF NonNatClientAdd
<1> QED BY Zenon, <1>2, <1>3, <1>4 DEF ListInv

\* HandleNeighIpAddrDelEvt.
LEMMA NeighDelInv ==
  ASSUME ListInv, NEW p \in Clients, HandleNeighIpAddrDelEvt(p)
  PROVE  ListInv'
<1>1. UNCHANGED <<natVars, wanVars, staVars>> /\ StartFlush(p, FALSE, TRUE)
  BY Zenon DEF HandleNeighIpAddrDelEvt
<1>2. NatInv' /\ UNCHANGED tableVars
  BY Zenon, <1>1, NatSame DEF ListInv, natVars
<1>3. WanInv' /\ StaInv' /\ FlushTypes'
  BY ZenonT(30), <1>1, <1>2, WanSame, StaSame, FlushStarted DEF ListInv
<1>4. IfaceTypes'
  BY Zenon DEF HandleNeighIpAddrDelEvt, ListInv, IfaceTypes, Addrs
<1> QED BY Zenon, <1>2, <1>3, <1>4 DEF ListInv

\* A client enters or leaves power save.
LEMMA PowerInv ==
  ASSUME ListInv, NEW p \in Clients, ClientPowerSave(p) \/ ClientPowerRecover(p)
  PROVE  ListInv'
<1>1. UNCHANGED <<wanVars, ifaceVars, staVars, flush>> /\ (UpdatePwrSaveIf(p) \/ ResetPwrSaveIf(p))
  BY Zenon DEF ClientPowerSave, ClientPowerRecover
<1>2. NatInv'
  BY Zenon, <1>1, UpdatePwrSaveIfInv, ResetPwrSaveIfInv DEF ListInv
<1>3. UNCHANGED tableVars
  BY Zenon, <1>1 DEF UpdatePwrSaveIf, ResetPwrSaveIf
<1>4. WanInv' /\ IfaceTypes' /\ StaInv' /\ FlushTypes'
  BY Zenon, <1>1, <1>3, WanSame, IfaceSame, StaSame, FlushSame DEF ListInv
<1> QED BY Zenon, <1>2, <1>4 DEF ListInv

\* The counter of STA clients.
LEMMA StaFinite ==
  ASSUME StaInv
  PROVE  IsFiniteSet(StaTaken) /\ StaClntCnt \in 0 .. MaxSta /\ (StaClntCnt < MaxSta => StaTaken # StaSlots)
<1>1. IsFiniteSet(StaSlots) /\ Cardinality(StaSlots) = MaxSta
  BY ListenerAssumption, FS_Interval DEF StaSlots
<1>2. StaTaken \in SUBSET StaSlots
  BY Zenon DEF StaTaken
<1>3. IsFiniteSet(StaTaken) /\ Cardinality(StaTaken) <= MaxSta
  BY Zenon, <1>1, <1>2, FS_Subset
<1>4. Cardinality(StaTaken) \in Nat
  BY Zenon, <1>3, FS_CardinalityType
<1> QED BY <1>1, <1>3, <1>4, ListenerAssumption DEF StaInv

\* HandleSTAClientAddEvt takes a place and counts it.
LEMMA StaAddInv ==
  ASSUME ListInv, NEW t \in StaSubnet, HandleSTAClientAddEvt(t)
  PROVE  ListInv'
<1> DEFINE S == {j \in StaSlots : sta_clnt_ipv4_addr[j] \in {NoAddr, t}}
           k == FirstOf(S)
<1>1. /\ StaClntCnt < MaxSta /\ sta_clnt_ipv4_addr[k] = NoAddr
      /\ sta_clnt_ipv4_addr' = [sta_clnt_ipv4_addr EXCEPT ![k] = t]
      /\ StaClntCnt' = StaClntCnt + 1
      /\ UNCHANGED <<natVars, wanVars, ifaceVars, flush>>
  BY Zenon DEF HandleSTAClientAddEvt
<1>2. NatInv' /\ UNCHANGED tableVars
  BY Zenon, <1>1, NatSame DEF ListInv, natVars
<1>3. WanInv' /\ IfaceTypes' /\ FlushTypes'
  BY Zenon, <1>1, <1>2, WanSame, IfaceSame, FlushSame DEF ListInv
<1>4. S # {}
  <2>1. StaTaken # StaSlots
    BY Zenon, <1>1, StaFinite DEF ListInv
  <2> QED BY Zenon, <2>1 DEF StaTaken
<1>5. k \in StaSlots
  <2>1. S \in SUBSET (1 .. MaxSta)
    BY Zenon DEF StaSlots
  <2>2. k \in S
    BY Zenon, <1>4, <2>1, FirstPlace, ListenerAssumption
  <2> QED BY Zenon, <2>2
<1> HIDE DEF S, k
<1>6. t # NoAddr
  BY Zenon, ListenerAssumption DEF NoAddr
<1>7. StaTaken' = StaTaken \cup {k} /\ k \notin StaTaken
  BY Zenon, <1>1, <1>5, <1>6 DEF ListInv, StaInv, StaTaken
<1>8. Cardinality(StaTaken') = Cardinality(StaTaken) + 1
  BY Zenon, <1>7, StaFinite, FS_AddElement DEF ListInv
<1>9. StaInv'
  BY Zenon, <1>1, <1>8 DEF ListInv, StaInv
<1> QED BY Zenon, <1>2, <1>3, <1>9 DEF ListInv

\* HandleSTAClientDelEvt gives a place back and counts it.
LEMMA StaDelInv ==
  ASSUME ListInv, NEW t \in StaSubnet, HandleSTAClientDelEvt(t)
  PROVE  ListInv'
<1> DEFINE S == {j \in StaSlots : sta_clnt_ipv4_addr[j] = t}
           k == FirstOf(S)
<1>1. /\ S # {}
      /\ sta_clnt_ipv4_addr' = [sta_clnt_ipv4_addr EXCEPT ![k] = NoAddr]
      /\ DelEntriesOnSTAClntDiscon(t)
      /\ StaClntCnt' = StaClntCnt - 1
      /\ UNCHANGED <<wanVars, ifaceVars, flush>>
  BY Zenon DEF HandleSTAClientDelEvt
<1>2. NatInv' /\ UNCHANGED tableVars
  BY Zenon, <1>1, STAClntDisconInv DEF ListInv, DelEntriesOnSTAClntDiscon
<1>3. WanInv' /\ IfaceTypes' /\ FlushTypes'
  BY Zenon, <1>1, <1>2, WanSame, IfaceSame, FlushSame DEF ListInv
<1>5. k \in StaSlots /\ sta_clnt_ipv4_addr[k] = t
  <2>1. S \in SUBSET (1 .. MaxSta)
    BY Zenon DEF StaSlots
  <2>2. k \in S
    BY Zenon, <1>1, <2>1, FirstPlace, ListenerAssumption
  <2> QED BY Zenon, <2>2
<1> HIDE DEF S, k
<1>6. t # NoAddr
  BY Zenon, ListenerAssumption DEF NoAddr
<1>7. StaTaken' = StaTaken \ {k} /\ k \in StaTaken
  BY Zenon, <1>1, <1>5, <1>6 DEF ListInv, StaInv, StaTaken
<1>8. Cardinality(StaTaken') = Cardinality(StaTaken) - 1
  BY Zenon, <1>7, StaFinite, FS_RemoveElement DEF ListInv
<1>9. StaInv'
  BY ZenonT(30), <1>1, <1>8 DEF ListInv, StaInv
<1> QED BY Zenon, <1>2, <1>3, <1>9 DEF ListInv

\* A connection comes up.
LEMMA ConnUpInv ==
  ASSUME ListInv, NEW c \in Conns, ConnUp(c)
  PROVE  ListInv'
<1>1. UNCHANGED <<wanVars, ifaceVars, staVars, flush>>
  BY Zenon DEF ConnUp
<1>3. NatInv' /\ UNCHANGED tableVars
  <2>1. CASE UNCHANGED natVars
    BY Zenon, <2>1, NatSame DEF ListInv, natVars
  <2>2. CASE CacheEntry(c)
    BY Zenon, <2>2, CacheEntryInv DEF ListInv, CacheEntry
  <2>3. CASE AddTempEntry(c, public_ip(c))
    <3>1. public_ip(c) \in uint16_t
      BY Zenon, Uint16, PubIpsAssumption DEF public_ip, ListInv, WanInv
    <3>2. temp \in [TempSlots -> TempEntries]
      BY Zenon DEF ListInv, NatInv, NatTypes
    <3>3. [conn |-> c, public_ip |-> public_ip(c)] \in TempEntries
      BY Zenon, <3>1 DEF TempEntries
    <3>4. temp' \in [TempSlots -> TempEntries]
      BY Zenon, <2>3, <3>2, <3>3 DEF AddTempEntry
    <3> QED BY Zenon, <2>3, <3>4, TempInv DEF ListInv, AddTempEntry
  <2>4. CASE AddEntry(c)
    <3>1. CASE AddEntryOk(c) /\ UNCHANGED temp
      <4>1. temp' \in [TempSlots -> TempEntries]
        BY Zenon, <3>1 DEF ListInv, NatInv, NatTypes
      <4> QED BY Zenon, <3>1, <4>1, AddEntryOkInv DEF ListInv, AddEntryOk
    <3> QED BY Zenon, <2>4, <3>1, <2>1 DEF AddEntry
  <2> QED BY Zenon, <2>1, <2>2, <2>3, <2>4 DEF ConnUp
<1>4. WanInv' /\ IfaceTypes' /\ StaInv' /\ FlushTypes'
  BY Zenon, <1>1, <1>3, WanSame, IfaceSame, StaSame, FlushSame DEF ListInv
<1> QED BY Zenon, <1>3, <1>4 DEF ListInv

\* A connection goes down.
LEMMA ConnDownInv ==
  ASSUME ListInv, NEW c \in Conns, ConnDown(c)
  PROVE  ListInv'
<1>1. UNCHANGED <<wanVars, ifaceVars, staVars, flush>>
  BY Zenon DEF ConnDown
<1>3. NatInv' /\ UNCHANGED tableVars
  <2>1. CASE UNCHANGED natVars
    BY Zenon, <2>1, NatSame DEF ListInv, natVars
  <2>2. CASE DeleteEntry(c)
    BY Zenon, <2>2, DeleteEntryInv DEF ListInv, DeleteEntry
  <2>3. CASE DeleteTempEntry(c)
    <3>1. temp \in [TempSlots -> TempEntries]
      BY Zenon DEF ListInv, NatInv, NatTypes
    <3>2. temp' \in [TempSlots -> TempEntries]
      BY Zenon, <2>3, <3>1, NoTempTyped DEF DeleteTempEntry
    <3> QED BY Zenon, <2>3, <3>2, TempInv DEF ListInv, DeleteTempEntry
  <2> QED BY Zenon, <2>1, <2>2, <2>3 DEF ConnDown
<1>4. WanInv' /\ IfaceTypes' /\ StaInv' /\ FlushTypes'
  BY Zenon, <1>1, <1>3, WanSame, IfaceSame, StaSame, FlushSame DEF ListInv
<1> QED BY Zenon, <1>3, <1>4 DEF ListInv

\* The listener and NatApp start empty.
LEMMA ListInitInv == Init => ListInv
<1> SUFFICES ASSUME Init PROVE ListInv
  BY Zenon
<1>1. NatTypes
  <2>1. ZeroEntry \in Entries /\ NoTemp \in TempEntries
    BY Zenon, ZeroTyped, NoTempTyped
  <2>2. IsFiniteSet({}) /\ Cardinality({}) = 0
    BY Zenon, FS_EmptySet
  <2> QED BY <2>1, <2>2, LimitsAssumption DEF Init, NatInit, NatTypes
<1>2. NoDuplicateConnections
  BY Zenon, ZeroTyped DEF Init, NatInit, NoDuplicateConnections, InUse
<1>3. TableKnown /\ NoOrphanRules
  BY Zenon DEF Init, NatInit, TableKnown, NoOrphanRules
<1>4. WanInv
  BY Zenon DEF Init, WanInv, TableHasWanAddress
<1>5. IfaceTypes
  BY Zenon DEF Init, IfaceTypes, Addrs
<1>6. StaInv
  <2>1. StaTaken = {}
    BY Zenon DEF Init, StaTaken
  <2>2. Cardinality({}) = 0
    BY Zenon, FS_EmptySet
  <2> QED BY Zenon, <2>1, <2>2 DEF Init, StaInv
<1>7. FlushTypes
  BY Zenon, IdleTyped DEF Init, FlushTypes
<1> QED BY Zenon, <1>1, <1>2, <1>3, <1>4, <1>5, <1>6, <1>7 DEF ListInv, NatInv

\* Every event keeps the invariant.
LEMMA ListStep == ListInv /\ [Next]_vars => ListInv'
<1> SUFFICES ASSUME ListInv, [Next]_vars PROVE ListInv'
  BY Zenon
<1>1. CASE UNCHANGED vars
  <2>1. UNCHANGED <<natVars, wanVars, ifaceVars, staVars, flush>>
    BY Zenon, <1>1 DEF vars
  <2>2. UNCHANGED tableVars
    BY Zenon, <2>1 DEF natVars
  <2>3. NatInv' /\ WanInv' /\ IfaceTypes'
    BY Zenon, <2>1, <2>2, NatSame, WanSame, IfaceSame DEF ListInv
  <2>4. StaInv' /\ FlushTypes'
    BY Zenon, <2>1, StaSame, FlushSame DEF ListInv
  <2> QED BY Zenon, <2>3, <2>4 DEF ListInv
<1>2. CASE FlushStep \/ FlushEnd
  BY Zenon, <1>2, FlushStepInv, FlushEndInv
<1>3. CASE \E a \in PubIps : TriggerWANDown(a) \/ \E sta \in BOOLEAN : TriggerWANUp(a, sta)
  BY Zenon, <1>3, WANDownInv, WANUpInv
<1>4. ASSUME NEW p \in Clients,
             \/ NatClientAdd(p)
             \/ \E nated \in BOOLEAN : NonNatClientAdd(p, nated)
             \/ HandleNeighIpAddrDelEvt(p)
             \/ ClientPowerSave(p)
             \/ ClientPowerRecover(p)
      PROVE  ListInv'
  BY Zenon, <1>4, NatClientAddInv, NonNatClientAddInv, NeighDelInv, PowerInv
<1>5. CASE \E t \in StaSubnet : HandleSTAClientAddEvt(t) \/ HandleSTAClientDelEvt(t)
  BY Zenon, <1>5, StaAddInv, StaDelInv
<1>6. CASE \E c \in Conns : ConnUp(c) \/ ConnDown(c)
  BY Zenon, <1>6, ConnUpInv, ConnDownInv
<1> QED BY Zenon, <1>1, <1>2, <1>3, <1>4, <1>5, <1>6 DEF Next

\* The inductive invariant holds, for all connections, addresses and sizes of
\* the cache, the table and the lists, whichever additions the driver refuses.
THEOREM ListenerInvariant == Spec => []ListInv
  BY ListInitInv, ListStep, PTL DEF Spec

\* Whatever the order of WAN, client and connection events, and whichever
\* additions the driver refuses, each rule left in the hardware has an entry of the cache
\* that holds its handle: NatApp can still delete it.
THEOREM EveryRuleHasOwner == Spec => []NoOrphanRules
<1>1. ListInv => NoOrphanRules
  BY DEF ListInv, NatInv
<1> QED BY <1>1, ListenerInvariant, PTL

\* NatApp never caches a connection twice, and cache, temporary list, power save
\* list and STA list stay within their arrays, the counter of STA clients with
\* them.
THEOREM OneEntryPerConnection == Spec => []CacheWellFormed
<1>1. ASSUME ListInv PROVE CacheWellFormed
  <2>1. /\ NatTypes /\ NoDuplicateConnections
        /\ wan_ipaddr \in PubIps \cup {0} /\ WanUp \in BOOLEAN /\ isStaMode \in BOOLEAN
        /\ IfaceTypes
        /\ sta_clnt_ipv4_addr \in [StaSlots -> StaSubnet \cup {NoAddr}]
        /\ flush \in [at : 0 .. MaxTemp + 1, addr : Addrs, isAdd : BOOLEAN, discon : BOOLEAN]
    BY Zenon, <1>1 DEF ListInv, NatInv, WanInv, StaInv, FlushTypes
  <2>2. StaClntCnt \in 0 .. MaxSta
    BY Zenon, <1>1, StaFinite DEF ListInv
  <2>3. {pub_ip_addr, pub_ip_addr_pre, wan_ipaddr} \subseteq PubIps \cup {0}
    BY Zenon, <2>1 DEF NatTypes
  <2>4. TypeOK
    BY Zenon, <2>1, <2>2, <2>3 DEF TypeOK, NatTypes, Entries, TempEntries, IfaceTypes
  <2> QED BY Zenon, <2>1, <2>4 DEF CacheWellFormed
<1> QED BY <1>1, ListenerInvariant, PTL

\* While the WAN is up, the table in use translates to the address the listener
\* has for the WAN, across failed, refused and repeated WAN events.
THEOREM TableIsForWan == Spec => []TableHasWanAddress
<1>1. ListInv => TableHasWanAddress
  BY DEF ListInv, WanInv
<1> QED BY <1>1, ListenerInvariant, PTL

===============================================================================
