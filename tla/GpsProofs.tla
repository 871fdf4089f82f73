------------------------------ MODULE GpsProofs ------------------------------
(***************************************************************************)
(* Proofs about the GPS engine: the network's requests and the user's      *)
(* responses (GpsNi), the tasks with their message queues (GpsTasks), the  *)
(* navigation session (GpsSession), and the configuration of the modem,    *)
(* which has every setting the engine keeps, whatever is changed and       *)
(* however often it restarts (GpsConfig).                                  *)
(***************************************************************************)
EXTENDS GpsNi, GpsTasks, GpsSession, GpsConfig, TLAPS

------------------------------------------------------------------------------
(* Requests of the network. *)

\* A thread that waits for the user's response to one request.
NiThreadRecs == [session : Sessions, number : 1 .. MaxNiRequests, at : {"waiting", "clearing"}]

\* A response of the user on its way.
Responses == [session : Sessions, number : 1 .. MaxNiRequests, response : UserResponses]

\* The types of the requests' state; one response is handled at a time.
NiTypes ==
  /\ rawRequest \in [Sessions -> 0 .. MaxNiRequests] /\ reqID \in [Sessions -> 0 .. MaxNiRequests]
  /\ resp \in [Sessions -> UserResponses \cup {"NORESP", "IGNORE"}]
  /\ respRecvd \in [Sessions -> BOOLEAN]
  /\ reqIDCounter \in 0 .. MaxNiRequests
  /\ niThreads \subseteq NiThreadRecs
  /\ responding \subseteq Responses
  /\ \A r, q \in responding : r = q
  /\ resetting \in Sessions \cup {"none"}
  /\ leftOver \subseteq Sessions

\* Request numbers are given out once: one request is in one session, under
\* its own number.
NumbersUnique ==
  /\ \A s \in Sessions : /\ rawRequest[s] <= reqIDCounter /\ reqID[s] <= reqIDCounter
                         /\ rawRequest[s] # 0 => reqID[s] \in {0, rawRequest[s]}
  /\ \A s, u \in Sessions : reqID[s] = reqID[u] => s = u \/ reqID[s] = 0
  /\ \A t \in niThreads : /\ t.number <= reqIDCounter
                          /\ \A s \in Sessions : rawRequest[s] = t.number => s = t.session /\ t.at = "waiting"
  /\ \A r \in responding : r.number <= reqIDCounter

\* A response that waits in a session, or is on its way to it, was given to
\* the request that the session holds, unless it is left over.
ResponsesMatch ==
  /\ \A s \in Sessions : respRecvd[s] /\ s \notin leftOver =>
       /\ rawRequest[s] # 0
       /\ resp[s] \in {"NORESP", "IGNORE"} \/ [number |-> rawRequest[s], response |-> resp[s]] \in said
  /\ \A r \in responding : rawRequest[r.session] = r.number =>
       [number |-> r.number, response |-> r.response] \in said

\* What was answered is what the user said, or that no response came, unless
\* the response was left over.
AnswersSaid ==
  \A a \in niAnswer : \/ a.stale \/ a.response = "NORESP"
                      \/ [number |-> a.number, response |-> a.response] \in said

\* The inductive invariant: an answer carries the session's number, so that
\* numbers have to be unique and a waiting response has to belong to the
\* request that the session holds now.
NiInv == NiTypes /\ NumbersUnique /\ ResponsesMatch /\ AnswersSaid

\* The invariant holds when the engine starts.
LEMMA NiInitInv == NiInit => NiInv
<1> SUFFICES ASSUME NiInit PROVE NiInv
  BY Zenon
<1>1. NiTypes
  BY NiAssumption DEF NiInit, NiTypes, UserResponses
<1>2. NumbersUnique
  BY DEF NiInit, NumbersUnique
<1>3. ResponsesMatch
  BY Zenon DEF NiInit, ResponsesMatch
<1>4. AnswersSaid
  BY Zenon DEF NiInit, AnswersSaid
<1> QED
  BY Zenon, <1>1, <1>2, <1>3, <1>4 DEF NiInv

\* At most one response is handled at a time.
LEMMA OneResponse == NiTypes => NiTypeOK
  BY Zenon DEF NiTypes, NiTypeOK

\* Every step of the engine, of the waiting threads, of the user and of a
\* restart keeps the invariant.
LEMMA NiStep == NiInv /\ [NiNext]_niVars => NiInv'
<1> SUFFICES ASSUME NiInv, [NiNext]_niVars PROVE NiInv'
  BY Zenon
<1> USE NiAssumption
<1>1. NiTypes /\ NumbersUnique /\ ResponsesMatch
  BY Zenon DEF NiInv
<1>2. CASE UNCHANGED niVars
  BY Zenon, <1>2 DEF NiInv, NiTypes, NumbersUnique, ResponsesMatch, AnswersSaid, niVars
<1>3. ASSUME NEW s \in Sessions, NEW started \in BOOLEAN, NiRequest(s, started) PROVE NiInv'
  <2> DEFINE n == reqIDCounter + 1
  <2>1. /\ n \in 1 .. MaxNiRequests /\ rawRequest[s] = 0 /\ reqIDCounter' = n
        /\ rawRequest' = [rawRequest EXCEPT ![s] = n] /\ reqID' = [reqID EXCEPT ![s] = n]
        /\ \/ niThreads' = niThreads
           \/ niThreads' = niThreads \cup {[session |-> s, number |-> n, at |-> "waiting"]}
        /\ niAnswer' = {}
        /\ UNCHANGED <<resp, respRecvd, responding, resetting, said, leftOver>>
    BY <1>1, <1>3 DEF NiRequest, Occupied, NiTypes
  <2>2. [session |-> s, number |-> n, at |-> "waiting"] \in NiThreadRecs
    BY Zenon, <2>1 DEF NiThreadRecs
  <2>3. NiTypes'
    BY SMTT(30), <1>1, <2>1, <2>2 DEF NiTypes
  <2>4. NumbersUnique'
    BY SMTT(30), <1>1, <2>1, <2>2 DEF NumbersUnique, NiTypes, NiThreadRecs, Responses
  <2>5. ResponsesMatch'
    <3>1. \A x \in Sessions : rawRequest'[x] = (IF x = s THEN n ELSE rawRequest[x])
      BY Zenon, <1>1, <2>1 DEF NiTypes
    <3>2. \A r \in responding : r.session \in Sessions /\ r.number # n
      BY <1>1 DEF NumbersUnique, NiTypes, Responses
    <3> HIDE DEF n
    <3>3. ASSUME NEW x \in Sessions, respRecvd[x], x \notin leftOver
          PROVE  rawRequest'[x] = rawRequest[x]
      BY Zenon, <1>1, <2>1, <3>1, <3>3 DEF ResponsesMatch
    <3>4. \A r \in responding :
            rawRequest'[r.session] = r.number => rawRequest[r.session] = r.number
      BY Zenon, <3>1, <3>2
    <3> QED
      BY SMTT(30), <1>1, <2>1, <3>3, <3>4 DEF ResponsesMatch
  <2>6. AnswersSaid'
    BY Zenon, <2>1 DEF AnswersSaid
  <2> QED
    BY Zenon, <2>3, <2>4, <2>5, <2>6 DEF NiInv
<1>4. ASSUME NEW t \in niThreads, NEW response \in UserResponses \cup {"NORESP", "IGNORE"},
             t.at = "waiting",
             response = "NORESP" \/ (respRecvd[t.session] /\ response = resp[t.session]),
             Conclude(t, response)
      PROVE  NiInv'
  <2> DEFINE s == t.session
             u == [t EXCEPT !.at = "clearing"]
  <2>1. s \in Sessions /\ t.number \in 1 .. MaxNiRequests /\ t \in NiThreadRecs
    BY Zenon, <1>1 DEF NiTypes, NiThreadRecs
  <2>2. /\ u \in NiThreadRecs /\ u.session = s /\ u.number = t.number /\ u.at = "clearing"
    BY Zenon, <2>1 DEF NiThreadRecs
  <2>3. /\ respRecvd' = [respRecvd EXCEPT ![s] = FALSE]
        /\ resp' = [resp EXCEPT ![s] = response]
        /\ rawRequest' = [rawRequest EXCEPT ![s] = 0]
        /\ leftOver' = leftOver \ {s}
        /\ niThreads' = (niThreads \ {t}) \cup {u}
        /\ UNCHANGED <<reqID, reqIDCounter, responding, resetting, said>>
    BY Zenon, <1>4 DEF Conclude
  <2>4. NiTypes'
    BY <1>1, <2>1, <2>2, <2>3 DEF NiTypes
  <2>5. NumbersUnique'
    <3>1. \A x \in Sessions : rawRequest'[x] = (IF x = s THEN 0 ELSE rawRequest[x])
      BY Zenon, <1>1, <2>1, <2>3 DEF NiTypes
    <3>2. \A x \in Sessions : rawRequest[x] \in Nat
      BY <1>1 DEF NiTypes
    <3>3. \A v \in niThreads' : /\ v.number <= reqIDCounter
                                /\ v.number # 0
                                /\ \A x \in Sessions : rawRequest'[x] = v.number =>
                                     x = v.session /\ v.at = "waiting"
      <4> HIDE DEF u
      <4>1. \A v \in niThreads : v.number # 0
        BY <1>1 DEF NiTypes, NiThreadRecs
      <4>2. ASSUME NEW v \in niThreads, NEW x \in Sessions, rawRequest'[x] = v.number
            PROVE  x = v.session /\ v.at = "waiting"
        BY <1>1, <3>1, <4>1, <4>2 DEF NumbersUnique
      <4>3. ASSUME NEW x \in Sessions PROVE rawRequest'[x] # u.number
        BY <1>1, <2>1, <2>2, <3>1 DEF NumbersUnique
      <4> QED
        BY SMTT(30), <1>1, <2>1, <2>2, <2>3, <4>1, <4>2, <4>3 DEF NumbersUnique
    <3>4. \A x \in Sessions : /\ rawRequest'[x] <= reqIDCounter
                              /\ rawRequest'[x] # 0 => reqID[x] \in {0, rawRequest'[x]}
      BY <1>1, <3>1 DEF NumbersUnique, NiTypes
    <3> QED
      BY Zenon, <1>1, <2>3, <3>3, <3>4 DEF NumbersUnique
  <2>6. ResponsesMatch'
    BY <1>1, <2>1, <2>3 DEF ResponsesMatch, NiTypes, Responses
  <2>7. AnswersSaid'
    <3>1. ASSUME NEW a \in niAnswer' PROVE \/ a.stale \/ a.response = "NORESP"
                      \/ [number |-> a.number, response |-> a.response] \in said
      <4>1. /\ a = [number |-> rawRequest[s], response |-> response, stale |-> s \in leftOver]
            /\ rawRequest[s] # 0 /\ response # "IGNORE"
        BY Zenon, <1>4, <3>1 DEF Conclude
      <4>2. CASE s \in leftOver
        BY Zenon, <4>1, <4>2
      <4>3. CASE s \notin leftOver /\ response # "NORESP"
        BY Zenon, <1>1, <1>4, <2>1, <4>1, <4>3 DEF ResponsesMatch
      <4> QED
        BY Zenon, <4>1, <4>2, <4>3
    <3> QED
      BY ZenonT(30), <2>3, <3>1 DEF AnswersSaid
  <2> QED
    BY Zenon, <2>4, <2>5, <2>6, <2>7 DEF NiInv
<1>5. ASSUME NEW t \in niThreads, NiThread(t) PROVE NiInv'
  <2>1. t.session \in Sessions /\ t.number \in 1 .. MaxNiRequests
    BY Zenon, <1>1 DEF NiTypes, NiThreadRecs
  <2>2. CASE NiThreadResponse(t)
    <3>1. resp[t.session] \in UserResponses \cup {"NORESP", "IGNORE"}
      BY Zenon, <1>1, <2>1 DEF NiTypes
    <3> QED
      BY Zenon, <1>4, <2>2, <3>1 DEF NiThreadResponse
  <2>3. CASE NiThreadTimeout(t)
    BY Zenon, <1>4, <2>3 DEF NiThreadTimeout
  <2>4. CASE NiThreadClear(t)
    <3>1. /\ reqID' = [reqID EXCEPT ![t.session] = 0] /\ niThreads' = niThreads \ {t}
          /\ said' = {r \in said : r.number # t.number} /\ niAnswer' = {}
          /\ UNCHANGED <<rawRequest, resp, respRecvd, reqIDCounter, responding, resetting,
                         leftOver>>
      BY Zenon, <2>4 DEF NiThreadClear, Forgotten
    <3>2. \A x \in Sessions : rawRequest[x] # t.number
      BY Zenon, <1>1, <2>4 DEF NumbersUnique, NiThreadClear
    <3>3. NiTypes'
      BY SMTT(30), <1>1, <2>1, <3>1 DEF NiTypes
    <3>4. NumbersUnique'
      BY <1>1, <2>1, <3>1 DEF NumbersUnique, NiTypes
    <3>5. ResponsesMatch'
      BY Zenon, <1>1, <3>1, <3>2 DEF ResponsesMatch, NiTypes, Responses
    <3>6. AnswersSaid'
      BY Zenon, <3>1 DEF AnswersSaid
    <3> QED
      BY Zenon, <3>3, <3>4, <3>5, <3>6 DEF NiInv
  <2> QED
    BY Zenon, <1>5, <2>2, <2>3, <2>4 DEF NiThread
<1>6. ASSUME NEW n \in 1 .. MaxNiRequests, NEW response \in UserResponses,
             UserResponds(n, response)
      PROVE  NiInv'
  <2> DEFINE w == [number |-> n, response |-> response]
  <2>1. /\ said' = said \cup {w} /\ niAnswer' = {}
        /\ responding' = {[session |-> s, number |-> rawRequest[s], response |-> response] :
                          s \in SessionFor(n)}
        /\ UNCHANGED <<rawRequest, reqID, reqIDCounter, niThreads, resetting>>
    BY Zenon, <1>6 DEF UserResponds
  <2>2. \/ UNCHANGED <<resp, respRecvd, leftOver>>
        \/ /\ rawRequest["session"] # 0
           /\ resp' = [resp EXCEPT !["session"] = "IGNORE"]
           /\ respRecvd' = [respRecvd EXCEPT !["session"] = TRUE]
           /\ leftOver' = leftOver \ {"session"}
    BY Zenon, <1>6 DEF UserResponds, Deliver
  <2>3. "session" \in Sessions
    BY Zenon DEF Sessions
  <2>4. \A s \in SessionFor(n) : s \in Sessions /\ reqID[s] = n /\ rawRequest[s] = n
    BY <1>1 DEF SessionFor, NumbersUnique
  <2>5. \A s, x \in SessionFor(n) : s = x
    BY SMTT(30), <1>1, <2>4 DEF NumbersUnique
  <2>6. \A r \in responding' : r \in Responses /\ r.number = n /\ r.response = response
                               /\ r.session \in SessionFor(n)
    BY <2>1, <2>4 DEF Responses
  <2>7. \A r, q \in responding' : r = q
    BY Zenon, <2>1, <2>5
  <2>8. NiTypes'
    <3>1. resp' \in [Sessions -> UserResponses \cup {"NORESP", "IGNORE"}]
          /\ respRecvd' \in [Sessions -> BOOLEAN] /\ leftOver' \subseteq Sessions
      BY ZenonT(30), <1>1, <2>2, <2>3 DEF NiTypes
    <3> QED
      BY Zenon, <1>1, <2>1, <2>6, <2>7, <3>1 DEF NiTypes
  <2>9. NumbersUnique'
    <3>1. \A r \in responding' : r.number <= reqIDCounter
      BY SMTT(30), <1>1, <2>4, <2>6 DEF NumbersUnique
    <3> QED
      BY Zenon, <1>1, <2>1, <3>1 DEF NumbersUnique
  <2>10. ResponsesMatch'
    <3>1. \A r \in responding' : [number |-> r.number, response |-> r.response] \in said'
      BY Zenon, <2>1, <2>6
    <3>2. ASSUME NEW s \in Sessions, respRecvd'[s], s \notin leftOver'
          PROVE  /\ rawRequest[s] # 0
                 /\ resp'[s] \in {"NORESP", "IGNORE"}
                    \/ [number |-> rawRequest[s], response |-> resp'[s]] \in said'
      <4>1. CASE s = "session" /\ ~UNCHANGED <<resp, respRecvd, leftOver>>
        BY Zenon, <1>1, <2>2, <4>1 DEF NiTypes
      <4>2. CASE ~(s = "session" /\ ~UNCHANGED <<resp, respRecvd, leftOver>>)
        <5>1. resp'[s] = resp[s] /\ respRecvd[s] /\ s \notin leftOver
          BY Zenon, <1>1, <2>2, <3>2, <4>2 DEF NiTypes
        <5> QED
          BY Zenon, <1>1, <2>1, <5>1 DEF ResponsesMatch
      <4> QED
        BY Zenon, <4>1, <4>2
    <3> QED
      BY Zenon, <2>1, <3>1, <3>2 DEF ResponsesMatch
  <2>11. AnswersSaid'
    BY Zenon, <2>1 DEF AnswersSaid
  <2> QED
    BY Zenon, <2>8, <2>9, <2>10, <2>11 DEF NiInv
<1>7. ASSUME NEW r \in responding, UserDelivers(r) PROVE NiInv'
  <2>1. r.session \in Sessions /\ r.response \in UserResponses /\ r.number \in 1 .. MaxNiRequests
    BY Zenon, <1>1 DEF NiTypes, Responses
  <2>2. /\ resp' = [resp EXCEPT ![r.session] = r.response]
        /\ respRecvd' = [respRecvd EXCEPT ![r.session] = TRUE]
        /\ leftOver' = IF rawRequest[r.session] = r.number THEN leftOver \ {r.session}
                       ELSE leftOver \cup {r.session}
        /\ responding' = {} /\ niAnswer' = {}
        /\ UNCHANGED <<rawRequest, reqID, reqIDCounter, niThreads, resetting, said>>
    BY Zenon, <1>7 DEF UserDelivers, Deliver
  <2>3. NiTypes'
    BY Zenon, <1>1, <2>1, <2>2 DEF NiTypes
  <2>4. NumbersUnique'
    BY Zenon, <1>1, <2>2 DEF NumbersUnique
  <2>5. ResponsesMatch'
    <3>1. ASSUME NEW s \in Sessions, respRecvd'[s], s \notin leftOver'
          PROVE  /\ rawRequest[s] # 0
                 /\ resp'[s] \in {"NORESP", "IGNORE"}
                    \/ [number |-> rawRequest[s], response |-> resp'[s]] \in said
      <4>1. CASE s = r.session
        BY SMTT(30), <1>1, <2>1, <2>2, <3>1, <4>1 DEF NiTypes, ResponsesMatch
      <4>2. CASE s # r.session
        BY Zenon, <1>1, <2>1, <2>2, <3>1, <4>2 DEF NiTypes, ResponsesMatch
      <4> QED
        BY Zenon, <4>1, <4>2
    <3> QED
      BY Zenon, <2>2, <3>1 DEF ResponsesMatch
  <2>6. AnswersSaid'
    BY Zenon, <2>2 DEF AnswersSaid
  <2> QED
    BY Zenon, <2>3, <2>4, <2>5, <2>6 DEF NiInv
<1>8. ASSUME NEW s \in Sessions, NiReset(s) PROVE NiInv'
  BY Zenon, <1>1, <1>8 DEF NiReset, NiInv, NiTypes, NumbersUnique, ResponsesMatch, AnswersSaid
<1>9. CASE NiResetWakes
  <2>1. resetting \in Sessions /\ "session" \in Sessions
    BY Zenon, <1>1, <1>9 DEF NiResetWakes, NiTypes, Sessions
  <2>2. /\ rawRequest' = [rawRequest EXCEPT ![resetting] = 0]
        /\ respRecvd' = [respRecvd EXCEPT ![resetting] = TRUE]
        /\ leftOver' = leftOver \cup {resetting} /\ niAnswer' = {}
        /\ resetting' \in {"session", "none"}
        /\ UNCHANGED <<reqID, resp, reqIDCounter, niThreads, responding, said>>
    BY Zenon, <1>9 DEF NiResetWakes
  <2>3. NiTypes'
    BY <1>1, <2>1, <2>2 DEF NiTypes
  <2>4. NumbersUnique'
    BY <1>1, <2>1, <2>2 DEF NumbersUnique, NiTypes, NiThreadRecs
  <2>5. ResponsesMatch'
    BY <1>1, <2>1, <2>2 DEF ResponsesMatch, NiTypes, Responses
  <2>6. AnswersSaid'
    BY Zenon, <2>2 DEF AnswersSaid
  <2> QED
    BY Zenon, <2>3, <2>4, <2>5, <2>6 DEF NiInv
<1> QED
  BY Zenon, <1>2, <1>3, <1>5, <1>6, <1>7, <1>8, <1>9 DEF NiNext

\* For any numbers of requests and restarts: the network is told what the user
\* said to that request, or that no response came, however requests, late
\* responses, timeouts and restarts interleave (loc_eng_ni.cpp).
THEOREM NetworkToldWhatUserSaid == NiSpec => []AnswerIsUsers
<1>1. NiInv => AnswerIsUsers
  BY Zenon, OneResponse DEF NiInv, AnswersSaid, AnswerIsUsers
<1> QED
  BY NiInitInv, NiStep, <1>1, PTL DEF NiSpec

------------------------------------------------------------------------------
(* The tasks of the engine. *)

\* The places of a task's thread that runs.
Running == {"new", "loop", "blocked", "handling"}

\* The reference count is the number of those that will still call drop: the
\* thread and the owner. The queue lives while the thread runs.
RefsCounted ==
  /\ ownerAt \in {"none", "owns", "unblocked", "joining", "gone"}
  /\ threadAt \in Running \cup {"none", "left", "ended"}
  /\ ownerAt = "none" => threadAt = "none"
  /\ mRefCount = IF threadAt = "none" THEN 0
                 ELSE (IF threadAt = "ended" THEN 0 ELSE 1) + (IF ownerAt = "gone" THEN 0 ELSE 1)
  /\ threadAt \in Running => qAlive

\* The list is still to be emptied by the thread.
Counting == ownerAt = "none" \/ threadAt \in Running

\* The list holds the messages that were accepted and not taken, the newest
\* first.
ListInOrder ==
  /\ accepted \in 0 .. MaxSent
  /\ handled \in Seq(Nat) /\ Len(handled) <= accepted
  /\ \A i \in 1 .. Len(handled) : handled[i] = i
  /\ taskList \in Seq(Nat)
  /\ Counting => Len(taskList) = accepted - Len(handled)
  /\ \A k \in 1 .. Len(taskList) : taskList[k] = accepted - k + 1

\* The inductive invariant of a task.
TaskInv == RefsCounted /\ ListInOrder

\* The invariant holds before the task is made.
LEMMA TaskInitInv == TaskInit => TaskInv
<1> SUFFICES ASSUME TaskInit PROVE TaskInv
  BY Zenon
<1>1. RefsCounted
  BY Zenon DEF TaskInit, RefsCounted, Running
<1>2. << >> \in Seq(Nat) /\ Len(<< >>) = 0
  OBVIOUS
<1>3. taskList = << >> /\ handled = << >>
  BY Zenon DEF TaskInit
<1>4. ListInOrder
  <2>1. accepted = 0
    BY Zenon DEF TaskInit
  <2>2. Len(taskList) = 0 /\ Len(handled) = 0
    BY Zenon, <1>2, <1>3
  <2>3. accepted \in 0 .. MaxSent /\ Len(handled) <= accepted
        /\ Len(taskList) = accepted - Len(handled)
    BY <2>1, <2>2, TaskAssumption
  <2>4. /\ handled \in Seq(Nat) /\ taskList \in Seq(Nat)
        /\ \A i \in 1 .. Len(handled) : FALSE
        /\ \A k \in 1 .. Len(taskList) : FALSE
    BY SMTT(30), <1>2, <1>3, <2>2
  <2> QED
    BY Zenon, <2>3, <2>4 DEF ListInOrder
<1> QED
  BY Zenon, <1>1, <1>4 DEF TaskInv

\* What a step does to the list and to the messages that were taken: it sends
\* one, takes the oldest, flushes the list, or leaves them.
LEMMA ListEffects ==
  ASSUME TaskInv, [TaskNext]_taskVars
  PROVE  \/ UNCHANGED <<taskList, accepted, handled>> /\ (Counting' => Counting)
         \/ msg_q_snd
         \/ Take /\ accepted' = accepted /\ taskList # << >> /\ Counting
         \/ taskList' = << >> /\ UNCHANGED <<accepted, handled>> /\ ~Counting'
BY DEF Counting, TaskNext, taskVars, CreateTask, TaskThread, ThreadStarts, Leave, Take,
   msg_q_rcv, Wakes, Handles, ThreadEnds, msg_q_unblock, DeleteUnstarted, bye, Joined,
   linked_list_flush, linked_list_empty, Running, TaskInv, RefsCounted

\* Every step keeps the reference count.
LEMMA RefsStep ==
  ASSUME TaskInv, [TaskNext]_taskVars
  PROVE  RefsCounted'
<1>1. RefsCounted
  BY Zenon DEF TaskInv
<1>2. CASE UNCHANGED taskVars
  BY Zenon, <1>1, <1>2 DEF RefsCounted, taskVars
<1>3. ASSUME NEW joinable \in BOOLEAN, NEW started \in BOOLEAN, CreateTask(joinable, started)
      PROVE  RefsCounted'
  BY <1>1, <1>3 DEF RefsCounted, CreateTask, Running
<1>4. CASE msg_q_snd \/ msg_q_unblock
  BY Zenon, <1>1, <1>4 DEF RefsCounted, msg_q_snd, msg_q_unblock, Running
<1>5. CASE TaskThread
  <2>1. CASE ThreadStarts \/ Handles
    BY Zenon, <1>1, <1>5, <2>1 DEF TaskThread, RefsCounted, ThreadStarts, Handles, Running
  <2>2. CASE msg_q_rcv \/ Wakes
    BY Zenon, <1>1, <1>5, <2>2 DEF TaskThread, RefsCounted, msg_q_rcv, Wakes, Leave, Take,
       Running
  <2>3. CASE ThreadEnds
    BY <1>1, <1>5, <2>3 DEF TaskThread, RefsCounted, ThreadEnds, Running
  <2> QED
    BY Zenon, <1>5, <2>1, <2>2, <2>3 DEF TaskThread
<1>6. CASE DeleteUnstarted
  BY Zenon, <1>1, <1>6 DEF RefsCounted, DeleteUnstarted, Running
<1>7. CASE bye
  BY <1>1, <1>7 DEF RefsCounted, bye, Running
<1>8. CASE Joined
  BY <1>1, <1>8 DEF RefsCounted, Joined, Running
<1> QED
  BY Zenon, <1>2, <1>3, <1>4, <1>5, <1>6, <1>7, <1>8 DEF TaskNext

\* Every step keeps the list in order.
LEMMA ListStep ==
  ASSUME TaskInv, [TaskNext]_taskVars
  PROVE  ListInOrder'
<1> USE TaskAssumption
<1> DEFINE n == Len(taskList)
           c == Len(handled)
<1>1. /\ accepted \in 0 .. MaxSent /\ handled \in Seq(Nat) /\ taskList \in Seq(Nat)
      /\ n \in Nat /\ c \in Nat /\ c <= accepted
      /\ \A i \in 1 .. c : handled[i] = i
      /\ Counting => n = accepted - c
      /\ \A k \in 1 .. n : taskList[k] = accepted - k + 1
  BY DEF TaskInv, ListInOrder
<1>2. CASE UNCHANGED <<taskList, accepted, handled>> /\ (Counting' => Counting)
  BY Zenon, <1>2 DEF TaskInv, ListInOrder
<1>3. CASE msg_q_snd
  <2>1. /\ accepted' = accepted + 1 /\ accepted < MaxSent
        /\ taskList' = <<accepted + 1>> \o taskList
        /\ UNCHANGED <<ownerAt, threadAt, handled>>
    BY Zenon, <1>3 DEF msg_q_snd, linked_list_add
  <2>2. /\ taskList' \in Seq(Nat) /\ Len(taskList') = n + 1
        /\ taskList'[1] = accepted + 1
        /\ \A k \in 2 .. (n + 1) : taskList'[k] = taskList[k - 1]
    <3> DEFINE x == <<accepted + 1>>
    <3>1. x \in Seq(Nat) /\ Len(x) = 1 /\ x[1] = accepted + 1
      BY <1>1
    <3> HIDE DEF x
    <3> QED
      BY SMTT(30), <1>1, <2>1, <3>1 DEF x
  <2>3. ASSUME NEW k \in 1 .. (n + 1) PROVE taskList'[k] = accepted' - k + 1
    <3> HIDE DEF n
    <3>1. CASE k = 1
      BY SMTT(30), <1>1, <2>1, <2>2, <3>1
    <3>2. CASE k # 1
      <4>1. k \in 2 .. (n + 1) /\ k - 1 \in 1 .. n
        BY <1>1, <3>2
      <4> QED
        BY SMTT(30), <1>1, <2>1, <2>2, <4>1
    <3> QED
      BY Zenon, <3>1, <3>2
  <2> HIDE DEF n, c
  <2>4. c <= accepted' /\ (Counting' => n + 1 = accepted' - c)
    BY SMTT(30), <1>1, <2>1 DEF Counting
  <2> QED
    BY SMTT(30), <1>1, <2>1, <2>2, <2>3, <2>4 DEF ListInOrder, c
<1>4. CASE Take /\ accepted' = accepted /\ taskList # << >> /\ Counting
  <2>1. /\ handled' = Append(handled, taskList[n])
        /\ taskList' = SubSeq(taskList, 1, n - 1)
    BY Zenon, <1>4 DEF Take, linked_list_remove
  <2>2. n >= 1 /\ n \in 1 .. n
    BY <1>1, <1>4
  <2>3. taskList[n] = c + 1
    <3>1. taskList[n] = accepted - n + 1
      BY Zenon, <1>1, <2>2
    <3> HIDE DEF n, c
    <3> QED
      BY <1>1, <1>4, <3>1
  <2>4. /\ taskList' \in Seq(Nat) /\ Len(taskList') = n - 1
        /\ \A k \in 1 .. (n - 1) : taskList'[k] = taskList[k]
    <3> DEFINE m == n - 1
    <3>1. m \in Nat /\ 1 \in Int /\ \A k \in 1 .. m : k \in 1 .. n
      BY <1>1, <2>2
    <3>2. \A k \in 1 .. m : taskList[k] \in Nat
      BY SMTT(30), <1>1, <3>1
    <3> DEFINE q == SubSeq(taskList, 1, m)
    <3> HIDE DEF m
    <3>3. /\ q \in Seq(Nat) /\ Len(q) = IF 1 <= m THEN m - 1 + 1 ELSE 0
          /\ \A k \in 1 .. (m - 1 + 1) : q[k] = taskList[1 + k - 1]
      BY SMTT(30), <1>1, <2>2, <3>1, <3>2 DEF m
    <3>4. taskList' = q
      BY Zenon, <2>1 DEF m
    <3> HIDE DEF q
    <3>5. Len(q) = m /\ \A k \in 1 .. m : q[k] = taskList[k]
      BY <3>1, <3>3
    <3> QED
      BY Zenon, <3>3, <3>4, <3>5 DEF m
  <2>5. /\ handled' \in Seq(Nat) /\ Len(handled') = c + 1
        /\ \A k \in 1 .. c : handled'[k] = handled[k]
        /\ handled'[c + 1] = c + 1
    BY <1>1, <2>1, <2>3
  <2> HIDE DEF n, c
  <2>6. c + 1 <= accepted /\ n - 1 = accepted - (c + 1)
    BY <1>1, <1>4, <2>2
  <2>7. \A i \in 1 .. (c + 1) : handled'[i] = i
    BY SMTT(30), <1>1, <2>5
  <2>8. \A k \in 1 .. (n - 1) : taskList'[k] = accepted - k + 1
    BY <1>1, <2>4
  <2> QED
    BY Zenon, <1>1, <1>4, <2>4, <2>5, <2>6, <2>7, <2>8 DEF ListInOrder
<1>5. CASE taskList' = << >> /\ UNCHANGED <<accepted, handled>> /\ ~Counting'
  <2>1. << >> \in Seq(Nat) /\ Len(<< >>) = 0
    OBVIOUS
  <2> QED
    BY <1>1, <1>5, <2>1 DEF ListInOrder
<1> QED
  BY Zenon, <1>2, <1>3, <1>4, <1>5, ListEffects

\* For any number of messages: a task handles the messages it accepted in the
\* order in which they were sent, each once, and neither the thread nor the
\* owner uses a task or a queue that is freed, whichever of them goes first
\* (MsgTask.cpp, LocThread.cpp, msg_q.c).
THEOREM TaskMessagesInOrder == TaskSpec => []TaskSafe
<1>1. TaskInv /\ [TaskNext]_taskVars => TaskInv'
  BY Zenon, RefsStep, ListStep DEF TaskInv
<1>2. TaskInv => TaskSafe
  BY DEF TaskInv, RefsCounted, ListInOrder, TaskSafe, Running
<1> QED
  BY TaskInitInv, <1>1, <1>2, PTL DEF TaskSpec

------------------------------------------------------------------------------
(* The session. *)

\* The modes of a fix.
Modes == {"STANDALONE", "INVALID"}

\* The messages of the engine's thread that concern the session.
SessionMsgs ==
  ({"mode"} \X Recurrences)
  \cup {<<k>> : k \in {"start", "stop", "delete", "sv", "nmea", "measurement", "down", "up"}}
  \cup ({"position"} \X {"SUCCESS", "INTERMEDIATE", "FAILURE"} \X BOOLEAN)
  \cup ({"status"} \X {"SESSION_BEGIN", "SESSION_END", "ENGINE_ON", "ENGINE_OFF"})

\* The engine has yet to handle that the modem is up again.
UpPending == \E k \in 1 .. Len(sessionQ) : sessionQ[k][1] = "up"

\* The types of the session's state.
SessionTypes ==
  /\ sessionQ \in Seq(SessionMsgs)
  /\ mNavigating \in BOOLEAN /\ modemUp \in BOOLEAN /\ restarts \in Nat
  /\ mFixCriteria \in [mode : Modes, recurrence : Recurrences]
  /\ modemFix \in [mode : Modes, recurrence : Recurrences \cup {"none", "offline"}]

\* The modem navigates in periodic mode only when the engine does; when the
\* engine does and the modem does not, the modem is out of service, or down,
\* or the engine has yet to hear that it is up; and the modem's mode is the
\* one asked for, or the invalid one after a restart.
FixFollows ==
  /\ ~modemUp => modemFix.recurrence = "none"
  /\ restarts = 0 => modemUp /\ ~UpPending
  /\ modemFix.recurrence = "PERIODIC" => mNavigating /\ mFixCriteria.recurrence = "PERIODIC"
  /\ mNavigating /\ mFixCriteria.recurrence = "PERIODIC" =>
       \/ modemFix.recurrence \in {"PERIODIC", "offline"}
       \/ modemFix.recurrence = "none" /\ (~modemUp \/ UpPending)
  /\ mNavigating /\ modemFix.recurrence \in Recurrences =>
       modemFix.mode = asked \/ (restarts > 0 /\ modemFix.mode = "INVALID")

\* The inductive invariant of the session. NavigationMatches speaks of states
\* with an empty queue; the invariant says what of the queue excuses a modem
\* that does not navigate.
SessionInv == SessionTypes /\ FixFollows

\* The fixes of the modem.
FixRecs == [mode : Modes, recurrence : Recurrences \cup {"none", "offline"}]

\* No fix is one of them.
LEMMA NoFixIsFix == NoFix \in FixRecs /\ NoFix.recurrence = "none"
BY Zenon DEF NoFix, FixRecs, Modes

\* The invariant holds when the engine starts.
LEMMA SessionInitInv == SessionInit => SessionInv
<1> SUFFICES ASSUME SessionInit PROVE SessionInv
  BY Zenon
<1>1. sessionQ \in Seq(SessionMsgs) /\ Len(sessionQ) = 0
  BY DEF SessionInit
<1>2. SessionTypes
  BY Zenon, <1>1 DEF SessionInit, SessionTypes, Unset, NoFix, Modes, Recurrences
<1>3. FixFollows
  BY <1>1 DEF SessionInit, FixFollows, UpPending, Unset, NoFix, Recurrences
<1> QED
  BY Zenon, <1>2, <1>3 DEF SessionInv

\* A message at the end of the queue.
LEMMA Posted ==
  ASSUME SessionTypes, NEW m \in SessionMsgs, sessionQ' = Append(sessionQ, m)
  PROVE  sessionQ' \in Seq(SessionMsgs) /\ (UpPending' <=> UpPending \/ m[1] = "up")
<1> DEFINE n == Len(sessionQ)
<1>1. /\ n \in Nat /\ sessionQ' \in Seq(SessionMsgs) /\ Len(sessionQ') = n + 1
      /\ \A k \in 1 .. n : sessionQ'[k] = sessionQ[k]
      /\ sessionQ'[n + 1] = m
  BY DEF SessionTypes
<1>2. UpPending <=> \E k \in 1 .. n : sessionQ[k][1] = "up"
  BY Zenon DEF UpPending
<1>3. UpPending' <=> \E k \in 1 .. (n + 1) : sessionQ'[k][1] = "up"
  BY Zenon, <1>1 DEF UpPending
<1> HIDE DEF n
<1>4. /\ \A k \in 1 .. (n + 1) : k \in 1 .. n \/ k = n + 1
      /\ \A k \in 1 .. n : k \in 1 .. (n + 1)
      /\ n + 1 \in 1 .. (n + 1)
  BY SMTT(30), <1>1
<1> QED
  BY Zenon, <1>1, <1>2, <1>3, <1>4

\* The first message taken off the queue.
LEMMA Taken ==
  ASSUME SessionTypes, sessionQ # << >>, sessionQ' = Tail(sessionQ)
  PROVE  /\ Head(sessionQ) \in SessionMsgs
         /\ sessionQ' \in Seq(SessionMsgs)
         /\ UpPending <=> UpPending' \/ Head(sessionQ)[1] = "up"
<1> DEFINE n == Len(sessionQ)
<1>1. /\ n \in Nat /\ n # 0 /\ sessionQ' \in Seq(SessionMsgs) /\ Len(sessionQ') = n - 1
      /\ \A k \in 1 .. (n - 1) : sessionQ'[k] = sessionQ[k + 1]
      /\ Head(sessionQ) = sessionQ[1] /\ Head(sessionQ) \in SessionMsgs
  BY DEF SessionTypes
<1>2. UpPending <=> \E k \in 1 .. n : sessionQ[k][1] = "up"
  BY Zenon DEF UpPending
<1>3. UpPending' <=> \E k \in 1 .. (n - 1) : sessionQ'[k][1] = "up"
  BY Zenon, <1>1 DEF UpPending
<1> HIDE DEF n
<1>4. /\ \A k \in 1 .. n : k = 1 \/ (k - 1 \in 1 .. (n - 1) /\ (k - 1) + 1 = k)
      /\ \A k \in 1 .. (n - 1) : k + 1 \in 1 .. n
      /\ 1 \in 1 .. n
  BY SMTT(30), <1>1
<1> QED
  BY SMTT(30), <1>1, <1>2, <1>3, <1>4

\* A message of the framework or the modem that changes nothing else keeps the
\* invariant.
LEMMA PostedStep ==
  ASSUME SessionInv, NEW m \in SessionMsgs, m[1] # "up", sessionQ' = Append(sessionQ, m),
         UNCHANGED <<mNavigating, mFixCriteria, modemUp, modemFix, asked, restarts>>
  PROVE  SessionInv'
<1>1. sessionQ' \in Seq(SessionMsgs) /\ (UpPending' <=> UpPending)
  BY Zenon, Posted DEF SessionInv
<1> QED
  BY Zenon, <1>1 DEF SessionInv, SessionTypes, FixFollows

\* Every message the engine's thread handles keeps the invariant.
LEMMA ThreadStep ==
  ASSUME SessionInv, SessionThread
  PROVE  SessionInv'
<1> DEFINE m == Head(sessionQ)
<1>1. /\ sessionQ' \in Seq(SessionMsgs) /\ m \in SessionMsgs
      /\ UpPending <=> UpPending' \/ m[1] = "up"
      /\ modemUp' = modemUp /\ restarts' = restarts /\ ProcSession(m)
  BY Zenon, Taken DEF SessionInv, SessionThread
<1> HIDE DEF m
<1> USE DEF SessionInv
<1>2. ASSUME UNCHANGED <<mNavigating, mFixCriteria, modemFix, asked>>, m[1] # "up"
      PROVE  SessionInv'
  BY Zenon, <1>1, <1>2 DEF SessionTypes, FixFollows
<1>3. CASE m[1] = "mode"
  <2>1. m[2] \in Recurrences
    BY <1>1, <1>3 DEF SessionMsgs
  <2>2. setPositionMode(m[2])
    BY Zenon, <1>1, <1>3 DEF ProcSession
  <2>3. PICK r \in Recurrences :
          /\ mFixCriteria' = [mode |-> "STANDALONE", recurrence |-> r]
          /\ modemFix' = IF mNavigating /\ modemUp
                         THEN [mode |-> "STANDALONE", recurrence |-> r] ELSE modemFix
          /\ asked' = IF mNavigating THEN "STANDALONE" ELSE asked
          /\ mNavigating' = mNavigating
    BY Zenon, <2>1, <2>2 DEF setPositionMode
  <2>4. SessionTypes'
    BY Zenon, <1>1, <2>3 DEF SessionTypes, Modes
  <2>5. FixFollows'
    BY Zenon, <1>1, <1>3, <2>3 DEF SessionTypes, FixFollows, Recurrences
  <2> QED
    BY Zenon, <2>4, <2>5
<1>4. CASE m[1] = "start"
  <2>1. loc_eng_start_handler
    BY Zenon, <1>1, <1>4 DEF ProcSession
  <2>2. CASE mNavigating
    BY Zenon, <1>2, <1>4, <2>1, <2>2 DEF loc_eng_start_handler
  <2>3. CASE ~mNavigating
    <3>1. PICK result \in StartFixResults :
            /\ modemFix' = StartedFix(mFixCriteria, result)
            /\ mNavigating' = (result # "GENERAL_FAILURE") /\ mFixCriteria' = mFixCriteria
            /\ asked' = mFixCriteria.mode
      BY Zenon, <2>1, <2>3 DEF loc_eng_start_handler
    <3>2. \/ /\ modemUp /\ mNavigating' = TRUE /\ modemFix' = mFixCriteria
          \/ /\ modemUp /\ mNavigating' = TRUE
             /\ modemFix' = [mFixCriteria EXCEPT !.recurrence = "offline"]
          \/ /\ modemUp /\ mNavigating' = FALSE /\ modemFix' = NoFix
          \/ /\ ~modemUp /\ mNavigating' = TRUE /\ modemFix' = modemFix
      BY Zenon, <3>1 DEF StartFixResults, StartedFix
    <3>3. SessionTypes'
      BY <1>1, <3>1, <3>2 DEF SessionTypes, NoFix, Modes
    <3>4. FixFollows'
      BY SMTT(30), <1>1, <1>4, <3>1, <3>2 DEF SessionTypes, FixFollows, NoFix, Recurrences
    <3> QED
      BY Zenon, <3>3, <3>4
  <2> QED
    BY Zenon, <2>2, <2>3 DEF SessionTypes
<1>5. CASE m[1] = "stop"
  <2>1. loc_eng_stop_handler
    BY Zenon, <1>1, <1>5 DEF ProcSession
  <2>2. CASE ~mNavigating
    BY Zenon, <1>2, <1>5, <2>1, <2>2 DEF loc_eng_stop_handler
  <2>3. CASE mNavigating
    <3>1. /\ modemFix' = NoFix /\ mNavigating' = FALSE /\ asked' = asked
          /\ mFixCriteria' = [mFixCriteria EXCEPT !.mode = "INVALID"]
      BY Zenon, <2>1, <2>3 DEF loc_eng_stop_handler, setInSession
    <3>2. SessionTypes'
      BY Zenon, <1>1, <3>1 DEF SessionTypes, NoFix, Modes
    <3>3. FixFollows'
      BY Zenon, <1>1, <1>5, <3>1 DEF SessionTypes, FixFollows, NoFix, Recurrences
    <3> QED
      BY Zenon, <3>2, <3>3
  <2> QED
    BY Zenon, <2>2, <2>3
<1>6. CASE m[1] = "position"
  <2>1. PICK status, satellite, intermediate :
       /\ IF muteState # "IN_SESSION" /\ Reported(status, satellite, intermediate)
          THEN IF mFixCriteria.recurrence = "SINGLE"
               THEN /\ setInSession(FALSE, mFixCriteria)
                    /\ modemFix' = IF status = "INTERMEDIATE" THEN NoFix ELSE modemFix
               ELSE UNCHANGED <<mNavigating, mFixCriteria, modemFix>>
          ELSE UNCHANGED <<mNavigating, mFixCriteria, modemFix>>
       /\ asked' = asked
    BY Zenon, <1>1, <1>6 DEF ProcSession, LocEngReportPosition
  <2>2. CASE UNCHANGED <<mNavigating, mFixCriteria, modemFix>>
    BY Zenon, <1>2, <1>6, <2>1, <2>2
  <2>3. CASE ~UNCHANGED <<mNavigating, mFixCriteria, modemFix>>
    <3>1. /\ mFixCriteria.recurrence = "SINGLE" /\ mNavigating' = FALSE /\ asked' = asked
          /\ mFixCriteria' = [mFixCriteria EXCEPT !.mode = "INVALID"]
          /\ modemFix' = NoFix \/ modemFix' = modemFix
      BY Zenon, <2>1, <2>3 DEF setInSession
    <3>2. SessionTypes'
      <4>1. mFixCriteria' \in [mode : Modes, recurrence : Recurrences]
        BY Zenon, <3>1 DEF SessionTypes, Modes
      <4>2. modemFix' \in FixRecs
        BY Zenon, <3>1, NoFixIsFix DEF SessionTypes, FixRecs
      <4> QED
        BY Zenon, <1>1, <3>1, <4>1, <4>2 DEF SessionTypes, FixRecs
    <3>3. FixFollows'
      BY <1>1, <1>6, <3>1 DEF SessionTypes, FixFollows, NoFix, Recurrences
    <3> QED
      BY Zenon, <3>2, <3>3
  <2> QED
    BY Zenon, <2>2, <2>3
<1>7. CASE m[1] \in {"status", "sv", "measurement", "nmea", "delete", "down"}
  BY Zenon, <1>1, <1>2, <1>7 DEF ProcSession, Unmoved
<1>8. CASE m[1] = "up"
  <2>1. restarts # 0 /\ EngineUp /\ asked' = asked
    BY Zenon, <1>1, <1>8 DEF ProcSession, FixFollows
  <2>2. CASE ~mNavigating
    <3>1. UNCHANGED <<mNavigating, mFixCriteria, modemFix, asked>>
      BY Zenon, <2>1, <2>2 DEF EngineUp
    <3> QED
      BY Zenon, <1>1, <2>1, <2>2, <3>1 DEF SessionTypes, FixFollows
  <2>3. CASE mNavigating
    <3> DEFINE c == [mFixCriteria EXCEPT !.mode = "INVALID"]
    <3>1. c \in [mode : Modes, recurrence : Recurrences] /\ c.mode = "INVALID"
          /\ c.recurrence = mFixCriteria.recurrence
      BY Zenon DEF SessionTypes, Modes
    <3>2. PICK result \in StartFixResults :
            modemFix' = StartedFix(c, result) /\ setInSession(result # "GENERAL_FAILURE", c)
      BY Zenon, <2>1, <2>3 DEF EngineUp, StartWith
    <3> HIDE DEF c
    <3>3. \/ /\ modemUp /\ mNavigating' = TRUE /\ modemFix' = c /\ mFixCriteria' = c
          \/ /\ modemUp /\ mNavigating' = TRUE /\ mFixCriteria' = c
             /\ modemFix' = [c EXCEPT !.recurrence = "offline"]
          \/ /\ modemUp /\ mNavigating' = FALSE /\ modemFix' = NoFix
             /\ mFixCriteria' = [c EXCEPT !.mode = "INVALID"]
          \/ /\ ~modemUp /\ mNavigating' = TRUE /\ modemFix' = modemFix /\ mFixCriteria' = c
      BY Zenon, <3>2 DEF StartFixResults, StartedFix, setInSession
    <3>4. SessionTypes'
      <4>1. [c EXCEPT !.mode = "INVALID"] \in [mode : Modes, recurrence : Recurrences]
        BY Zenon, <3>1 DEF Modes
      <4>2. [c EXCEPT !.recurrence = "offline"] \in FixRecs /\ c \in FixRecs
        BY Zenon, <3>1 DEF FixRecs
      <4>3. mFixCriteria' \in [mode : Modes, recurrence : Recurrences] /\ mNavigating' \in BOOLEAN
        BY ZenonT(30), <3>1, <3>3, <4>1
      <4>4. modemFix' \in FixRecs
        BY Zenon, <3>3, <4>2, NoFixIsFix DEF SessionTypes, FixRecs
      <4> QED
        BY Zenon, <1>1, <4>3, <4>4 DEF SessionTypes, FixRecs
    <3>5. FixFollows'
      BY SMTT(30), <1>1, <2>1, <3>1, <3>3 DEF SessionTypes, FixFollows, NoFix, Recurrences
    <3> QED
      BY Zenon, <3>4, <3>5
  <2> QED
    BY Zenon, <2>2, <2>3
<1>9. m[1] \in {"mode", "start", "stop", "position", "status", "sv", "measurement", "nmea",
                "delete", "down", "up"}
  BY <1>1 DEF SessionMsgs
<1> QED
  BY Zenon, <1>3, <1>4, <1>5, <1>6, <1>7, <1>8, <1>9

\* Every step of the framework, of the modem and of the engine keeps the
\* invariant.
LEMMA SessionStep == SessionInv /\ [SessionNext]_sessionVars => SessionInv'
<1> SUFFICES ASSUME SessionInv, [SessionNext]_sessionVars PROVE SessionInv'
  BY Zenon
<1>1. CASE UNCHANGED sessionVars \/ loc_eng_mute_one_session
  BY <1>1 DEF sessionVars, loc_eng_mute_one_session, SessionInv, SessionTypes, FixFollows, UpPending
<1>2. ASSUME NEW m \in SessionMsgs, PostSession(m), m[1] # "up",
             UNCHANGED <<mNavigating, mFixCriteria, modemUp, modemFix, asked, restarts>>
      PROVE  SessionInv'
  BY Zenon, <1>2, PostedStep DEF PostSession
<1>3. CASE \E r \in Recurrences : loc_eng_set_position_mode(r)
  BY Zenon, <1>2, <1>3 DEF loc_eng_set_position_mode, SessionMsgs
<1>4. ASSUME NEW kind \in {"start", "stop", "delete"}, loc_eng_call(kind) PROVE SessionInv'
  <2>1. <<kind>> \in SessionMsgs /\ <<kind>>[1] # "up"
    BY Zenon DEF SessionMsgs
  <2> QED
    BY Zenon, <1>2, <1>4, <2>1 DEF loc_eng_call
<1>5. ASSUME NEW status \in {"SUCCESS", "INTERMEDIATE", "FAILURE"}, NEW satellite \in BOOLEAN,
             ModemReportsPosition(status, satellite)
      PROVE  SessionInv'
  <2> DEFINE m == <<"position", status, satellite>>
  <2>1. m \in SessionMsgs /\ m[1] = "position"
    BY Zenon DEF SessionMsgs
  <2>2. sessionQ' = Append(sessionQ, m)
    BY Zenon, <1>5 DEF ModemReportsPosition, PostSession
  <2> HIDE DEF m
  <2>3. sessionQ' \in Seq(SessionMsgs) /\ (UpPending' <=> UpPending)
    BY Zenon, <2>1, <2>2, Posted DEF SessionInv
  <2>4. /\ modemUp
        /\ modemFix' = modemFix \/ (modemFix.recurrence = "SINGLE" /\ modemFix' = NoFix)
        /\ UNCHANGED <<mNavigating, mFixCriteria, modemUp, asked, restarts>>
    BY Zenon, <1>5 DEF ModemReportsPosition
  <2> QED
    BY <2>3, <2>4 DEF SessionInv, SessionTypes, FixFollows, NoFix, Modes, Recurrences
<1>6. CASE \E s \in {"SESSION_BEGIN", "SESSION_END", "ENGINE_ON", "ENGINE_OFF"} :
             ModemReports(<<"status", s>>)
  BY Zenon, <1>2, <1>6 DEF ModemReports, SessionMsgs
<1>7. ASSUME NEW report \in {"sv", "nmea", "measurement"}, ModemReports(<<report>>)
      PROVE  SessionInv'
  <2>1. <<report>> \in SessionMsgs /\ <<report>>[1] # "up"
    BY Zenon DEF SessionMsgs
  <2> QED
    BY Zenon, <1>2, <1>7, <2>1 DEF ModemReports
<1>8. CASE ModemFails
  <2>1. <<"down">> \in SessionMsgs
    BY Zenon DEF SessionMsgs
  <2>2. sessionQ' \in Seq(SessionMsgs)
    BY Zenon, <1>8, <2>1, Posted DEF ModemFails, SessionInv
  <2>3. SessionTypes' /\ restarts' # 0 /\ modemUp' = FALSE /\ modemFix'.recurrence = "none"
    <3>1. restarts' \in Nat /\ restarts' # 0
      BY <1>8 DEF ModemFails, SessionInv, SessionTypes
    <3>2. /\ modemUp' = FALSE /\ modemFix' = NoFix
          /\ UNCHANGED <<mNavigating, mFixCriteria>>
      BY Zenon, <1>8 DEF ModemFails
    <3> QED
      BY ZenonT(30), <2>2, <3>1, <3>2, NoFixIsFix DEF SessionInv, SessionTypes, FixRecs
  <2> QED
    BY Zenon, <1>8, <2>2, <2>3 DEF SessionInv, FixFollows, Recurrences, ModemFails
<1>9. CASE ModemRecovers
  <2>1. <<"up">> \in SessionMsgs /\ <<"up">>[1] = "up"
    BY Zenon DEF SessionMsgs
  <2>2. sessionQ' \in Seq(SessionMsgs) /\ UpPending'
    BY Zenon, <1>9, <2>1, Posted DEF ModemRecovers, SessionInv
  <2> QED
    BY Zenon, <1>9, <2>2 DEF ModemRecovers, SessionInv, SessionTypes, FixFollows, Recurrences
<1> QED
  BY Zenon, <1>1, <1>3, <1>4, <1>5, <1>6, <1>7, <1>8, <1>9, ThreadStep DEF SessionNext,
     loc_eng_cleanup

\* For any bounds on messages and restarts: when the engine has handled what
\* it was sent and the modem is up, the modem navigates periodically exactly
\* when the engine believes so, with the mode that was asked for unless the
\* modem was restarted (loc_eng.cpp).
THEOREM ModemFollowsSession == SessionSpec => []NavigationMatches
<1>1. SessionInv => NavigationMatches
  <2> SUFFICES ASSUME SessionInv, Settled PROVE NavigationMatches
    BY Zenon DEF NavigationMatches
  <2>1. modemUp /\ ~UpPending
    BY DEF Settled, UpPending
  <2> QED
    BY Zenon, <2>1 DEF SessionInv, FixFollows, NavigationMatches
<1> QED
  BY SessionInitInv, SessionStep, <1>1, PTL DEF SessionSpec

------------------------------------------------------------------------------
(* The configuration of the GPS modem. *)

\* Some items with a value each: what a message to the modem carries.
Settings == UNION {[D -> Int] : D \in SUBSET ConfItems}

\* The messages of the engine's queue.
ConfMsgs == {<<"init">>, <<"up">>, <<"lock">>} \cup ({"set"} \X Settings)

\* The types of the configuration's state; loc_eng_reinit reads once before it
\* posts.
ConfigTypes ==
  /\ kept \in [ConfItems -> Int] /\ modemHas \in [ConfItems -> Int]
  /\ confQ \in Seq(ConfMsgs)
  /\ rereading \subseteq Settings /\ (\A r, q \in rereading : r = q)
  /\ agpsReady \in BOOLEAN /\ confUp \in BOOLEAN
  /\ overtaken \subseteq ConfItems

\* A message that tells the modem item i.
Sets(m, i) == m[1] = "set" /\ i \in DOMAIN m[2]

\* No message in the queue tells the modem item i.
NoneSets(q, i) == \A k \in 1 .. Len(q) : ~Sets(q[k], i)

\* The last the modem is told of item i, when the messages of the queue q
\* reach it, is v. It has m now.
ToldLast(q, m, i, v) ==
  \/ \E k \in 1 .. Len(q) : /\ Sets(q[k], i) /\ q[k][2][i] = v
                            /\ \A l \in 1 .. Len(q) : k < l => ~Sets(q[l], i)
  \/ m = v /\ NoneSets(q, i)

\* A message of this kind is in the queue.
Queued(q, kind) == \E k \in 1 .. Len(q) : q[k][1] = kind

\* A message is in the queue that will have the engine read item i again.
Restoring(q, i) == \E kind \in {"init", "up"} : Queued(q, kind) /\ i \in ReadItems(kind)

\* What the engine owes the modem about item i while it keeps it: the modem is
\* down, or the item is going to be read again, or was read and is about to be
\* posted, or the last message about it carries the value that is kept.
Holds(i) ==
  \/ ~confUp
  \/ Restoring(confQ, i)
  \/ \E r \in rereading : i \in DOMAIN r
  \/ ToldLast(confQ, modemHas[i], i, kept[i])

\* The items that a restart repeats, but for those that were overtaken.
InScope == (Reinitialised \cup (IF agpsReady THEN ServerItems ELSE {})) \ overtaken

\* A server that the framework never set is not told to the modem.
NeverTold(i) == modemHas[i] = 0 /\ NoneSets(confQ, i) /\ (\A r \in rereading : i \notin DOMAIN r)

\* What loc_eng_reinit and loc_eng_agps_reinit may read.
Repeated == Reinitialised \cup ServerItems

\* The settings that were read and not yet posted are those that are kept,
\* unless they were overtaken.
RereadCurrent ==
  \A r \in rereading : DOMAIN r \subseteq Repeated /\ \A i \in DOMAIN r \ overtaken : r[i] = kept[i]

\* A server that is not set is 0 for the modem too: loc_eng_agps_reinit passes
\* it over.
ServersUnset == \A i \in ServerItems : kept[i] >= 0 /\ (kept[i] = 0 => NeverTold(i))

\* The engine keeps what it owes for every item.
AllHold == \A i \in InScope : Holds(i)

\* The inductive invariant. ConfigRestored speaks of an empty queue only; this
\* says what is still in the queue, or still to be put there, for each item
\* whose value the modem does not have.
ConfigInv == ConfigTypes /\ RereadCurrent /\ ServersUnset /\ AllHold

\* A function on some of the items is a setting.
LEMMA SettingType ==
  ASSUME NEW D \in SUBSET ConfItems, NEW f \in [D -> Int] PROVE f \in Settings
BY Zenon DEF Settings

\* A setting is a function on some of the items.
LEMMA SettingParts ==
  ASSUME NEW f \in Settings PROVE DOMAIN f \subseteq ConfItems /\ \A i \in DOMAIN f : f[i] \in Int
BY Zenon DEF Settings

\* The kinds of messages.
LEMMA MsgTypes ==
  /\ <<"init">> \in ConfMsgs /\ <<"up">> \in ConfMsgs /\ <<"lock">> \in ConfMsgs
  /\ \A f \in Settings : <<"set", f>> \in ConfMsgs
  /\ \A m \in ConfMsgs : m[1] = "set" => m[2] \in Settings
  /\ \A m \in ConfMsgs : m[1] \in {"init", "up", "lock", "set"}
<1>1. \A m \in {"set"} \X Settings : m[1] = "set" /\ m[2] \in Settings
  BY Zenon
<1>2. \A m \in {<<"init">>, <<"up">>, <<"lock">>} : m[1] # "set" /\ m[1] \in {"init", "up", "lock"}
  OBVIOUS
<1>3. \A f \in Settings : <<"set", f>> \in {"set"} \X Settings
  BY Zenon
<1> QED BY <1>1, <1>2, <1>3, Zenon DEF ConfMsgs

\* What Append does to the entries of a queue.
LEMMA AppendFacts ==
  ASSUME NEW S, NEW q \in Seq(S), NEW e \in S
  PROVE  /\ Append(q, e) \in Seq(S) /\ Len(Append(q, e)) = Len(q) + 1 /\ Len(q) \in Nat
         /\ \A k \in 1 .. Len(q) : Append(q, e)[k] = q[k]
         /\ Append(q, e)[Len(q) + 1] = e
OBVIOUS

\* A message at the end of the queue: one about item i is now the last about
\* it, any other leaves it as it was.
LEMMA ToldAppend ==
  ASSUME NEW q \in Seq(ConfMsgs), NEW e \in ConfMsgs, NEW i, NEW m, NEW v
  PROVE  /\ ~Sets(e, i) /\ ToldLast(q, m, i, v) => ToldLast(Append(q, e), m, i, v)
         /\ Sets(e, i) /\ e[2][i] = v => ToldLast(Append(q, e), m, i, v)
         /\ ~Sets(e, i) /\ NoneSets(q, i) => NoneSets(Append(q, e), i)
         /\ \A kind : Queued(q, kind) \/ e[1] = kind => Queued(Append(q, e), kind)
<1> DEFINE n == Len(q)
           a == Append(q, e)
<1>1. /\ n \in Nat /\ Len(a) = n + 1 /\ (\A k \in 1 .. n : a[k] = q[k]) /\ a[n + 1] = e
  BY AppendFacts
<1> HIDE DEF n, a
<1>2. ~Sets(e, i) /\ NoneSets(q, i) => NoneSets(a, i)
  BY <1>1 DEF NoneSets, n
<1>3. ASSUME ~Sets(e, i), ToldLast(q, m, i, v) PROVE ToldLast(a, m, i, v)
  <2>1. CASE m = v /\ NoneSets(q, i)
    BY Zenon, <2>1, <1>2, <1>3 DEF ToldLast
  <2>2. CASE ~(m = v /\ NoneSets(q, i))
    <3>1. PICK k \in 1 .. n : /\ Sets(q[k], i) /\ q[k][2][i] = v
                              /\ \A l \in 1 .. n : k < l => ~Sets(q[l], i)
      BY Zenon, <2>2, <1>3 DEF ToldLast, n
    <3>2. k \in 1 .. Len(a) /\ a[k] = q[k]
      BY <1>1
    <3>3. \A l \in 1 .. Len(a) : k < l => ~Sets(a[l], i)
      BY <1>1, <1>3, <3>1
    <3> QED BY Zenon, <3>1, <3>2, <3>3 DEF ToldLast
  <2> QED BY Zenon, <2>1, <2>2
<1>4. Sets(e, i) /\ e[2][i] = v => ToldLast(a, m, i, v)
  <2>1. n + 1 \in 1 .. Len(a) /\ \A l \in 1 .. Len(a) : ~(n + 1 < l)
    BY <1>1
  <2> QED BY Zenon, <1>1, <2>1 DEF ToldLast
<1>5. ASSUME NEW kind, Queued(q, kind) \/ e[1] = kind PROVE Queued(a, kind)
  <2>1. n + 1 \in 1 .. Len(a) /\ \A k \in 1 .. n : k \in 1 .. Len(a)
    BY <1>1
  <2> QED BY Zenon, <1>1, <1>5, <2>1 DEF Queued, n
<1> QED BY Zenon, <1>2, <1>3, <1>4, <1>5 DEF a

\* What Tail does to the entries of a queue.
LEMMA TailFacts ==
  ASSUME NEW S, NEW q \in Seq(S), q # << >>
  PROVE  /\ Tail(q) \in Seq(S) /\ Len(Tail(q)) = Len(q) - 1 /\ Len(q) \in Nat \ {0}
         /\ \A k \in 1 .. Len(Tail(q)) : Tail(q)[k] = q[k + 1]
         /\ Head(q) = q[1] /\ Head(q) \in S
OBVIOUS

\* The message at the head of the queue reaches the modem: what it was last
\* told of an item stays the same.
LEMMA ToldTail ==
  ASSUME NEW q \in Seq(ConfMsgs), q # << >>, NEW i, NEW m, NEW w, NEW v,
         w = IF Sets(Head(q), i) THEN Head(q)[2][i] ELSE m
  PROVE  /\ ToldLast(q, m, i, v) => ToldLast(Tail(q), w, i, v)
         /\ NoneSets(q, i) => NoneSets(Tail(q), i) /\ w = m
         /\ \A kind : Queued(q, kind) => Head(q)[1] = kind \/ Queued(Tail(q), kind)
<1> DEFINE n == Len(q)
           t == Tail(q)
<1>1. /\ n \in Nat \ {0} /\ Len(t) = n - 1 /\ Head(q) = q[1]
      /\ \A k \in 1 .. Len(t) : t[k] = q[k + 1]
  BY Zenon, TailFacts
<1> HIDE DEF n, t
<1>2. \A l \in 1 .. Len(t) : l + 1 \in 1 .. n /\ t[l] = q[l + 1]
  BY <1>1
<1>3. 1 \in 1 .. n /\ \A k \in 1 .. n : k # 1 => k - 1 \in 1 .. Len(t) /\ t[k - 1] = q[k]
  BY <1>1
<1>4. NoneSets(q, i) => NoneSets(t, i) /\ w = m
  BY Zenon, <1>1, <1>2, <1>3 DEF NoneSets, n
<1>5. ASSUME ToldLast(q, m, i, v) PROVE ToldLast(t, w, i, v)
  <2>1. CASE m = v /\ NoneSets(q, i)
    BY Zenon, <2>1, <1>4 DEF ToldLast
  <2>2. CASE ~(m = v /\ NoneSets(q, i))
    <3>1. PICK k \in 1 .. n : /\ Sets(q[k], i) /\ q[k][2][i] = v
                              /\ \A l \in 1 .. n : k < l => ~Sets(q[l], i)
      BY Zenon, <2>2, <1>5 DEF ToldLast, n
    <3>2. CASE k = 1
      <4>1. \A l \in 1 .. Len(t) : 1 < l + 1
        BY <1>1
      <4>2. NoneSets(t, i)
        BY Zenon, <3>1, <3>2, <4>1, <1>2 DEF NoneSets
      <4>3. w = v
        BY Zenon, <3>1, <3>2, <1>1
      <4> QED BY Zenon, <4>2, <4>3 DEF ToldLast
    <3>3. CASE k # 1
      <4>1. k - 1 \in 1 .. Len(t) /\ t[k - 1] = q[k]
        BY Zenon, <3>3, <1>3
      <4>2. \A l \in 1 .. Len(t) : k - 1 < l => ~Sets(t[l], i)
        <5>1. \A l \in 1 .. Len(t) : k - 1 < l => k < l + 1
          BY <1>1
        <5> QED BY Zenon, <5>1, <3>1, <1>2
      <4> QED BY Zenon, <3>1, <4>1, <4>2 DEF ToldLast
    <3> QED BY Zenon, <3>2, <3>3
  <2> QED BY Zenon, <2>1, <2>2
<1>6. ASSUME NEW kind, Queued(q, kind), Head(q)[1] # kind PROVE Queued(t, kind)
  <2>1. PICK k \in 1 .. n : q[k][1] = kind
    BY Zenon, <1>6 DEF Queued, n
  <2>2. k # 1
    BY Zenon, <2>1, <1>6, <1>1
  <2> QED BY Zenon, <2>1, <2>2, <1>3 DEF Queued
<1> QED BY Zenon, <1>4, <1>5, <1>6 DEF t

\* The queue p follows the queue q with no more about item i.
Grows(q, p, i) ==
  /\ \A m, v : ToldLast(q, m, i, v) => ToldLast(p, m, i, v)
  /\ NoneSets(q, i) => NoneSets(p, i)
  /\ \A kind : Queued(q, kind) => Queued(p, kind)

\* A message about other items leaves item i as it was.
LEMMA GrowsAppend ==
  ASSUME NEW q \in Seq(ConfMsgs), NEW e \in ConfMsgs, NEW i, ~Sets(e, i)
  PROVE  Grows(q, Append(q, e), i)
BY ToldAppend, Zenon DEF Grows

\* Two messages about other items leave item i as it was.
LEMMA GrowsTwice ==
  ASSUME NEW q, NEW p, NEW o, NEW i, Grows(q, p, i), Grows(p, o, i) PROVE Grows(q, o, i)
BY Zenon DEF Grows

\* A queue that stays leaves item i as it was.
LEMMA GrowsNot == ASSUME NEW q, NEW i PROVE Grows(q, q, i)
BY Zenon DEF Grows

\* How the items are divided.
LEMMA ItemSets ==
  /\ Repeated \subseteq ConfItems
  /\ Reinitialised \subseteq Repeated /\ ServerItems \subseteq Repeated
  /\ UpdatedItems \subseteq Reinitialised /\ Reinitialised \cap ServerItems = {}
  /\ "DATA" \in Reinitialised /\ "APN" \notin Repeated /\ "GPS_LOCK" \notin Repeated
  /\ "APN" \in ConfItems /\ "GPS_LOCK" \in ConfItems
BY Zenon DEF Repeated, ConfItems, Reinitialised, ServerItems, Unrepeated, FileItems, SensorItems,
       UpdatedItems, NetworkItems

\* loc_eng_reinit reads every item but the servers; loc_eng_agps_reinit reads
\* those servers that are set.
LEMMA ReadParts ==
  ASSUME NEW kind
  PROVE  /\ Reinitialised \subseteq ReadItems(kind) /\ ReadItems(kind) \subseteq Repeated
         /\ agpsReady => \A i \in ServerItems : kept[i] # 0 => i \in ReadItems("up")
         /\ \A i \in ServerItems : kept[i] = 0 => i \notin ReadItems(kind)
BY Zenon, ItemSets DEF ReadItems, ServersSet, Repeated

\* A step that is not about item i keeps what the engine owes about it.
LEMMA HoldsStays ==
  ASSUME NEW i, Holds(i), Grows(confQ, confQ', i), confUp' = confUp, rereading' = rereading,
         modemHas'[i] = modemHas[i], kept'[i] = kept[i],
         \A kind : ReadItems(kind) \subseteq ReadItems(kind)'
  PROVE  Holds(i)'
<1>1. CASE ~confUp
  BY Zenon, <1>1 DEF Holds
<1>2. CASE Restoring(confQ, i)
  <2>1. PICK kind \in {"init", "up"} : Queued(confQ, kind) /\ i \in ReadItems(kind)
    BY <1>2, Zenon DEF Restoring
  <2>2. Queued(confQ', kind) /\ i \in ReadItems(kind)'
    BY <2>1, Zenon DEF Grows
  <2> QED BY <2>2, Zenon DEF Holds, Restoring, Queued
<1>3. CASE \E r \in rereading : i \in DOMAIN r
  BY <1>3, Zenon DEF Holds
<1>4. CASE ToldLast(confQ, modemHas[i], i, kept[i])
  <2>1. ToldLast(confQ', modemHas'[i], i, kept'[i])
    BY <1>4, Zenon DEF Grows
  <2> QED BY <2>1, Zenon DEF Holds, ToldLast, NoneSets, Sets
<1> QED BY Zenon, <1>1, <1>2, <1>3, <1>4 DEF Holds

\* A step that is not about a server leaves it unset.
LEMMA UnsetStays ==
  ASSUME NEW i, NeverTold(i), NoneSets(confQ, i) => NoneSets(confQ', i),
         rereading' = rereading, modemHas'[i] = modemHas[i]
  PROVE  NeverTold(i)'
BY Zenon DEF NeverTold, NoneSets, Sets

\* No step makes the engine read less: a server that is set stays set.
LEMMA ReadGrows ==
  ASSUME agpsReady => agpsReady', \A i \in ServerItems : kept[i] # 0 => kept'[i] # 0
  PROVE  \A kind : ReadItems(kind) \subseteq ReadItems(kind)'
BY Zenon DEF ReadItems, ServersSet

\* A change by the framework keeps the invariant: every item in C that it
\* changes is either posted behind all other messages, with the new value and
\* nothing read in between, or overtaken.
LEMMA UpdateStep ==
  ASSUME ConfigInv, ConfUpdate, agpsReady' = agpsReady, NEW C \in SUBSET Repeated,
         kept' \in [ConfItems -> Int], confQ' \in Seq(ConfMsgs),
         overtaken \subseteq overtaken', overtaken' \subseteq ConfItems,
         \A i \in Repeated \ C : kept'[i] = kept[i] /\ Grows(confQ, confQ', i),
         \A i \in C \ overtaken' :
           rereading = {} /\ ToldLast(confQ', modemHas[i], i, kept'[i]),
         \A i \in C \cap ServerItems : kept'[i] > 0
  PROVE  ConfigInv'
<1> USE DEF ConfigInv
<1>1. modemHas' = modemHas /\ rereading' = rereading /\ confUp' = confUp
  BY Zenon DEF ConfUpdate
<1>2. ConfigTypes'
  BY Zenon, <1>1 DEF ConfigTypes
<1>3. RereadCurrent'
  <2> SUFFICES ASSUME NEW r \in rereading'
               PROVE  /\ DOMAIN r \subseteq Repeated
                      /\ \A i \in DOMAIN r \ overtaken' : r[i] = kept'[i]
    BY Zenon DEF RereadCurrent
  <2>1. DOMAIN r \subseteq Repeated /\ \A i \in DOMAIN r \ overtaken : r[i] = kept[i]
    BY Zenon, <1>1 DEF RereadCurrent
  <2>2. ASSUME NEW i \in DOMAIN r \ overtaken' PROVE r[i] = kept'[i]
    <3>1. i \notin C
      BY Zenon, <1>1
    <3> QED BY Zenon, <3>1, <2>1
  <2> QED BY Zenon, <2>1, <2>2
<1>4. ServersUnset'
  <2> SUFFICES ASSUME NEW i \in ServerItems
               PROVE  kept'[i] >= 0 /\ (kept'[i] = 0 => NeverTold(i)')
    BY Zenon DEF ServersUnset
  <2>1. CASE i \in C
    <3>1. kept'[i] > 0 /\ kept'[i] \in Int
      BY Zenon, <2>1, ItemSets
    <3> QED BY <3>1
  <2>2. CASE i \notin C
    <3>1. kept'[i] = kept[i] /\ Grows(confQ, confQ', i)
      BY Zenon, <2>2, ItemSets
    <3>2. kept[i] >= 0 /\ (kept[i] = 0 => NeverTold(i))
      BY Zenon DEF ServersUnset
    <3>3. NeverTold(i) => NeverTold(i)'
      BY Zenon, <1>1, <3>1, UnsetStays DEF Grows
    <3> QED BY Zenon, <3>1, <3>2, <3>3
  <2> QED BY Zenon, <2>1, <2>2
<1>5. \A kind : ReadItems(kind) \subseteq ReadItems(kind)'
  <2>1. ASSUME NEW i \in ServerItems, kept[i] # 0 PROVE kept'[i] # 0
    <3>1. CASE i \in C
      BY <3>1, ItemSets
    <3>2. CASE i \notin C
      BY Zenon, <3>2, <2>1, ItemSets
    <3> QED BY Zenon, <3>1, <3>2
  <2> QED BY Zenon, <2>1, ReadGrows
<1>6. AllHold'
  <2> SUFFICES ASSUME NEW i \in InScope' PROVE Holds(i)'
    BY Zenon DEF AllHold
  <2>1. i \in InScope /\ i \in Repeated /\ i \notin overtaken'
    BY Zenon DEF InScope, Repeated
  <2>2. CASE i \in C
    <3>1. ToldLast(confQ', modemHas[i], i, kept'[i])
      BY Zenon, <2>1, <2>2
    <3>2. ToldLast(confQ', modemHas'[i], i, kept'[i])
      BY Zenon, <3>1, <1>1
    <3> QED BY <3>2, Zenon DEF Holds, ToldLast, NoneSets, Sets
  <2>3. CASE i \notin C
    <3>1. Holds(i) /\ kept'[i] = kept[i] /\ Grows(confQ, confQ', i) /\ modemHas'[i] = modemHas[i]
      BY Zenon, <2>1, <2>3, <1>1 DEF AllHold
    <3> QED BY Zenon, <3>1, <1>1, <1>5, HoldsStays
  <2> QED BY Zenon, <2>2, <2>3
<1> QED BY Zenon, <1>2, <1>3, <1>4, <1>6

\* loc_eng_configuration_update keeps the invariant.
LEMMA ConfigurationStep ==
  ASSUME ConfigInv, NEW changed \in SUBSET Changing, loc_eng_configuration_update(changed)
  PROVE  ConfigInv'
<1> DEFINE f == [i \in changed |-> kept'[i]]
           e == <<"set", f>>
           p == Append(confQ, e)
<1>1. changed \subseteq Repeated /\ changed \subseteq ConfItems /\ changed \cap ServerItems = {}
  BY Zenon, ConfigAssumption, ItemSets
<1>2. kept \in [ConfItems -> Int] /\ confQ \in Seq(ConfMsgs) /\ overtaken \subseteq ConfItems
  BY Zenon DEF ConfigInv, ConfigTypes
<1>3. kept' \in [ConfItems -> Int] /\ \A i \in ConfItems \ changed : kept'[i] = kept[i]
  BY <1>2 DEF loc_eng_configuration_update
<1>4. e \in ConfMsgs /\ <<"lock">> \in ConfMsgs
  <2>1. f \in [changed -> Int]
    BY Zenon, <1>1, <1>3
  <2>2. f \in Settings
    BY Zenon, <2>1, <1>1, SettingType
  <2> QED BY <2>2, MsgTypes, Zenon
<1>5. confQ' = Append(p, <<"lock">>)
  <2>1. confQ' = confQ \o << e, <<"lock">> >>
    BY Zenon DEF loc_eng_configuration_update
  <2> HIDE DEF e
  <2> QED BY <2>1, <1>2, <1>4
<1>6. p \in Seq(ConfMsgs) /\ confQ' \in Seq(ConfMsgs)
  <2> HIDE DEF e
  <2>1. p \in Seq(ConfMsgs)
    BY Zenon, <1>2, <1>4, AppendFacts
  <2> QED BY Zenon, <2>1, <1>4, <1>5, AppendFacts
<1>7. \A i : Sets(e, i) <=> i \in changed
  BY Zenon DEF Sets
<1>8. \A i : ~Sets(<<"lock">>, i)
  BY Zenon DEF Sets
<1>9. \A i \in changed : e[2][i] = kept'[i]
  BY Zenon
<1> HIDE DEF e
<1>10. ASSUME NEW i \in Repeated \ changed PROVE kept'[i] = kept[i] /\ Grows(confQ, confQ', i)
  <2>1. Grows(confQ, p, i)
    BY Zenon, <1>2, <1>4, <1>7, GrowsAppend
  <2>2. Grows(p, confQ', i)
    BY Zenon, <1>4, <1>5, <1>6, <1>8, GrowsAppend
  <2>3. Grows(confQ, confQ', i)
    BY Zenon, <2>1, <2>2, GrowsTwice
  <2> QED BY Zenon, <2>3, <1>3, ItemSets
<1>11. ASSUME NEW i \in changed \ overtaken'
       PROVE  rereading = {} /\ ToldLast(confQ', modemHas[i], i, kept'[i])
  <2>1. rereading = {}
    BY Zenon DEF loc_eng_configuration_update, Overtakes
  <2>2. ToldLast(p, modemHas[i], i, kept'[i])
    BY Zenon, <1>2, <1>4, <1>7, <1>9, ToldAppend
  <2>3. Grows(p, confQ', i)
    BY Zenon, <1>4, <1>5, <1>6, <1>8, GrowsAppend
  <2> QED BY <2>1, <2>2, <2>3, Zenon DEF Grows
<1>12. overtaken \subseteq overtaken' /\ overtaken' \subseteq ConfItems
  BY Zenon, <1>1, <1>2 DEF loc_eng_configuration_update, Overtakes
<1>13. ConfUpdate /\ agpsReady' = agpsReady
  BY Zenon DEF loc_eng_configuration_update
<1> QED BY Zenon, <1>1, <1>3, <1>6, <1>10, <1>11, <1>12, <1>13, UpdateStep

\* loc_eng_set_server_proxy keeps the invariant.
LEMMA ServerStep ==
  ASSUME ConfigInv, NEW s \in Servers, loc_eng_set_server_proxy(s)
  PROVE  ConfigInv'
<1> DEFINE f == [i \in {s} |-> kept[s] + 1]
           e == <<"set", f>>
<1>1. s \in ServerItems /\ s \in Repeated /\ s \in ConfItems
  BY Zenon, ConfigAssumption, ItemSets
<1>2. kept \in [ConfItems -> Int] /\ confQ \in Seq(ConfMsgs) /\ overtaken \subseteq ConfItems
      /\ kept[s] >= 0
  BY Zenon, <1>1 DEF ConfigInv, ConfigTypes, ServersUnset
<1>3. /\ kept' \in [ConfItems -> Int] /\ (\A i \in ConfItems \ {s} : kept'[i] = kept[i])
      /\ kept'[s] = kept[s] + 1 /\ kept'[s] > 0
  BY <1>1, <1>2 DEF loc_eng_set_server_proxy
<1>4. e \in ConfMsgs
  <2>1. f \in [{s} -> Int]
    BY <1>1, <1>2
  <2>2. f \in Settings
    BY Zenon, <2>1, <1>1, SettingType
  <2> QED BY <2>2, MsgTypes, Zenon
<1>5. confQ' = Append(confQ, e)
  BY Zenon DEF loc_eng_set_server_proxy
<1>6. \A i : Sets(e, i) <=> i = s
  BY Zenon DEF Sets
<1>7. e[2][s] = kept'[s]
  BY Zenon, <1>3
<1> HIDE DEF e
<1>8. confQ' \in Seq(ConfMsgs)
  BY Zenon, <1>2, <1>4, <1>5, AppendFacts
<1>9. ASSUME NEW i \in Repeated \ {s} PROVE kept'[i] = kept[i] /\ Grows(confQ, confQ', i)
  BY Zenon, <1>2, <1>3, <1>4, <1>5, <1>6, GrowsAppend, ItemSets
<1>10. ASSUME NEW i \in {s} \ overtaken'
       PROVE  rereading = {} /\ ToldLast(confQ', modemHas[i], i, kept'[i])
  <2>1. rereading = {}
    BY Zenon DEF loc_eng_set_server_proxy, Overtakes
  <2> QED BY Zenon, <2>1, <1>2, <1>4, <1>5, <1>6, <1>7, ToldAppend
<1>11. overtaken \subseteq overtaken' /\ overtaken' \subseteq ConfItems
  BY Zenon, <1>1, <1>2 DEF loc_eng_set_server_proxy, Overtakes
<1>12. ConfUpdate /\ agpsReady' = agpsReady
  BY Zenon DEF loc_eng_set_server_proxy
<1>13. {s} \in SUBSET Repeated /\ \A i \in {s} \cap ServerItems : kept'[i] > 0
  BY Zenon, <1>1, <1>3
<1> QED BY Zenon, <1>3, <1>8, <1>9, <1>10, <1>11, <1>12, <1>13, UpdateStep

\* loc_eng_agps_ril_update_network_availability keeps the invariant.
LEMMA NetworkStep ==
  ASSUME ConfigInv, NEW available \in {0, 1}, NEW withApn \in BOOLEAN,
         update_network_availability(available, withApn)
  PROVE  ConfigInv'
<1> DEFINE f == [DATA |-> available, APN |-> 1]
           e == <<"set", f>>
<1>1. /\ "DATA" \in Repeated /\ "DATA" \in ConfItems /\ "DATA" \notin ServerItems
      /\ "APN" \in ConfItems /\ "APN" \notin Repeated
  BY Zenon, ItemSets
<1>2. kept \in [ConfItems -> Int] /\ confQ \in Seq(ConfMsgs) /\ overtaken \subseteq ConfItems
  BY Zenon DEF ConfigInv, ConfigTypes
<1>3. /\ kept' \in [ConfItems -> Int] /\ (\A i \in Repeated \ {"DATA"} : kept'[i] = kept[i])
      /\ kept'["DATA"] = available
  BY <1>1, <1>2, ItemSets DEF update_network_availability
<1>4. e \in ConfMsgs
  <2>1. f \in [{"DATA", "APN"} -> Int] /\ {"DATA", "APN"} \in SUBSET ConfItems
    BY <1>1
  <2>2. f \in Settings
    BY Zenon, <2>1, SettingType
  <2> QED BY <2>2, MsgTypes, Zenon
<1>5. confQ' = IF withApn THEN Append(confQ, e) ELSE confQ
  BY Zenon DEF update_network_availability
<1>6. \A i : Sets(e, i) <=> i \in {"DATA", "APN"}
  BY Zenon DEF Sets
<1>7. e[2]["DATA"] = kept'["DATA"]
  BY Zenon, <1>3
<1> HIDE DEF e
<1>8. confQ' \in Seq(ConfMsgs)
  BY Zenon, <1>2, <1>4, <1>5, AppendFacts
<1>9. ASSUME NEW i \in Repeated \ {"DATA"} PROVE kept'[i] = kept[i] /\ Grows(confQ, confQ', i)
  <2>1. ~Sets(e, i)
    BY Zenon, <1>1, <1>6
  <2> QED BY Zenon, <2>1, <1>2, <1>3, <1>4, <1>5, GrowsAppend, GrowsNot
<1>10. ASSUME NEW i \in {"DATA"} \ overtaken'
       PROVE  rereading = {} /\ ToldLast(confQ', modemHas[i], i, kept'[i])
  <2>1. rereading = {} /\ withApn
    BY Zenon DEF update_network_availability, Overtakes
  <2> QED BY Zenon, <2>1, <1>2, <1>4, <1>5, <1>6, <1>7, ToldAppend
<1>11. overtaken \subseteq overtaken' /\ overtaken' \subseteq ConfItems
  BY Zenon, <1>1, <1>2 DEF update_network_availability, Overtakes
<1>12. ConfUpdate /\ agpsReady' = agpsReady
  BY Zenon DEF update_network_availability
<1>13. {"DATA"} \in SUBSET Repeated /\ \A i \in {"DATA"} \cap ServerItems : kept'[i] > 0
  BY Zenon, <1>1
<1> QED BY Zenon, <1>3, <1>8, <1>9, <1>10, <1>11, <1>12, <1>13, UpdateStep

\* loc_eng_agps_init keeps the invariant: the servers come into scope, and
\* those that are set are posted.
LEMMA AgpsInitStep ==
  ASSUME ConfigInv, loc_eng_agps_init PROVE ConfigInv'
<1> DEFINE f == Setting(ServersSet)
           e == <<"set", f>>
<1>1. /\ agpsReady' = TRUE /\ kept' = kept /\ modemHas' = modemHas /\ rereading' = rereading
      /\ confUp' = confUp /\ overtaken' = overtaken /\ confQ' = Append(confQ, e)
  BY Zenon DEF loc_eng_agps_init
<1>2. ConfigTypes /\ kept \in [ConfItems -> Int] /\ confQ \in Seq(ConfMsgs)
  BY Zenon DEF ConfigInv, ConfigTypes
<1>3. e \in ConfMsgs
  <2>1. ServersSet \in SUBSET ConfItems
    BY Zenon, ItemSets DEF ServersSet
  <2>2. f \in [ServersSet -> Int]
    BY Zenon, <2>1, <1>2 DEF Setting
  <2>3. f \in Settings
    BY Zenon, <2>1, <2>2, SettingType
  <2> QED BY <2>3, MsgTypes, Zenon
<1>4. \A i : Sets(e, i) <=> i \in ServersSet
  BY Zenon DEF Sets, Setting
<1>5. \A i \in ServersSet : e[2][i] = kept[i]
  BY Zenon DEF Setting
<1> HIDE DEF e
<1>6. ConfigTypes'
  <2>1. confQ' \in Seq(ConfMsgs)
    BY Zenon, <1>1, <1>2, <1>3, AppendFacts
  <2> QED BY Zenon, <1>1, <1>2, <2>1 DEF ConfigTypes
<1>7. RereadCurrent'
  BY Zenon, <1>1 DEF ConfigInv, RereadCurrent
<1>8. ASSUME NEW i, i \notin ServersSet PROVE Grows(confQ, confQ', i)
  BY Zenon, <1>1, <1>2, <1>3, <1>4, <1>8, GrowsAppend
<1>9. ServersUnset'
  <2> SUFFICES ASSUME NEW i \in ServerItems
               PROVE  kept[i] >= 0 /\ (kept[i] = 0 => NeverTold(i)')
    BY <1>1, Zenon DEF ServersUnset
  <2>1. kept[i] >= 0 /\ (kept[i] = 0 => NeverTold(i))
    BY Zenon DEF ConfigInv, ServersUnset
  <2>2. ASSUME kept[i] = 0 PROVE NeverTold(i)'
    <3>1. Grows(confQ, confQ', i)
      BY Zenon, <2>2, <1>8 DEF ServersSet
    <3> QED BY Zenon, <3>1, <2>1, <2>2, <1>1, UnsetStays DEF Grows
  <2> QED BY Zenon, <2>1, <2>2
<1>10. AllHold'
  <2> SUFFICES ASSUME NEW i \in InScope' PROVE Holds(i)'
    BY Zenon DEF AllHold
  <2>1. CASE i \in ServersSet
    <3>1. ToldLast(confQ', modemHas[i], i, kept[i])
      BY Zenon, <2>1, <1>1, <1>2, <1>3, <1>4, <1>5, ToldAppend
    <3>2. ToldLast(confQ', modemHas'[i], i, kept'[i])
      BY Zenon, <3>1, <1>1
    <3> QED BY <3>2, Zenon DEF Holds, ToldLast, NoneSets, Sets
  <2>2. CASE i \in ServerItems \ ServersSet
    <3>1. kept[i] = 0 /\ NeverTold(i)'
      BY Zenon, <2>2, <1>1, <1>9 DEF ServersSet, ServersUnset
    <3>2. modemHas'[i] = kept'[i] /\ NoneSets(confQ', i)
      BY Zenon, <3>1, <1>1 DEF NeverTold, NoneSets, Sets
    <3> QED BY <3>2, Zenon DEF Holds, ToldLast, NoneSets, Sets
  <2>3. CASE i \notin ServerItems
    <3>1. i \in InScope /\ i \notin ServersSet
      BY Zenon, <2>3, <1>1 DEF InScope, ServersSet
    <3>2. Holds(i) /\ Grows(confQ, confQ', i)
      BY Zenon, <3>1, <1>8 DEF ConfigInv, AllHold
    <3>3. \A kind : ReadItems(kind) \subseteq ReadItems(kind)'
      BY Zenon, <1>1, ReadGrows
    <3> QED BY Zenon, <3>2, <3>3, <1>1, HoldsStays
  <2> QED BY Zenon, <2>1, <2>2, <2>3
<1> QED BY Zenon, <1>6, <1>7, <1>9, <1>10 DEF ConfigInv

\* A modem that goes down keeps the invariant: nothing is owed until it
\* returns.
LEMMA ForgetStep ==
  ASSUME ConfigInv, ModemForgets PROVE ConfigInv'
<1>1. /\ confUp' = FALSE /\ modemHas' = [i \in ConfItems |-> 0]
      /\ UNCHANGED <<kept, confQ, rereading, agpsReady, overtaken>>
  BY Zenon DEF ModemForgets
<1>2. ConfigTypes' /\ RereadCurrent'
  <2>1. modemHas' \in [ConfItems -> Int]
    BY <1>1
  <2>2. ConfigTypes'
    BY Zenon, <1>1, <2>1 DEF ConfigInv, ConfigTypes
  <2>3. RereadCurrent'
    BY Zenon, <1>1 DEF ConfigInv, RereadCurrent
  <2> QED BY Zenon, <2>2, <2>3
<1>3. ServersUnset'
  <2> SUFFICES ASSUME NEW i \in ServerItems
               PROVE  kept[i] >= 0 /\ (kept[i] = 0 => NeverTold(i)')
    BY <1>1, Zenon DEF ServersUnset
  <2>1. kept[i] >= 0 /\ (kept[i] = 0 => NeverTold(i))
    BY Zenon DEF ConfigInv, ServersUnset
  <2>2. modemHas'[i] = 0
    BY Zenon, <1>1, ItemSets
  <2> QED BY <2>1, <2>2, <1>1, Zenon DEF NeverTold, NoneSets, Sets
<1>4. AllHold'
  BY <1>1, Zenon DEF AllHold, Holds
<1> QED BY Zenon, <1>2, <1>3, <1>4 DEF ConfigInv

\* A modem that returns keeps the invariant: what it forgot is going to be
\* read again.
LEMMA ReturnStep ==
  ASSUME ConfigInv, ModemReturns PROVE ConfigInv'
<1>1. /\ confUp' = TRUE /\ confQ' = Append(confQ, <<"up">>)
      /\ UNCHANGED <<kept, modemHas, rereading, agpsReady, overtaken>>
  BY Zenon DEF ModemReturns
<1>2. confQ \in Seq(ConfMsgs) /\ <<"up">> \in ConfMsgs
  BY MsgTypes, Zenon DEF ConfigInv, ConfigTypes
<1>3. ConfigTypes'
  <2>1. confQ' \in Seq(ConfMsgs)
    BY Zenon, <1>1, <1>2, AppendFacts
  <2> QED BY Zenon, <1>1, <2>1 DEF ConfigInv, ConfigTypes
<1>4. RereadCurrent'
  BY Zenon, <1>1 DEF ConfigInv, RereadCurrent
<1>5. \A i : Grows(confQ, confQ', i)
  <2>1. \A i : ~Sets(<<"up">>, i)
    BY Zenon DEF Sets
  <2> QED BY Zenon, <2>1, <1>1, <1>2, GrowsAppend
<1>6. ServersUnset'
  <2> SUFFICES ASSUME NEW i \in ServerItems
               PROVE  kept[i] >= 0 /\ (kept[i] = 0 => NeverTold(i)')
    BY <1>1, Zenon DEF ServersUnset
  <2>1. kept[i] >= 0 /\ (kept[i] = 0 => NeverTold(i))
    BY Zenon DEF ConfigInv, ServersUnset
  <2> QED BY Zenon, <2>1, <1>1, <1>5, UnsetStays DEF Grows
<1>7. AllHold'
  <2> SUFFICES ASSUME NEW i \in InScope' PROVE Holds(i)'
    BY Zenon DEF AllHold
  <2>1. Queued(confQ', "up")
    <3>1. <<"up">>[1] = "up"
      BY Zenon
    <3> QED BY Zenon, <3>1, <1>1, <1>2, ToldAppend
  <2>2. CASE i \in ReadItems("up")
    <3>1. i \in ReadItems("up")'
      BY Zenon, <2>2, <1>1, ReadGrows
    <3> QED BY <3>1, <2>1, Zenon DEF Holds, Restoring, Queued
  <2>3. CASE i \notin ReadItems("up")
    <3>1. i \in ServerItems /\ agpsReady
      BY Zenon, <2>3, <1>1, ReadParts DEF InScope
    <3>2. kept[i] = 0
      BY Zenon, <2>3, <3>1, ReadParts
    <3>3. NeverTold(i)'
      BY Zenon, <3>1, <3>2, <1>6, <1>1 DEF ServersUnset
    <3>4. modemHas'[i] = kept'[i] /\ NoneSets(confQ', i)
      BY Zenon, <3>2, <3>3, <1>1 DEF NeverTold, NoneSets, Sets
    <3> QED BY <3>4, Zenon DEF Holds, ToldLast, NoneSets, Sets
  <2> QED BY Zenon, <2>2, <2>3
<1> QED BY Zenon, <1>3, <1>4, <1>6, <1>7 DEF ConfigInv

\* What was read is posted: it is the last about its items, and current.
LEMMA PostStep ==
  ASSUME ConfigInv, NEW setting \in rereading, PostReread(setting) PROVE ConfigInv'
<1> DEFINE e == <<"set", setting>>
<1>1. /\ rereading' = {} /\ confQ' = Append(confQ, e)
      /\ UNCHANGED <<kept, modemHas, agpsReady, confUp, overtaken>>
  BY Zenon DEF PostReread
<1>2. /\ confQ \in Seq(ConfMsgs) /\ setting \in Settings
      /\ \A r \in rereading : r = setting
  BY Zenon DEF ConfigInv, ConfigTypes
<1>3. e \in ConfMsgs
  BY <1>2, MsgTypes, Zenon
<1>4. \A i : Sets(e, i) <=> i \in DOMAIN setting
  BY Zenon DEF Sets
<1>5. \A i : e[2][i] = setting[i]
  BY Zenon
<1> HIDE DEF e
<1>6. ConfigTypes'
  <2>1. confQ' \in Seq(ConfMsgs)
    BY Zenon, <1>1, <1>2, <1>3, AppendFacts
  <2> QED BY Zenon, <1>1, <2>1 DEF ConfigInv, ConfigTypes
<1>7. RereadCurrent'
  BY Zenon, <1>1 DEF RereadCurrent
<1>8. ASSUME NEW i, i \notin DOMAIN setting PROVE Grows(confQ, confQ', i)
  BY Zenon, <1>1, <1>2, <1>3, <1>4, <1>8, GrowsAppend
<1>9. ServersUnset'
  <2> SUFFICES ASSUME NEW i \in ServerItems
               PROVE  kept[i] >= 0 /\ (kept[i] = 0 => NeverTold(i)')
    BY <1>1, Zenon DEF ServersUnset
  <2>1. kept[i] >= 0 /\ (kept[i] = 0 => NeverTold(i))
    BY Zenon DEF ConfigInv, ServersUnset
  <2>2. ASSUME kept[i] = 0 PROVE NeverTold(i)'
    <3>1. NeverTold(i) /\ i \notin DOMAIN setting
      BY Zenon, <2>1, <2>2 DEF NeverTold
    <3>2. NoneSets(confQ', i)
      BY <3>1, <1>8, Zenon DEF Grows, NeverTold
    <3> QED BY <3>1, <3>2, <1>1, Zenon DEF NeverTold, NoneSets, Sets
  <2> QED BY Zenon, <2>1, <2>2
<1>10. AllHold'
  <2> SUFFICES ASSUME NEW i \in InScope' PROVE Holds(i)'
    BY Zenon DEF AllHold
  <2>1. i \in InScope /\ i \notin overtaken /\ Holds(i)
    BY Zenon, <1>1 DEF InScope, ConfigInv, AllHold
  <2>2. CASE i \in DOMAIN setting
    <3>1. e[2][i] = kept[i]
      BY Zenon, <2>1, <2>2, <1>5 DEF ConfigInv, RereadCurrent
    <3>2. ToldLast(confQ', modemHas[i], i, kept[i])
      BY Zenon, <2>2, <3>1, <1>1, <1>2, <1>3, <1>4, ToldAppend
    <3>3. ToldLast(confQ', modemHas'[i], i, kept'[i])
      BY Zenon, <3>2, <1>1
    <3> QED BY <3>3, Zenon DEF Holds, ToldLast, NoneSets, Sets
  <2>3. CASE i \notin DOMAIN setting
    <3>1. Grows(confQ, confQ', i)
      BY Zenon, <2>3, <1>8
    <3>2. CASE ~confUp
      BY Zenon, <3>2, <1>1 DEF Holds
    <3>3. CASE Restoring(confQ, i)
      <4>1. PICK kind \in {"init", "up"} : Queued(confQ, kind) /\ i \in ReadItems(kind)
        BY <3>3, Zenon DEF Restoring
      <4>2. Queued(confQ', kind)
        BY <4>1, <3>1, Zenon DEF Grows
      <4>3. i \in ReadItems(kind)'
        BY Zenon, <4>1, <1>1, ReadGrows
      <4> QED BY <4>2, <4>3, Zenon DEF Holds, Restoring, Queued
    <3>4. CASE ToldLast(confQ, modemHas[i], i, kept[i])
      <4>1. ToldLast(confQ', modemHas[i], i, kept[i])
        BY <3>1, <3>4, Zenon DEF Grows
      <4>2. ToldLast(confQ', modemHas'[i], i, kept'[i])
        BY Zenon, <4>1, <1>1
      <4> QED BY <4>2, Zenon DEF Holds, ToldLast, NoneSets, Sets
    <3> QED BY Zenon, <2>1, <2>3, <1>2, <3>2, <3>3, <3>4 DEF Holds
  <2> QED BY Zenon, <2>2, <2>3
<1> QED BY Zenon, <1>6, <1>7, <1>9, <1>10 DEF ConfigInv

\* The engine's thread tells the modem a setting or the lock.
LEMMA SetStep ==
  ASSUME ConfigInv, ProcConfig, ProcSet \/ ProcLock PROVE ConfigInv'
<1> DEFINE h == Head(confQ)
<1>1. /\ rereading = {} /\ confQ # << >> /\ confQ' = Tail(confQ) /\ h[1] \in {"set", "lock"}
      /\ UNCHANGED <<kept, agpsReady, confUp, rereading, overtaken>>
  BY Zenon DEF ProcConfig, ProcSet, ProcLock
<1>2. confQ \in Seq(ConfMsgs) /\ modemHas \in [ConfItems -> Int]
  BY Zenon DEF ConfigInv, ConfigTypes
<1>3. confQ' \in Seq(ConfMsgs) /\ h \in ConfMsgs
  BY Zenon, <1>1, <1>2, TailFacts
<1>4. \A i \in Repeated : modemHas'[i] = IF confUp /\ Sets(h, i) THEN h[2][i] ELSE modemHas[i]
  <2>1. CASE ProcSet
    BY Zenon, <2>1, ItemSets DEF ProcSet, TellModem, Sets
  <2>2. CASE ProcLock
    <3>1. \A i : ~Sets(h, i)
      BY Zenon, <2>2 DEF ProcLock, Sets
    <3>2. DOMAIN [GPS_LOCK |-> 1] = {"GPS_LOCK"}
      BY Zenon
    <3> QED BY Zenon, <2>2, <3>1, <3>2, ItemSets DEF ProcLock, TellModem
  <2> QED BY Zenon, <2>1, <2>2
<1>5. modemHas' \in [ConfItems -> Int]
  <2>1. CASE ProcSet
    <3>1. h[2] \in Settings
      BY <2>1, <1>3, MsgTypes, Zenon DEF ProcSet
    <3>2. \A i \in DOMAIN h[2] : h[2][i] \in Int
      BY Zenon, <3>1, SettingParts
    <3> QED BY Zenon, <2>1, <3>2, <1>2 DEF ProcSet, TellModem
  <2>2. CASE ProcLock
    BY <2>2, <1>2 DEF ProcLock, TellModem
  <2> QED BY Zenon, <2>1, <2>2
<1> HIDE DEF h
<1>6. ConfigTypes' /\ RereadCurrent'
  BY Zenon, <1>1, <1>3, <1>5 DEF ConfigInv, ConfigTypes, RereadCurrent
<1>7. ServersUnset'
  <2> SUFFICES ASSUME NEW i \in ServerItems
               PROVE  kept[i] >= 0 /\ (kept[i] = 0 => NeverTold(i)')
    BY <1>1, Zenon DEF ServersUnset
  <2>1. kept[i] >= 0 /\ (kept[i] = 0 => NeverTold(i))
    BY Zenon DEF ConfigInv, ServersUnset
  <2>2. ASSUME NeverTold(i) PROVE NeverTold(i)'
    <3>1. PICK w : w = IF Sets(Head(confQ), i) THEN Head(confQ)[2][i] ELSE modemHas[i]
      BY Zenon
    <3>a. confQ \in Seq(ConfMsgs) /\ confQ # << >> /\ confQ' = Tail(confQ)
      BY Zenon, <1>1, <1>2
    <3>b. NoneSets(confQ, i) => NoneSets(Tail(confQ), i) /\ w = modemHas[i]
      BY ZenonT(60), <3>1, <3>a, ToldTail
    <3>2. NoneSets(confQ, i) => NoneSets(confQ', i) /\ w = modemHas[i]
      BY Zenon, <3>a, <3>b
    <3>3. modemHas'[i] = modemHas[i]
      BY Zenon, <3>1, <3>2, <2>2, <1>4, ItemSets DEF NeverTold, h
    <3>4. NoneSets(confQ', i)
      BY Zenon, <3>2, <2>2 DEF NeverTold
    <3> QED BY Zenon, <3>3, <3>4, <2>2, <1>1, UnsetStays
  <2> QED BY Zenon, <2>1, <2>2
<1>8. AllHold'
  <2> SUFFICES ASSUME NEW i \in InScope' PROVE Holds(i)'
    BY Zenon DEF AllHold
  <2> DEFINE w == IF Sets(Head(confQ), i) THEN Head(confQ)[2][i] ELSE modemHas[i]
  <2>1. i \in Repeated /\ Holds(i)
    BY Zenon, <1>1 DEF InScope, ConfigInv, AllHold, Repeated
  <2>2. CASE ~confUp
    BY Zenon, <2>2, <1>1 DEF Holds
  <2>3. CASE Restoring(confQ, i)
    <3>1. PICK kind \in {"init", "up"} : Queued(confQ, kind) /\ i \in ReadItems(kind)
      BY <2>3, Zenon DEF Restoring
    <3>2. h[1] # kind
      BY Zenon, <1>1
    <3>3. Queued(confQ', kind)
      BY Zenon, <1>1, <1>2, <3>1, <3>2, ToldTail DEF h
    <3>4. i \in ReadItems(kind)'
      BY Zenon, <3>1, <1>1, ReadGrows
    <3> QED BY <3>3, <3>4, Zenon DEF Holds, Restoring, Queued
  <2>4. CASE confUp /\ ToldLast(confQ, modemHas[i], i, kept[i])
    <3>1. modemHas'[i] = w
      BY Zenon, <2>1, <2>4, <1>4 DEF h
    <3>2. ToldLast(confQ', w, i, kept[i])
      BY <1>1, <1>2, <2>4, ToldTail
    <3>3. ToldLast(confQ', modemHas'[i], i, kept'[i])
      BY Zenon, <3>1, <3>2, <1>1
    <3> QED BY <3>3, Zenon DEF Holds, ToldLast, NoneSets, Sets
  <2> QED BY Zenon, <2>1, <2>2, <2>3, <2>4, <1>1 DEF Holds
<1> QED BY Zenon, <1>6, <1>7, <1>8 DEF ConfigInv

\* The engine's thread reads the settings again.
LEMMA ReinitStep ==
  ASSUME ConfigInv, ProcConfig, ProcReinit PROVE ConfigInv'
<1> DEFINE h == Head(confQ)
           D == ReadItems(h[1])
           f == Setting(D)
<1>1. /\ rereading = {} /\ confQ # << >> /\ confQ' = Tail(confQ) /\ h[1] \in {"init", "up"}
      /\ UNCHANGED <<kept, agpsReady, confUp>>
      /\ rereading' = {f} /\ overtaken' = overtaken \ D
  BY Zenon DEF ProcConfig, ProcReinit
<1>2. /\ confQ \in Seq(ConfMsgs) /\ modemHas \in [ConfItems -> Int] /\ kept \in [ConfItems -> Int]
      /\ overtaken \subseteq ConfItems
  BY Zenon DEF ConfigInv, ConfigTypes
<1>3. confQ' \in Seq(ConfMsgs)
  BY Zenon, <1>1, <1>2, TailFacts
<1>4. modemHas' \in [ConfItems -> Int] /\ \A i \in Repeated : modemHas'[i] = modemHas[i]
  <2>1. DOMAIN [GPS_LOCK |-> 1] = {"GPS_LOCK"}
    BY Zenon
  <2>2. CASE TellModem([GPS_LOCK |-> 1])
    BY <2>1, <2>2, <1>2, ItemSets DEF TellModem
  <2>3. CASE UNCHANGED modemHas
    BY Zenon, <2>3, <1>2
  <2> QED BY <2>2, <2>3, Zenon DEF ProcReinit
<1>5. D \subseteq Repeated /\ Reinitialised \subseteq D /\ D \in SUBSET ConfItems
  BY Zenon, ReadParts, ItemSets
<1>6. f \in Settings /\ DOMAIN f = D /\ \A i \in D : f[i] = kept[i]
  <2> HIDE DEF D
  <2>1. f \in [D -> Int] /\ DOMAIN f = D /\ \A i \in D : f[i] = kept[i]
    BY Zenon, <1>2, <1>5 DEF Setting
  <2> HIDE DEF f
  <2> QED BY Zenon, <2>1, <1>5, SettingType
<1>7. \A i : Sets(h, i) = FALSE
  BY Zenon, <1>1 DEF Sets
<1> HIDE DEF D, f
<1>8. ConfigTypes'
  BY Zenon, <1>1, <1>2, <1>3, <1>4, <1>6 DEF ConfigInv, ConfigTypes
<1>9. RereadCurrent'
  BY Zenon, <1>1, <1>5, <1>6 DEF RereadCurrent
<1>10. ASSUME NEW i, NEW m, NEW v
      PROVE  /\ ToldLast(confQ, m, i, v) => ToldLast(confQ', m, i, v)
             /\ NoneSets(confQ, i) => NoneSets(confQ', i)
  <2>1. m = IF Sets(Head(confQ), i) THEN Head(confQ)[2][i] ELSE m
    BY Zenon, <1>7
  <2> QED BY Zenon, <2>1, <1>1, <1>2, ToldTail
<1>11. ServersUnset'
  <2> SUFFICES ASSUME NEW i \in ServerItems
               PROVE  kept[i] >= 0 /\ (kept[i] = 0 => NeverTold(i)')
    BY <1>1, Zenon DEF ServersUnset
  <2>1. kept[i] >= 0 /\ (kept[i] = 0 => NeverTold(i))
    BY Zenon DEF ConfigInv, ServersUnset
  <2>2. ASSUME kept[i] = 0, NeverTold(i) PROVE NeverTold(i)'
    <3>1. modemHas'[i] = 0 /\ NoneSets(confQ', i)
      BY Zenon, <2>2, <1>4, <1>10, ItemSets DEF NeverTold
    <3>2. i \notin D
      BY Zenon, <2>2, ReadParts DEF D
    <3>3. \A r \in rereading' : i \notin DOMAIN r
      BY Zenon, <3>2, <1>1, <1>6
    <3> QED BY <3>1, <3>3, Zenon DEF NeverTold, NoneSets, Sets
  <2> QED BY Zenon, <2>1, <2>2
<1>12. AllHold'
  <2> SUFFICES ASSUME NEW i \in InScope' PROVE Holds(i)'
    BY Zenon DEF AllHold
  <2>1. CASE i \in D
    <3>1. \E r \in rereading' : i \in DOMAIN r
      BY Zenon, <2>1, <1>1, <1>6
    <3> QED BY <3>1, Zenon DEF Holds
  <2>2. CASE i \notin D
    <3>1. i \in InScope /\ i \in Repeated /\ i \in ServerItems /\ agpsReady /\ Holds(i)
      BY Zenon, <2>2, <1>1, <1>5 DEF InScope, ConfigInv, AllHold, Repeated
    <3>2. CASE ~confUp
      BY Zenon, <3>2, <1>1 DEF Holds
    <3>3. CASE Restoring(confQ, i)
      <4>1. PICK kind \in {"init", "up"} : Queued(confQ, kind) /\ i \in ReadItems(kind)
        BY <3>3, Zenon DEF Restoring
      <4>2. h[1] # kind
        BY Zenon, <4>1, <2>2 DEF D
      <4>3. Queued(confQ', kind)
        <5>1. \E w : w = IF Sets(Head(confQ), i) THEN Head(confQ)[2][i] ELSE 0
          BY Zenon
        <5> QED BY Zenon, <5>1, <1>1, <1>2, <4>1, <4>2, ToldTail
      <4>4. i \in ReadItems(kind)'
        BY Zenon, <4>1, <1>1, ReadGrows
      <4> QED BY <4>3, <4>4, Zenon DEF Holds, Restoring, Queued
    <3>4. CASE ToldLast(confQ, modemHas[i], i, kept[i])
      <4>1. ToldLast(confQ', modemHas'[i], i, kept'[i])
        BY Zenon, <3>1, <3>4, <1>1, <1>4, <1>10
      <4> QED BY <4>1, Zenon DEF Holds, ToldLast, NoneSets, Sets
    <3> QED BY Zenon, <3>1, <3>2, <3>3, <3>4, <1>1 DEF Holds
  <2> QED BY Zenon, <2>1, <2>2
<1> QED BY Zenon, <1>8, <1>9, <1>11, <1>12 DEF ConfigInv

\* The invariant holds when the engine starts: LocEngInit is in the queue.
LEMMA ConfigInitially == ConfigInit => ConfigInv
<1> SUFFICES ASSUME ConfigInit PROVE ConfigInv
  BY Zenon
<1>1. confQ = << <<"init">> >> /\ Len(confQ) = 1 /\ confQ[1] = <<"init">> /\ <<"init">>[1] = "init"
  BY Zenon DEF ConfigInit
<1>2. confQ \in Seq(ConfMsgs)
  BY <1>1, MsgTypes
<1>3. kept \in [ConfItems -> Int] /\ modemHas = [i \in ConfItems |-> 0]
      /\ rereading = {} /\ agpsReady = FALSE /\ confUp = TRUE /\ overtaken = {}
      /\ \A i \in ServerItems : kept[i] \in {0, 1}
  BY ItemSets DEF ConfigInit
<1>4. ConfigTypes /\ RereadCurrent
  <2>1. modemHas \in [ConfItems -> Int]
    BY <1>3
  <2> QED BY Zenon, <1>2, <1>3, <2>1 DEF ConfigTypes, RereadCurrent
<1>5. \A i : NoneSets(confQ, i)
  BY <1>1 DEF NoneSets, Sets
<1>6. ServersUnset
  BY <1>3, <1>5, ItemSets DEF ServersUnset, NeverTold
<1>7. Queued(confQ, "init")
  BY <1>1 DEF Queued
<1>8. AllHold
  <2>1. ASSUME NEW i \in InScope PROVE Holds(i)
    <3>1. i \in ReadItems("init")
      BY Zenon, <1>3, ReadParts DEF InScope
    <3> QED BY Zenon, <3>1, <1>7 DEF Holds, Restoring
  <2> QED BY Zenon, <2>1 DEF AllHold
<1> QED BY Zenon, <1>4, <1>6, <1>8 DEF ConfigInv

\* The invariant is about the configuration's variables only.
LEMMA ConfigStutters == ASSUME ConfigInv, UNCHANGED configVars PROVE ConfigInv'
BY DEF configVars, ConfigInv, ConfigTypes, RereadCurrent, ServersUnset, NeverTold, NoneSets, Sets,
   AllHold,
       InScope, Holds, Restoring, Queued, ReadItems, ServersSet, ToldLast

\* With nothing in the queue and nothing read, the invariant leaves that the
\* modem has what is kept.
LEMMA ConfigConcludes == ConfigInv => ConfigRestored
<1> SUFFICES ASSUME ConfigInv, confQ = << >>, rereading = {}, confUp, NEW i \in InScope
             PROVE  modemHas[i] = kept[i]
  BY Zenon DEF ConfigRestored, InScope
<1>1. Len(confQ) = 0 /\ \A k \in 1 .. Len(confQ) : FALSE
  OBVIOUS
<1>2. Holds(i)
  BY Zenon DEF ConfigInv, AllHold
<1> QED BY Zenon, <1>1, <1>2 DEF Holds, Restoring, Queued, ToldLast

\* For any servers, any items the framework changes and any number of changes
\* and restarts: whenever the queue is empty and the modem up, the modem has
\* every setting that the engine keeps (loc_eng_reinit, loc_eng_agps_reinit),
\* but for the items that ConfigRestored leaves out.
THEOREM SettingsRestored == ConfigSpec => []ConfigRestored
<1>1. ConfigInv /\ [ConfigNext]_configVars => ConfigInv'
  <2> SUFFICES ASSUME ConfigInv, [ConfigNext]_configVars PROVE ConfigInv'
    BY Zenon
  <2>1. CASE \E changed \in SUBSET Changing : loc_eng_configuration_update(changed)
    BY Zenon, <2>1, ConfigurationStep
  <2>2. CASE \E s \in Servers : loc_eng_set_server_proxy(s)
    BY Zenon, <2>2, ServerStep
  <2>3. CASE \E available \in {0, 1}, withApn \in BOOLEAN :
               update_network_availability(available, withApn)
    BY Zenon, <2>3, NetworkStep
  <2>4. CASE loc_eng_agps_init
    BY Zenon, <2>4, AgpsInitStep
  <2>5. CASE ModemForgets
    BY Zenon, <2>5, ForgetStep
  <2>6. CASE ModemReturns
    BY Zenon, <2>6, ReturnStep
  <2>7. CASE ProcConfig
    <3>1. ProcSet \/ ProcLock \/ ProcReinit
      BY Zenon, <2>7 DEF ProcConfig
    <3> QED BY Zenon, <2>7, <3>1, SetStep, ReinitStep
  <2>8. CASE \E setting \in rereading : PostReread(setting)
    BY Zenon, <2>8, PostStep
  <2>9. CASE UNCHANGED configVars
    BY Zenon, <2>9, ConfigStutters
  <2> QED BY <2>1, <2>2, <2>3, <2>4, <2>5, <2>6, <2>7, <2>8, <2>9, Zenon DEF ConfigNext
<1> QED BY <1>1, ConfigInitially, ConfigConcludes, PTL DEF ConfigSpec
==============================================================================
