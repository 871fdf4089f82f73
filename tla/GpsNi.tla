-------------------------------- MODULE GpsNi --------------------------------
(***************************************************************************)
(* Network-initiated location requests (gps/.../loc_eng_ni.cpp).  A request*)
(* of the network occupies one of two sessions, "session" or "sessionEs"   *)
(* (emergency SUPL), starts a thread that waits for the user's response or *)
(* a timeout, and is shown to the user.  Requests are handled, and the     *)
(* sessions reset, on the engine's thread; the user's responses arrive on  *)
(* a thread of the framework.  The check of a response and its delivery    *)
(* are two steps, and so are the end of a session and the clearing of its  *)
(* request number.                                                         *)
(*                                                                         *)
(* A request is its number (reqIDCounter); rawRequest is that number too.  *)
(***************************************************************************)
EXTENDS Integers

CONSTANTS MaxNiRequests,   \* requests of the network
          MaxNiResets      \* engine restarts

ASSUME NiAssumption == MaxNiRequests \in Nat /\ MaxNiResets \in Nat

VARIABLES
  rawRequest,  \* per session, 0 for NULL
  reqID,       \* per session
  resp,        \* per session
  respRecvd,   \* per session
  reqIDCounter,
  niThreads,   \* the NI threads: [session, number, at]
  niLost,      \* requests whose thread could not be started
  responding,  \* the framework's thread in loc_eng_ni_respond, its checks passed:
               \* {} or {[session, number, response]}
  resetting,   \* the engine's thread in the reset: the session it has freed and
               \* has yet to wake, or "none"
  said,        \* what the user has responded to the requests whose thread
               \* has not ended: {[number, response]}
  niAnswer,    \* the answer just sent to the network: {} or {[number, response, stale]}
  leftOver,    \* sessions with a response that was meant for an earlier request
  niResets

niVars == <<rawRequest, reqID, resp, respRecvd, reqIDCounter, niThreads, niLost, responding,
            resetting, said, niAnswer, leftOver, niResets>>

Sessions == {"session", "sessionEs"}
UserResponses == {"ACCEPT", "DENY"}

\* loc_eng_ni_init
NiInit ==
  /\ rawRequest = [s \in Sessions |-> 0] /\ reqID = [s \in Sessions |-> 0]
  /\ resp = [s \in Sessions |-> "NORESP"] /\ respRecvd = [s \in Sessions |-> FALSE]
  /\ reqIDCounter = 0 /\ niThreads = {} /\ niLost = {} /\ responding = {} /\ resetting = "none"
  /\ said = {} /\ niAnswer = {} /\ leftOver = {} /\ niResets = 0

(***************************************************************************)
(* loc_eng_ni_request_handler.  A request that finds its session (or, for  *)
(* an ordinary one, either session) occupied is dropped.                   *)
(***************************************************************************)
Forgotten(n) == {r \in said : r.number # n}
Occupied(s) == \E t \in {s, "sessionEs"} : rawRequest[t] # 0

NiRequest(s, started) ==
  /\ resetting = "none" /\ reqIDCounter < MaxNiRequests
  /\ ~Occupied(s)
  /\ LET n == reqIDCounter + 1 IN
     /\ reqIDCounter' = n
     /\ rawRequest' = [rawRequest EXCEPT ![s] = n]
     /\ reqID' = [reqID EXCEPT ![s] = n]
     /\ IF started
        THEN niThreads' = niThreads \cup {[session |-> s, number |-> n, at |-> "waiting"]}
             /\ UNCHANGED niLost
        ELSE niLost' = niLost \cup {n} /\ UNCHANGED niThreads
  /\ niAnswer' = {}
  /\ UNCHANGED <<resp, respRecvd, responding, resetting, said, leftOver, niResets>>

(***************************************************************************)
(* ni_thread_proc.  Under the session's lock: the wait ends with a         *)
(* response or the timeout, and whatever request the session then holds is *)
(* answered.  The request number is cleared after the lock is released.    *)
(***************************************************************************)
Conclude(t, response) ==
  LET s == t.session IN
  /\ respRecvd' = [respRecvd EXCEPT ![s] = FALSE]
  /\ resp' = [resp EXCEPT ![s] = response]
  /\ niAnswer' = IF rawRequest[s] = 0 \/ response = "IGNORE" THEN {}
                 ELSE {[number |-> rawRequest[s], response |-> response,
                        stale |-> s \in leftOver]}
  /\ rawRequest' = [rawRequest EXCEPT ![s] = 0]
  /\ leftOver' = leftOver \ {s}
  /\ niThreads' = (niThreads \ {t}) \cup {[t EXCEPT !.at = "clearing"]}
  /\ UNCHANGED <<reqID, reqIDCounter, niLost, responding, resetting, said, niResets>>

NiThreadResponse(t) ==
  t.at = "waiting" /\ respRecvd[t.session] /\ Conclude(t, resp[t.session])

\* Mutant of NiThreadTimeout: the thread waits without a time limit.
NiThreadTimeout_Untimed(t) ==
  t.at = "waiting" /\ respRecvd[t.session] /\ Conclude(t, "NORESP")

NiThreadTimeout(t) == t.at = "waiting" /\ Conclude(t, "NORESP")

NiThreadClear(t) ==
  /\ t.at = "clearing"
  /\ reqID' = [reqID EXCEPT ![t.session] = 0]
  /\ niThreads' = niThreads \ {t}
  /\ said' = Forgotten(t.number) /\ niAnswer' = {}
  /\ UNCHANGED <<rawRequest, resp, respRecvd, reqIDCounter, niLost, responding, resetting,
                 leftOver, niResets>>

\* Mutant of SessionFor: the number of the request is not compared.
SessionFor_ById(n) == {s \in Sessions : rawRequest[s] # 0}

(***************************************************************************)
(* loc_eng_ni_respond.  The user responds once to a request they have been *)
(* shown, at any time after.  The session is found by the request number;  *)
(* accepting an emergency request makes the ordinary one be ignored.       *)
(***************************************************************************)
SessionFor(n) == {s \in Sessions : reqID[s] = n /\ rawRequest[s] # 0}

Deliver(s, response) ==
  /\ resp' = [resp EXCEPT ![s] = response] /\ respRecvd' = [respRecvd EXCEPT ![s] = TRUE]

UserResponds(n, response) ==
  /\ \E s \in Sessions : reqID[s] = n
  /\ responding = {} /\ \A r \in said : r.number # n
  /\ said' = said \cup {[number |-> n, response |-> response]}
  /\ niAnswer' = {}
  /\ responding' = {[session |-> s, number |-> rawRequest[s], response |-> response] :
                    s \in SessionFor(n)}
  /\ IF "sessionEs" \in SessionFor(n) /\ response = "ACCEPT" /\ rawRequest["session"] # 0
     THEN Deliver("session", "IGNORE") /\ leftOver' = leftOver \ {"session"}
     ELSE UNCHANGED <<resp, respRecvd, leftOver>>
  /\ UNCHANGED <<rawRequest, reqID, reqIDCounter, niThreads, niLost, resetting, niResets>>

\* The delivery, under the session's lock.
UserDelivers(r) ==
  /\ Deliver(r.session, r.response)
  /\ leftOver' = IF rawRequest[r.session] = r.number THEN leftOver \ {r.session}
                 ELSE leftOver \cup {r.session}
  /\ responding' = {} /\ niAnswer' = {}
  /\ UNCHANGED <<rawRequest, reqID, reqIDCounter, niThreads, niLost, resetting, said, niResets>>

(***************************************************************************)
(* loc_eng_ni_reset_on_engine_restart frees the requests and lets their    *)
(* threads go, first of sessionEs, then of session.  The request is freed  *)
(* without the session's lock.                                             *)
(***************************************************************************)
NiReset(s) ==
  /\ resetting = "none" /\ rawRequest[s] # 0 /\ niResets < MaxNiResets
  /\ s = "session" => rawRequest["sessionEs"] = 0
  /\ resetting' = s /\ niResets' = niResets + 1 /\ niAnswer' = {}
  /\ UNCHANGED <<rawRequest, reqID, resp, respRecvd, reqIDCounter, niThreads, niLost, responding,
                 said, leftOver>>

NiResetWakes ==
  /\ resetting # "none"
  /\ rawRequest' = [rawRequest EXCEPT ![resetting] = 0]
  /\ respRecvd' = [respRecvd EXCEPT ![resetting] = TRUE]
  /\ leftOver' = leftOver \cup {resetting} /\ niAnswer' = {}
  /\ resetting' = IF resetting = "sessionEs" /\ rawRequest["session"] # 0 THEN "session" ELSE "none"
  /\ UNCHANGED <<reqID, resp, reqIDCounter, niThreads, niLost, responding, said, niResets>>

NiThread(t) == NiThreadResponse(t) \/ NiThreadTimeout(t) \/ NiThreadClear(t)

NiNext ==
  \/ \E s \in Sessions, started \in BOOLEAN : NiRequest(s, started)
  \/ \E t \in niThreads : NiThread(t)
  \/ \E n \in 1..MaxNiRequests, response \in UserResponses : UserResponds(n, response)
  \/ \E r \in responding : UserDelivers(r)
  \/ \E s \in Sessions : NiReset(s)
  \/ NiResetWakes

NiSpec == NiInit /\ [][NiNext]_niVars

------------------------------------------------------------------------------
NiTypeOK ==
  /\ rawRequest \in [Sessions -> 0..MaxNiRequests] /\ reqID \in [Sessions -> 0..MaxNiRequests]
  /\ resp \in [Sessions -> UserResponses \cup {"NORESP", "IGNORE"}]
  /\ (\A r, q \in responding : r = q) /\ leftOver \subseteq Sessions

\* The network is answered with what the user said to that very request, or
\* with "no response"; sessions are reused, and emergency and ordinary ones
\* run together.  The exception is a response that was on its way when its
\* session ended (and the wake-up of a reset): the next request of the
\* session may be answered with it.
AnswerIsUsers ==
  /\ NiTypeOK
  /\ \A a \in niAnswer :
       \/ a.stale \/ a.response = "NORESP"
       \/ [number |-> a.number, response |-> a.response] \in said

\* A request whose thread could be started leaves its session in the end,
\* whoever ends it: the user, the timeout, an emergency, a reset, or the
\* thread of an earlier request that was still around.
NiConcluded ==
  \A s \in Sessions, n \in 1..MaxNiRequests :
    []<>(rawRequest[s] = n => n \in niLost)

==============================================================================
