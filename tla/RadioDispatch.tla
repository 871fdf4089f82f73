---------------------------- MODULE RadioDispatch ----------------------------
(***************************************************************************)
(* One request of the radio service followed from the client's method to   *)
(* the client's callback, through the tables of RadioRequests and          *)
(* RadioAnswers (libril/ril_service.cpp, ril_commands.h, and the part of   *)
(* ril.cpp that looks the functions up).  The client calls a method; the   *)
(* method refuses by itself or hands the request to the vendor library;    *)
(* the vendor completes it with an error code and a payload; the response  *)
(* function that s_commands names for the request number invokes a         *)
(* callback of the client.  In between the vendor may report unsolicited   *)
(* indications.  Threads and locks are the subject of RadioService.        *)
(*                                                                         *)
(* A payload is what the response functions tell apart: "null", "fit"      *)
(* (right size, contents that convert) or "misfit".                        *)
(***************************************************************************)
EXTENDS RadioRequests, RadioAnswers

CONSTANTS Versions,       \* RIL versions of the vendor library tried
          VendorErrors    \* error codes of the vendor other than SUCCESS

VARIABLES
  version,     \* s_vendorFunctions->version
  client,      \* "V1_0" or "V1_1": the interface version of the callbacks
  ask,         \* the method being served, "none" when idle
  sent,        \* the request number the vendor was given, or "none"
  reply,       \* the last call of a response callback
  reported     \* the last unsolicited indication, and whether it was delivered

dispatchVars == <<version, client, ask, sent, reply, reported>>

Payloads == {"null", "fit", "misfit"}
NoReply == [callback |-> "none", error |-> "none", payload |-> "none"]
NoReport == [indication |-> "none", delivered |-> FALSE]

(***************************************************************************)
(* The client's interface (android.hardware.radio 1.0 and 1.1): the        *)
(* methods only a 1.1 client calls, and the callback that answers each.    *)
(***************************************************************************)
V1_1Methods == {"setCarrierInfoForImsiEncryption", "setSimCardPower_1_1", "startNetworkScan",
                "stopNetworkScan", "startKeepalive", "stopKeepalive"}

AnswerOf(method) ==
  CASE method = "getImsiForApp" -> "getIMSIForAppResponse"
    [] method = "hangup" -> "hangupConnectionResponse"
    [] method = "setSimCardPower_1_1" -> "setSimCardPowerResponse_1_1"
    [] OTHER -> method \o "Response"

DispatchInit ==
  /\ version \in Versions /\ client \in {"V1_0", "V1_1"}
  /\ ask = "none" /\ sent = "none"
  /\ reply = NoReply /\ reported = NoReport

\* Mutant of CommandOf: the table is one entry off.
CommandOf_OffByOne(request) ==
  s_commands[(CHOOSE i \in DOMAIN s_commands : s_commands[i][1] = request) + 1][2]

\* s_commands[request].responseFunction
CommandOf(request) ==
  s_commands[CHOOSE i \in DOMAIN s_commands : s_commands[i][1] = request][2]

\* Whether a payload meets what the function demands of it.
Meets(payload, demand) ==
  CASE demand = "ignored" -> TRUE
    [] demand = "exact"   -> payload = "fit"
    [] demand = "orEmpty" -> payload # "misfit"
    [] demand = "nonNull" -> payload # "null"

\* responseInfo.error: the vendor's, or INVALID_RESPONSE for a success
\* whose payload does not meet the demand.
ErrorTold(error, payload, demand) ==
  IF error = "SUCCESS" /\ ~Meets(payload, demand) THEN "INVALID_RESPONSE" ELSE error

\* A 1.1 client is told of the SIM card's power through the 1.1 callback,
\* whichever method it called.
CallbackOf(function) ==
  IF function = "setSimCardPowerResponse" /\ client = "V1_1"
  THEN "setSimCardPowerResponse_1_1" ELSE Responses[function].callback

Respond(request, error, payload) ==
  LET function == CommandOf(request) IN
  reply' = [callback |-> CallbackOf(function),
            error |-> ErrorTold(error, payload, Responses[function].payload),
            payload |-> payload]

(***************************************************************************)
(* A request method: the request is refused through sendErrorResponse or   *)
(* handed to the vendor.                                                   *)
(***************************************************************************)
Begin(row, screen) ==
  /\ ask = "none"
  /\ row[1] \in V1_1Methods => client = "V1_1"
  /\ ask' = row[1]
  /\ reported' = NoReport
  /\ UNCHANGED <<version, client>>

Refuse(row, screen) ==
  /\ Begin(row, screen)
  /\ \E error \in Refusals(row[1], row[3], version, screen) :
       Respond(SentAs(row[1], row[2], version, screen), error, "null")
  /\ sent' = "none"

\* addRequestToList had no memory for the request: the method returns and
\* the client is not told.
Drop(row, screen) ==
  /\ ~Unsupported(row[1], version, screen)
  /\ Begin(row, screen)
  /\ sent' = "none" /\ reply' = NoReply

Dispatch(row, screen) ==
  /\ ~Unsupported(row[1], version, screen)
  /\ Begin(row, screen)
  /\ sent' = SentAs(row[1], row[2], version, screen)
  /\ reply' = NoReply

\* RIL_onRequestComplete: the response function of the request answers it.
Complete(error, payload) ==
  /\ sent # "none"
  /\ Respond(sent, error, payload)
  /\ sent' = "none"
  /\ UNCHANGED <<version, client, ask, reported>>

\* The client turns to its next request.
NextAsk ==
  /\ ask # "none" /\ sent = "none"
  /\ ask' = "none" /\ reply' = NoReply
  /\ UNCHANGED <<version, client, sent, reported>>

(***************************************************************************)
(* RIL_onUnsolicitedResponse looks the indication up in s_unsolResponses.  *)
(* An entry without a function, or a payload its function refuses, is      *)
(* dropped; so is an indication of the 1.1 interface for a 1.0 client.     *)
(***************************************************************************)
Indicate(row, payload) ==
  /\ ask = "none"
  /\ reported' = [indication |-> row[1],
                  delivered |-> /\ row[2] # "NULL"
                                /\ Meets(payload, Indications[row[2]])
                                /\ row[2] \in {"networkScanResultInd",
                                               "carrierInfoForImsiEncryption"}
                                   => client = "V1_1"]
  /\ UNCHANGED <<version, client, ask, sent, reply>>

DispatchNext ==
  \/ \E row \in Requests, screen \in BOOLEAN :
       /\ screen => row[1] = "sendDeviceState"
       /\ Refuse(row, screen) \/ Drop(row, screen) \/ Dispatch(row, screen)
  \/ \E error \in VendorErrors \cup {"SUCCESS"}, payload \in Payloads : Complete(error, payload)
  \/ NextAsk
  \/ \E i \in DOMAIN s_unsolResponses, payload \in Payloads :
       Indicate(s_unsolResponses[i], payload)

------------------------------------------------------------------------------
DispatchTypeOK ==
  /\ version \in Versions /\ client \in {"V1_0", "V1_1"}
  /\ ask \in {"none"} \cup {row[1] : row \in Requests}
  /\ reply.error \in {"none", "SUCCESS", "INVALID_RESPONSE", NO_MEMORY, INVALID_ARGUMENTS,
                      REQUEST_NOT_SUPPORTED} \cup VendorErrors

\* The methods whose answer the code delivers through another method's
\* callback: hangupForegroundResumeBackgroundResponse invokes the callback
\* of hangupWaitingOrBackground, and a 1.1 client that calls the 1.0 method
\* setSimCardPower is answered through the 1.1 callback.
AnsweredAsAnother ==
  {"hangupForegroundResumeBackground"} \cup (IF client = "V1_1" THEN {"setSimCardPower"} ELSE {})

\* Through the three tables (method to request number, number to response
\* function, function to callback) every answer reaches the client through
\* the callback of the very method it called, and a success is reported
\* only for a payload the response function could convert.
AnsweredInKind ==
  reply # NoReply =>
    /\ ask \notin AnsweredAsAnother => reply.callback = AnswerOf(ask)
    /\ reply.error = "SUCCESS" =>
         \E f \in DOMAIN Responses : /\ CallbackOf(f) = reply.callback
                                     /\ Meets(reply.payload, Responses[f].payload)

==============================================================================
