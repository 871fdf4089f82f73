------------------------------- MODULE RilSap -------------------------------
(***************************************************************************)
(* The SIM access profile service of libril (sap_service.cpp,              *)
(* RilSapSocket.cpp and the queue of rilSocketQueue.h).  A request of the  *)
(* client is encoded, queued and given to the vendor; the vendor's answer  *)
(* is decoded, handed to the client's callback, and the queue's entry with *)
(* the answer's message and token is freed.  Tokens are the client's: a    *)
(* token may be pending under several messages, but the clients are taken  *)
(* not to repeat one for a message that is still pending with it.          *)
(***************************************************************************)
EXTENDS Integers, Sequences, FiniteSets, Functions

CONSTANTS Tokens,       \* tokens the clients use
          MaxPending,   \* requests pending at a time
          MaxClients    \* generations of the client

VARIABLES
  sapCallback,  \* generation of the client whose callback is set, 0 for NULL
  sapClient,    \* generation of the client that is running, 0 when dead
  started,      \* generations started
  queue,        \* pendingResponseQueue, newest first: entries <<message, token>>
  atVendor,     \* requests at the vendor
  answered,     \* the requests the client has been told of, not yet dequeued
  told          \* the call of the callback in this step: <<function, code>>, or << >>

sapVars == <<sapCallback, sapClient, started, queue, atVendor, answered, told>>

\* For each message: the callback that answers it, and the code of a failure.
AnswerTo ==
  [CONNECT                     |-> <<"connectResponse", "CONNECT_FAILURE">>,
   DISCONNECT                  |-> <<"disconnectResponse", "none">>,
   APDU                        |-> <<"apduResponse", "GENERIC_FAILURE">>,
   TRANSFER_ATR                |-> <<"transferAtrResponse", "GENERIC_FAILURE">>,
   POWER                       |-> <<"powerResponse", "GENERIC_FAILURE">>,
   RESET_SIM                   |-> <<"resetSimResponse", "GENERIC_FAILURE">>,
   TRANSFER_CARD_READER_STATUS |-> <<"transferCardReaderStatusResponse", "GENERIC_FAILURE">>,
   SET_TRANSFER_PROTOCOL       |-> <<"transferProtocolResponse", "NOT_SUPPORTED">>]

\* The result codes of the answers: what the client is told for what the
\* vendor's message carries.
CodesOf ==
  [APDU |-> [SUCCESS |-> "SUCCESS", GENERIC_FAILURE |-> "GENERIC_FAILURE",
             SIM_NOT_READY |-> "CARD_NOT_ACCESSSIBLE",
             SIM_ALREADY_POWERED_OFF |-> "CARD_ALREADY_POWERED_OFF",
             SIM_ABSENT |-> "CARD_REMOVED"],
   TRANSFER_ATR |-> [SUCCESS |-> "SUCCESS", GENERIC_FAILURE |-> "GENERIC_FAILURE",
                     SIM_ALREADY_POWERED_OFF |-> "CARD_ALREADY_POWERED_OFF",
                     SIM_ABSENT |-> "CARD_REMOVED",
                     SIM_DATA_NOT_AVAILABLE |-> "DATA_NOT_AVAILABLE"],
   POWER |-> [SUCCESS |-> "SUCCESS", GENERIC_FAILURE |-> "GENERIC_FAILURE",
              SIM_ABSENT |-> "CARD_REMOVED",
              SIM_ALREADY_POWERED_OFF |-> "CARD_ALREADY_POWERED_OFF",
              SIM_ALREADY_POWERED_ON |-> "CARD_ALREADY_POWERED_ON"],
   RESET_SIM |-> [SUCCESS |-> "SUCCESS", GENERIC_FAILURE |-> "GENERIC_FAILURE",
                  SIM_ABSENT |-> "CARD_REMOVED", SIM_NOT_READY |-> "CARD_NOT_ACCESSSIBLE",
                  SIM_ALREADY_POWERED_OFF |-> "CARD_ALREADY_POWERED_OFF"],
   TRANSFER_CARD_READER_STATUS |->
     [SUCCESS |-> "SUCCESS", GENERIC_FAILURE |-> "GENERIC_FAILURE",
      SIM_DATA_NOT_AVAILABLE |-> "DATA_NOT_AVAILABLE"],
   SET_TRANSFER_PROTOCOL |-> [SUCCESS |-> "SUCCESS"]]

ProtoToHal(message, code) ==
  IF message \in DOMAIN CodesOf
  THEN IF code \in DOMAIN CodesOf[message] THEN CodesOf[message][code] ELSE AnswerTo[message][2]
  ELSE code

SapInit ==
  /\ sapCallback = 0 /\ sapClient = 0 /\ started = 0
  /\ queue = << >> /\ atVendor = {} /\ answered = {} /\ told = << >>

Untold == told' = << >>

ClientDown ==
  /\ sapClient # 0 /\ sapClient' = 0
  /\ Untold /\ UNCHANGED <<sapCallback, started, queue, atVendor, answered>>

\* The client starts and sets its callback.
setCallback ==
  /\ sapClient = 0 /\ started < MaxClients
  /\ started' = started + 1 /\ sapClient' = started' /\ sapCallback' = started'
  /\ Untold /\ UNCHANGED <<queue, atVendor, answered>>

\* A call that fails forgets the callback, whosever it is by then.
checkReturnStatus(ok) == sapCallback' = IF ok THEN sapCallback ELSE 0

Tell(function, token, code) ==
  /\ checkReturnStatus(sapCallback = sapClient)
  /\ told' = IF sapCallback = sapClient THEN <<function, code>> ELSE << >>

sendFailedResponse(message, token) ==
  Tell(AnswerTo[message][1], token, AnswerTo[message][2])

(***************************************************************************)
(* The request methods.  A header, the encoded request and the payload are *)
(* allocated; each may fail and is answered at once (through a callback    *)
(* that must not be NULL).  Without memory for the queue's entry the       *)
(* request is dropped.                                                     *)
(***************************************************************************)
enqueue(entry) == queue' = <<entry>> \o queue

dispatchRequest(message, token) ==
  \/ UNCHANGED <<queue, atVendor>>
  \/ /\ enqueue(<<message, token>>)
     /\ atVendor' = atVendor \cup {<<message, token>>}

addPayloadAndDispatchRequest(message, token) ==
  \/ /\ sapCallback # 0
     /\ sendFailedResponse(message, token)
     /\ UNCHANGED <<queue, atVendor>>
  \/ /\ dispatchRequest(message, token)
     /\ Untold /\ UNCHANGED sapCallback

Request(message, token) ==
  /\ sapClient # 0 /\ Len(queue) < MaxPending
  /\ <<message, token>> \notin Range(queue)
  /\ addPayloadAndDispatchRequest(message, token)
  /\ UNCHANGED <<sapClient, started, answered>>

connectReq(token) == Request("CONNECT", token)

disconnectReq(token) == Request("DISCONNECT", token)

apduReq(token) == Request("APDU", token)

transferAtrReq(token) == Request("TRANSFER_ATR", token)

powerReq(token) == Request("POWER", token)

resetSimReq(token) == Request("RESET_SIM", token)

transferCardReaderStatusReq(token) == Request("TRANSFER_CARD_READER_STATUS", token)

setTransferProtocolReq(token) == Request("SET_TRANSFER_PROTOCOL", token)

(***************************************************************************)
(* onRequestComplete: the answer is decoded and the client told (without a *)
(* callback nothing is; without memory for the answer neither), then the   *)
(* entry is freed.                                                         *)
(***************************************************************************)
processResponse(message, token, outcome) ==
  IF sapCallback = 0 \/ outcome = "no memory" THEN Untold /\ UNCHANGED sapCallback
  ELSE IF outcome = "undecodable" THEN sendFailedResponse(message, token)
  ELSE Tell(AnswerTo[message][1], token, ProtoToHal(message, outcome))

onRequestComplete(request, outcome) ==
  /\ processResponse(request[1], request[2], outcome)
  /\ atVendor' = atVendor \ {request} /\ answered' = answered \cup {request}
  /\ UNCHANGED <<sapClient, started, queue>>

\* The pending list without the first entry that matches.
WithoutFirst(matches) ==
  IF matches = {} THEN queue
  ELSE LET k == CHOOSE i \in matches : \A j \in matches : i <= j
       IN  SubSeq(queue, 1, k - 1) \o SubSeq(queue, k + 1, Len(queue))

\* Mutant of checkAndDequeue: only the tokens are compared.
checkAndDequeue_ByToken(request) ==
  /\ queue' = WithoutFirst({i \in DOMAIN queue : queue[i][2] = request[2]})
  /\ answered' = answered \ {request}
  /\ Untold /\ UNCHANGED <<sapCallback, sapClient, started, atVendor>>

checkAndDequeue(request) ==
  /\ queue' = WithoutFirst({i \in DOMAIN queue : queue[i] = request})
  /\ answered' = answered \ {request}
  /\ Untold /\ UNCHANGED <<sapCallback, sapClient, started, atVendor>>

\* Unsolicited messages.  A disconnection that cannot be decoded is told as
\* the answer to a request.
onUnsolicitedResponse(function, decodes) ==
  /\ IF sapCallback = 0 \/ (~decodes /\ function # "disconnectIndication")
     THEN Untold /\ UNCHANGED sapCallback
     ELSE IF decodes THEN Tell(function, 0, "none") ELSE sendFailedResponse("DISCONNECT", 0)
  /\ UNCHANGED <<sapClient, started, queue, atVendor, answered>>

SapNext ==
  \/ ClientDown \/ setCallback
  \/ \E token \in Tokens :
       \/ connectReq(token) \/ disconnectReq(token) \/ apduReq(token)
       \/ transferAtrReq(token) \/ powerReq(token) \/ resetSimReq(token)
       \/ transferCardReaderStatusReq(token) \/ setTransferProtocolReq(token)
  \/ \E request \in atVendor,
        outcome \in {"SUCCESS", "SIM_ABSENT", "undecodable", "no memory"} :
       onRequestComplete(request, outcome)
  \/ \E request \in answered : checkAndDequeue(request)
  \/ \E f \in {"statusIndication", "disconnectIndication", "errorResponse"}, decodes \in BOOLEAN :
       onUnsolicitedResponse(f, decodes)

SapSpec == SapInit /\ [][SapNext]_sapVars

------------------------------------------------------------------------------
SapTypeOK ==
  /\ sapCallback \in 0..MaxClients /\ sapClient \in 0..MaxClients
  /\ atVendor \cup answered \subseteq (DOMAIN AnswerTo) \X Tokens

\* The queue holds exactly the requests the vendor has yet to answer, and
\* those answered but not yet dequeued: an answer frees the entry of its own
\* message and token, also when the token is pending under several messages.
PendingMatchesVendor == Range(queue) = atVendor \cup answered

==============================================================================
