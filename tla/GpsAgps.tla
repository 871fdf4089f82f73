------------------------------- MODULE GpsAgps -------------------------------
(***************************************************************************)
(* The assisted-GPS data connections (gps/.../loc_eng_agps.cpp and the     *)
(* messages of loc_eng.cpp that drive it).  Two state machines lend a data *)
(* connection to the modem's sessions: "agnss" asks the Android framework  *)
(* for it, "ds" starts an emergency data call and falls back on agnss when *)
(* it cannot.  The machine for "internet" is agnss again with subscribers  *)
(* of another type.                                                        *)
(*                                                                         *)
(* Everything runs on the engine's thread, which takes its messages from   *)
(* one queue; the modem, the framework, the data service and the retry     *)
(* timer only post to it.                                                  *)
(***************************************************************************)
EXTENDS LocList

CONSTANTS Ids,          \* connection handles of the modem
          EsIds,        \* those it opens for emergency SUPL
          MAX_START_DATA_CALL_RETRIES,
          MaxInbox      \* calls, messages and timers waiting when the modem posts another

ASSUME EmergencyHandles == EsIds \subseteq Ids
ASSUME RetryLimit == MAX_START_DATA_CALL_RETRIES \in Nat

VARIABLES
  nif,        \* per machine: released, pending, acquired or releasing
  subs,       \* per machine: mSubscribers, newest first
  conn,       \* per handle, as the modem sees it: idle, asked, open or closing;
              \* "ignored" when the engine has overlooked what it asked
  inbox,      \* the messages of the engine's thread
  calls,      \* agps_status_cb calls the framework has yet to serve
  dsCall,     \* the data service's call: down, starting, up or stopping
  mRetries,
  retryTimers \* delay_callbacks outstanding

agpsVars == <<nif, subs, conn, inbox, calls, dsCall, mRetries, retryTimers>>

Machines == {"agnss", "ds"}

AgpsInit ==
  /\ nif = [m \in Machines |-> "released"]
  /\ subs = [m \in Machines |-> << >>]
  /\ conn = [id \in Ids |-> "idle"]
  /\ inbox = << >> /\ calls = << >>
  /\ dsCall = "down" /\ mRetries = 0 /\ retryTimers = 0

------------------------------------------------------------------------------
(* Subscribers.  Only those of ds wait for the close to complete. *)

\* The active ones, in the list's order.
Active(list) ==
  LET on == {i \in DOMAIN list : list[i].active}
      order == CHOOSE f \in UNION {[1..n -> on] : n \in 0..Len(list)} :
                 /\ \A i, j \in DOMAIN f : i < j => f[i] < f[j]
                 /\ \A i \in on : \E k \in DOMAIN f : f[k] = i
  IN  [k \in DOMAIN order |-> list[order[k]]]
IdsOf(list) == {list[i].id : i \in DOMAIN list}
waitForCloseComplete(m) == m = "ds"

\* A subscriber with the handle that is in the list already, active or
\* not, stands for the new one.
addSubscriber(list, id) ==
  IF id \in IdsOf(list) THEN list
  ELSE linked_list_add(list, [id |-> id, active |-> TRUE])

setInactive(list, id) ==
  [i \in DOMAIN list |-> IF list[i].id = id THEN [list[i] EXCEPT !.active = FALSE] ELSE list[i]]

delete(list, id) == linked_list_search(list, [id : {id}, active : BOOLEAN], TRUE)

\* What the modem makes of being told that a handle is open, refused or
\* closed.
Told(ids, status) ==
  [id \in Ids |->
     IF id \notin ids THEN conn[id]
     ELSE CASE status = "open" -> IF conn[id] = "asked" THEN "open" ELSE conn[id]
            [] status = "refused" -> IF conn[id] = "asked" THEN "idle" ELSE conn[id]
            [] status = "overlooked" -> IF conn[id] = "asked" THEN "ignored" ELSE conn[id]
            [] status = "closed" -> "idle"]

\* ATLSubscriber::notifyRsrcStatus
AtlStatus(list, event) ==
  /\ conn' = Told(IdsOf(list), CASE event = "GRANTED" -> "open"
                                 [] event = "DENIED" -> "refused"
                                 [] OTHER -> "closed")
  /\ inbox' = Tail(inbox) /\ UNCHANGED mRetries

\* DSSubscriber tells through informStatus: a refused emergency call is
\* asked of agnss instead, and the end of one is not told to the modem.
informStatus(list, event) ==
  /\ conn' = CASE event = "GRANTED" -> Told(IdsOf(list), "open")
               [] event = "UNSUBSCRIBE" -> Told(IdsOf(list), "closed")
               [] OTHER -> conn
  /\ IF event = "DENIED" /\ list # << >>
     THEN /\ inbox' = Tail(inbox) \o [i \in DOMAIN list |-> <<"requestATL", list[i].id>>]
          /\ mRetries' = 0
     ELSE inbox' = Tail(inbox) /\ UNCHANGED mRetries

notifySubscribers(m, list, event) ==
  IF m = "ds" THEN informStatus(list, event) ELSE AtlStatus(list, event)

notifyNobody == conn' = conn /\ inbox' = Tail(inbox) /\ UNCHANGED mRetries

------------------------------------------------------------------------------
(* Asking for the connection and giving it back. *)

AgpsRequest(action, list) ==
  /\ calls' = IF (Active(list) = << >>) = (action = "release") THEN Append(calls, action) ELSE calls
  /\ UNCHANGED <<dsCall, retryTimers>>

\* The release of an emergency call cannot fail.
DsRelease ==
  /\ dsCall' = IF dsCall = "down" THEN "down" ELSE "stopping"
  /\ UNCHANGED <<calls, retryTimers>>

release(m, list) == IF m = "ds" THEN DsRelease ELSE AgpsRequest("release", list)

\* Mutant of DsRequest: a busy modem is to be tried again, but no timer is
\* started.
DsRequest_NoTimer(list, ret) ==
  /\ ret = "ok" => dsCall = "down"
  /\ dsCall' = IF ret = "ok" THEN "starting" ELSE dsCall
  /\ IF ret = "ok" \/ (ret = "busy" /\ mRetries < MAX_START_DATA_CALL_RETRIES)
     THEN /\ inbox' = Tail(inbox)
          /\ mRetries' = IF ret = "ok" THEN mRetries ELSE mRetries + 1
     ELSE /\ inbox' = Append(Tail(inbox), <<"requestATL", Active(list)[1].id>>)
          /\ mRetries' = 0
  /\ UNCHANGED <<calls, conn, retryTimers>>

\* The outcomes of starting an emergency call.  A busy modem is tried again
\* after a delay, up to a limit; that, and any other failure, refuses the
\* first active subscriber.  Starting the timer is taken for a failure of
\* it, which changes nothing: the request has failed already.
DsRequest(list, ret) ==
  /\ ret = "ok" => dsCall = "down"
  /\ dsCall' = IF ret = "ok" THEN "starting" ELSE dsCall
  /\ IF ret = "ok" THEN inbox' = Tail(inbox) /\ UNCHANGED <<mRetries, retryTimers>>
     ELSE IF ret = "busy" /\ mRetries < MAX_START_DATA_CALL_RETRIES
     THEN /\ inbox' = Tail(inbox) /\ mRetries' = mRetries + 1 /\ retryTimers' = retryTimers + 1
     ELSE /\ inbox' = Append(Tail(inbox), <<"requestATL", Active(list)[1].id>>)
          /\ mRetries' = 0 /\ UNCHANGED retryTimers
  /\ UNCHANGED <<calls, conn>>

request(m, list, ret) ==
  IF m = "ds" THEN DsRequest(list, ret)
  ELSE ret = "ok" /\ AgpsRequest("request", list) /\ notifyNobody

NoRequest == UNCHANGED <<calls, dsCall, retryTimers>>

------------------------------------------------------------------------------
(* The states.  Each handler takes one message off the inbox. *)

Become(m, state) == nif' = [nif EXCEPT ![m] = state]
Keep(m, list) == subs' = [subs EXCEPT ![m] = list]

AgpsReleasedState(m, event, id) ==
  /\ nif[m] = "released"
  /\ \/ /\ event = "SUBSCRIBE"
        /\ LET list == addSubscriber(subs[m], id) IN
           /\ Keep(m, list)
           /\ \E ret \in {"ok", "busy", "failed"} :
                /\ request(m, list, ret)
                /\ IF ret = "ok" THEN Become(m, "pending") ELSE UNCHANGED nif
     \/ /\ event = "UNSUBSCRIBE"
        /\ notifySubscribers(m, <<[id |-> id]>>, event)
        /\ NoRequest /\ UNCHANGED <<nif, subs>>
     \/ /\ event \in {"GRANTED", "RELEASED", "DENIED"}
        /\ notifyNobody /\ NoRequest /\ UNCHANGED <<nif, subs>>

\* In the other states a handle that unsubscribes is told so; ds keeps it,
\* inactive, until the call is down.
Unsubscribed(m, id) ==
  /\ notifySubscribers(m, <<[id |-> id]>>, "UNSUBSCRIBE")
  /\ Keep(m, IF waitForCloseComplete(m) THEN setInactive(subs[m], id) ELSE delete(subs[m], id))

\* The last one to leave gives the connection back.
LastLeaves(m) ==
  IF Active(subs'[m]) = << >>
  THEN /\ Become(m, IF subs'[m] = << >> THEN "released" ELSE "releasing")
       /\ release(m, subs'[m])
  ELSE NoRequest /\ UNCHANGED nif

AgpsPendingState(m, event, id) ==
  /\ nif[m] = "pending"
  /\ \/ /\ event = "SUBSCRIBE"
        /\ Keep(m, addSubscriber(subs[m], id))
        /\ notifyNobody /\ NoRequest /\ UNCHANGED nif
     \/ event = "UNSUBSCRIBE" /\ Unsubscribed(m, id) /\ LastLeaves(m)
     \/ /\ event = "GRANTED"
        /\ Become(m, "acquired") /\ notifySubscribers(m, Active(subs[m]), event)
        /\ NoRequest /\ UNCHANGED subs
     \/ /\ event = "RELEASED"
        /\ notifyNobody /\ NoRequest /\ UNCHANGED <<nif, subs>>
     \/ /\ event = "DENIED"
        /\ Become(m, "released") /\ notifySubscribers(m, subs[m], "DENIED") /\ Keep(m, << >>)
        /\ NoRequest

AgpsAcquiredState(m, event, id) ==
  /\ nif[m] = "acquired"
  /\ \/ /\ event = "SUBSCRIBE"
        /\ notifySubscribers(m, <<[id |-> id]>>, "GRANTED") /\ Keep(m, addSubscriber(subs[m], id))
        /\ NoRequest /\ UNCHANGED nif
     \/ event = "UNSUBSCRIBE" /\ Unsubscribed(m, id) /\ LastLeaves(m)
     \/ /\ event = "RELEASED"
        /\ Become(m, "released") /\ notifySubscribers(m, subs[m], event) /\ Keep(m, << >>)
        /\ NoRequest
     \/ /\ event \in {"GRANTED", "DENIED"}
        /\ notifyNobody /\ NoRequest /\ UNCHANGED <<nif, subs>>

AgpsReleasingState(m, event, id) ==
  /\ nif[m] = "releasing"
  \* An inactive subscriber with the handle hides the new one.
  /\ \/ /\ event = "SUBSCRIBE"
        /\ Keep(m, addSubscriber(subs[m], id))
        /\ conn' = IF id \in IdsOf(Active(subs'[m])) THEN conn ELSE Told({id}, "overlooked")
        /\ inbox' = Tail(inbox) /\ NoRequest /\ UNCHANGED <<nif, mRetries>>
     \/ /\ event = "UNSUBSCRIBE"
        /\ Unsubscribed(m, id) /\ NoRequest
        /\ IF subs'[m] = << >> THEN Become(m, "released") ELSE UNCHANGED nif
     \/ /\ event = "GRANTED"
        /\ notifyNobody /\ NoRequest /\ UNCHANGED <<nif, subs>>
     \/ /\ event \in {"RELEASED", "DENIED"}
        /\ LET left == Active(subs[m]) IN
           /\ Keep(m, left)
           /\ IF left = << >>
              THEN Become(m, "released") /\ notifyNobody /\ NoRequest
              ELSE /\ Become(m, "pending")
                   /\ \E ret \in {"ok", "busy", "failed"} : request(m, left, ret)

onRsrcEvent(m, event, id) ==
  \/ AgpsReleasedState(m, event, id)
  \/ AgpsPendingState(m, event, id)
  \/ AgpsAcquiredState(m, event, id)
  \/ AgpsReleasingState(m, event, id)

\* DSStateMachine::onRsrcEvent: a RELEASED that changes no state, since the
\* call was not up, refuses the call.
DsEvent(event) ==
  IF event = "RELEASED" /\ nif["ds"] \in {"released", "pending"} THEN "DENIED" ELSE event

------------------------------------------------------------------------------
(* The messages of the engine's thread. *)

Next1(kind) == inbox # << >> /\ inbox[1][1] = kind
Arg == inbox[1][2]

LocEngRequestATL == Next1("requestATL") /\ onRsrcEvent("agnss", "SUBSCRIBE", Arg)

LocEngRequestSuplEs == Next1("requestSuplES") /\ onRsrcEvent("ds", "SUBSCRIBE", Arg)

\* The handle is looked for in one machine after the other; a handle none
\* of them holds is told closed.
LocEngReleaseATL ==
  /\ Next1("releaseATL")
  /\ \/ Arg \in IdsOf(subs["agnss"]) /\ onRsrcEvent("agnss", "UNSUBSCRIBE", Arg)
     \/ /\ Arg \notin IdsOf(subs["agnss"]) /\ Arg \in IdsOf(subs["ds"])
        /\ onRsrcEvent("ds", "UNSUBSCRIBE", Arg)
     \/ /\ \A m \in Machines : Arg \notin IdsOf(subs[m])
        /\ conn' = Told({Arg}, "closed") /\ inbox' = Tail(inbox)
        /\ UNCHANGED <<nif, subs, mRetries>> /\ NoRequest

\* LocEngAtlOpenSuccess, LocEngAtlClosed and LocEngAtlOpenFailed
LocEngAtlEvent ==
  \E event \in {"GRANTED", "RELEASED", "DENIED"} :
    Next1(event) /\ Arg = "agnss" /\ onRsrcEvent("agnss", event, 0)

\* LocEngSuplEsOpened and LocEngSuplEsClosed
LocEngSuplEsEvent ==
  \E event \in {"GRANTED", "RELEASED"} :
    Next1(event) /\ Arg = "ds" /\ onRsrcEvent("ds", DsEvent(event), 0)

\* Mutant of LocEngUp: the subscribers of before the restart stay.
LocEngUp_KeepsSubscribers ==
  /\ Next1("engineUp") /\ inbox' = Tail(inbox)
  /\ UNCHANGED <<nif, subs, conn, calls, dsCall, mRetries, retryTimers>>

\* The restarted modem has forgotten its handles, and so does agnss.
LocEngUp ==
  /\ Next1("engineUp")
  /\ subs' = [subs EXCEPT !["agnss"] = << >>]
  /\ inbox' = Tail(inbox)
  /\ UNCHANGED <<nif, conn, calls, dsCall, mRetries, retryTimers>>

EngineThread ==
  \/ LocEngRequestATL \/ LocEngRequestSuplEs \/ LocEngReleaseATL
  \/ LocEngAtlEvent \/ LocEngSuplEsEvent \/ LocEngUp

\* retryCallback runs on the timer's thread.
retryCallback ==
  /\ retryTimers > 0 /\ retryTimers' = retryTimers - 1
  /\ inbox' = IF Active(subs["ds"]) = << >> THEN inbox
              ELSE Append(inbox, <<"requestSuplES", Active(subs["ds"])[1].id>>)
  /\ UNCHANGED <<nif, subs, conn, calls, dsCall, mRetries>>

------------------------------------------------------------------------------
(* Outside. *)

Quiet == Len(inbox) + Len(calls) + retryTimers < MaxInbox
Post(message) == inbox' = Append(inbox, message)

\* The modem does not reuse a handle before its release has been handled.  A
\* restarted modem reaches the engine again through the connection LocSsrMsg
\* reopens, the message that handleEngineUpEvent posts just ahead of LocEngUp.
ModemAsks(id) ==
  /\ conn[id] = "idle" /\ Quiet
  /\ \A i \in DOMAIN inbox : /\ inbox[i] # <<"releaseATL", id>>
                             /\ inbox[i] = <<"engineUp", "agnss">> => i = 1
  /\ conn' = [conn EXCEPT ![id] = "asked"]
  /\ Post(<<IF id \in EsIds THEN "requestSuplES" ELSE "requestATL", id>>)
  /\ UNCHANGED <<nif, subs, calls, dsCall, mRetries, retryTimers>>

ModemReleases(id) ==
  /\ conn[id] \in {"asked", "open", "ignored"} /\ Quiet
  /\ conn' = [conn EXCEPT ![id] = "closing"]
  /\ Post(<<"releaseATL", id>>)
  /\ UNCHANGED <<nif, subs, calls, dsCall, mRetries, retryTimers>>

ModemRestarts ==
  /\ Quiet /\ \E id \in Ids : conn[id] # "idle"
  /\ conn' = [id \in Ids |-> "idle"]
  /\ Post(<<"engineUp", "agnss">>)
  /\ UNCHANGED <<nif, subs, calls, dsCall, mRetries, retryTimers>>

\* The framework opens the connection or fails to, and closes it.
FrameworkAnswers ==
  /\ calls # << >> /\ calls' = Tail(calls)
  /\ \E answer \in IF calls[1] = "request" THEN {"GRANTED", "DENIED"} ELSE {"RELEASED"} :
       Post(<<answer, "agnss">>)
  /\ UNCHANGED <<nif, subs, conn, dsCall, mRetries, retryTimers>>

\* The data service reports that its call is up, or down.
DataServiceReports ==
  \/ /\ dsCall = "starting" /\ dsCall' = "up" /\ Post(<<"GRANTED", "ds">>)
     /\ UNCHANGED <<nif, subs, conn, calls, mRetries, retryTimers>>
  \/ /\ dsCall \in {"starting", "stopping"} /\ dsCall' = "down" /\ Post(<<"RELEASED", "ds">>)
     /\ UNCHANGED <<nif, subs, conn, calls, mRetries, retryTimers>>

DataServiceDrops ==
  /\ dsCall = "up" /\ dsCall' = "down" /\ Post(<<"RELEASED", "ds">>)
  /\ UNCHANGED <<nif, subs, conn, calls, mRetries, retryTimers>>

AgpsNext ==
  \/ EngineThread \/ retryCallback
  \/ \E id \in Ids : ModemAsks(id) \/ ModemReleases(id)
  \/ ModemRestarts \/ FrameworkAnswers \/ DataServiceReports \/ DataServiceDrops

AgpsSpec == AgpsInit /\ [][AgpsNext]_agpsVars

------------------------------------------------------------------------------
AgpsTypeOK ==
  /\ nif \in [Machines -> {"released", "pending", "acquired", "releasing"}]
  /\ conn \in [Ids -> {"idle", "asked", "open", "closing", "ignored"}]
  /\ dsCall \in {"down", "starting", "up", "stopping"}
  /\ mRetries \in 0..MAX_START_DATA_CALL_RETRIES
  /\ \A m \in Machines : \A i, j \in DOMAIN subs[m] : subs[m][i].id = subs[m][j].id => i = j

\* Handles of the modem about which a message is waiting in the inbox.
UnderWay(id) == \E i \in DOMAIN inbox : inbox[i] \in
  {<<"requestATL", id>>, <<"requestSuplES", id>>, <<"releaseATL", id>>, <<"engineUp", "agnss">>}

\* The modem and agnss agree about every handle no message is waiting for:
\* agnss holds a subscriber exactly for the handles the modem asked for or
\* has open, and one is open exactly while the connection is acquired.
\* (Emergency handles pass through ds and are left out.)
ModemAgrees ==
  /\ AgpsTypeOK
  /\ \A id \in Ids \ EsIds : ~UnderWay(id) =>
       /\ (id \in IdsOf(subs["agnss"])) = (conn[id] \in {"asked", "open"})
       /\ conn[id] = "asked" => nif["agnss"] = "pending"
       /\ conn[id] = "open" => nif["agnss"] = "acquired"

\* Whatever the framework and the data service answer, and through retries
\* and the fallback from ds to agnss, a handle the modem asks for is opened,
\* refused or given up, unless it is asked for while its earlier emergency
\* call is being released (then it is overlooked).
ConnectionsServed == \A id \in Ids : []<>(conn[id] # "asked")

==============================================================================
