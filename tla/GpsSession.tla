----------------------------- MODULE GpsSession -----------------------------
(***************************************************************************)
(* The positioning session of the GPS engine (gps/.../loc_eng.cpp with     *)
(* LocEngAdapter.cpp and LocApiBase.cpp): what the framework asks, what the*)
(* modem reports and what it is told, through the one queue of the engine's*)
(* thread, over restarts of the modem.  The modem and the library that     *)
(* speaks to it (mLocApi) are not part of the repository: a fix that is    *)
(* started runs until it is stopped or the modem restarts, a single fix    *)
(* also until it is reported.                                              *)
(***************************************************************************)
EXTENDS Integers, Sequences

CONSTANTS MaxSessionCalls,   \* calls of the framework and reports of the modem
          MaxRestarts,       \* restarts of the modem
          MaxSessionQ        \* messages in the queue

VARIABLES
  sessionQ,      \* messages of the engine's thread
  mNavigating,   \* the adapter is in a session
  mFixCriteria,  \* [mode, recurrence] of LocEngAdapter
  modemUp,
  modemFix,      \* the fix the modem runs, as [mode, recurrence]; recurrence "none"
                 \* when it runs none, "offline" when it could not run the one asked for
  asked,         \* the mode the framework asked for when the session was started
  muteState,     \* mute_session_state
  engineStatus,  \* engine_status
  aiding,        \* aiding_data_for_deletion is not 0
  notified,      \* what the framework is told in this step
  sessionCalls, restarts

sessionVars == <<sessionQ, mNavigating, mFixCriteria, modemUp, modemFix, asked, muteState,
                 engineStatus, aiding, notified, sessionCalls, restarts>>

Recurrences == {"PERIODIC", "SINGLE"}
NoFix == [mode |-> "INVALID", recurrence |-> "none"]
Unset == [mode |-> "INVALID", recurrence |-> "PERIODIC"]

\* loc_eng_init: everything is zero; recurrence 0 is PERIODIC.
SessionInit ==
  /\ sessionQ = << >> /\ mNavigating = FALSE /\ mFixCriteria = Unset
  /\ modemUp = TRUE /\ modemFix = NoFix /\ asked = "none"
  /\ muteState = "NONE" /\ engineStatus = "NONE" /\ aiding = FALSE /\ notified = {}
  /\ sessionCalls = 0 /\ restarts = 0

(***************************************************************************)
(* The framework's calls, and the modem's reports, post a message.         *)
(***************************************************************************)
PostSession(m) ==
  /\ sessionCalls < MaxSessionCalls /\ sessionCalls' = sessionCalls + 1
  /\ Len(sessionQ) < MaxSessionQ
  /\ sessionQ' = Append(sessionQ, m) /\ notified' = {}

loc_eng_set_position_mode(r) ==
  /\ PostSession(<<"mode", r>>)
  /\ UNCHANGED <<mNavigating, mFixCriteria, modemUp, modemFix, asked, muteState, engineStatus,
                 aiding, restarts>>

loc_eng_call(kind) ==
  /\ PostSession(<<kind>>)
  /\ UNCHANGED <<mNavigating, mFixCriteria, modemUp, modemFix, asked, muteState, engineStatus,
                 aiding, restarts>>

\* loc_eng_cleanup: the session is stopped if there is one at this moment.
loc_eng_cleanup == mNavigating /\ loc_eng_call("stop")

\* A report of a fix: the last one of a single fix ends it.
ModemReportsPosition(status, satellite) ==
  /\ modemUp /\ modemFix.recurrence \in Recurrences
  /\ PostSession(<<"position", status, satellite>>)
  /\ modemFix' = IF modemFix.recurrence = "SINGLE" /\ status # "INTERMEDIATE" /\ satellite
                 THEN NoFix ELSE modemFix
  /\ UNCHANGED <<mNavigating, mFixCriteria, modemUp, asked, muteState, engineStatus, aiding, restarts>>

ModemReports(report) ==
  /\ modemUp /\ PostSession(report)
  /\ UNCHANGED <<mNavigating, mFixCriteria, modemUp, modemFix, asked, muteState, engineStatus,
                 aiding, restarts>>

ModemFails ==
  /\ modemUp /\ restarts < MaxRestarts /\ restarts' = restarts + 1
  /\ modemUp' = FALSE /\ modemFix' = NoFix
  /\ sessionQ' = Append(sessionQ, <<"down">>) /\ notified' = {}
  /\ UNCHANGED <<mNavigating, mFixCriteria, asked, muteState, engineStatus, aiding, sessionCalls>>

\* LocApiBase::handleEngineUpEvent; the reopening of the library comes first.
ModemRecovers ==
  /\ ~modemUp /\ modemUp' = TRUE
  /\ sessionQ' = Append(sessionQ, <<"up">>) /\ notified' = {}
  /\ UNCHANGED <<mNavigating, mFixCriteria, modemFix, asked, muteState, engineStatus, aiding,
                 sessionCalls, restarts>>

(***************************************************************************)
(* What the modem makes of startFix: one it refuses leaves no fix running. *)
(***************************************************************************)
StartFixResults == IF modemUp THEN {"SUCCESS", "GENERAL_FAILURE", "PHONE_OFFLINE"}
                   ELSE {"ENGINE_DOWN"}

StartedFix(criteria, result) ==
  CASE result = "SUCCESS" -> criteria
    [] result = "PHONE_OFFLINE" -> [criteria EXCEPT !.recurrence = "offline"]
    [] result = "GENERAL_FAILURE" -> NoFix
    [] OTHER -> modemFix

\* LocEngAdapter::setInSession: leaving a session invalidates the mode.
setInSession(on, criteria) ==
  /\ mNavigating' = on
  /\ mFixCriteria' = IF on THEN criteria ELSE [criteria EXCEPT !.mode = "INVALID"]

\* startFix and, for these results, the session (loc_eng_start_handler).
StartWith(criteria) ==
  \E result \in StartFixResults :
    /\ modemFix' = StartedFix(criteria, result)
    /\ setInSession(result # "GENERAL_FAILURE", criteria)

loc_eng_start_handler ==
  IF mNavigating THEN UNCHANGED <<mNavigating, mFixCriteria, modemFix, asked>>
  ELSE /\ \E result \in StartFixResults :
            /\ modemFix' = StartedFix(mFixCriteria, result)
            /\ mNavigating' = (result # "GENERAL_FAILURE") /\ UNCHANGED mFixCriteria
       /\ asked' = mFixCriteria.mode

loc_eng_stop_handler ==
  /\ IF mNavigating THEN modemFix' = NoFix /\ setInSession(FALSE, mFixCriteria)
     ELSE UNCHANGED <<mNavigating, mFixCriteria, modemFix>>
  /\ UNCHANGED asked

\* LocEngPositionMode: in a session the library restarts the fix.
setPositionMode(r) ==
  /\ mFixCriteria' = [mode |-> "STANDALONE", recurrence |-> r]
  /\ modemFix' = IF mNavigating /\ modemUp THEN mFixCriteria' ELSE modemFix
  /\ asked' = IF mNavigating THEN "STANDALONE" ELSE asked
  /\ UNCHANGED mNavigating

\* LocEngReportPosition; intermediate is gps_conf.INTERMEDIATE_POS, which
\* lets any report through.
Reported(status, satellite, intermediate) ==
  status = "FAILURE" \/ (status = "SUCCESS" /\ satellite) \/ intermediate

LocEngReportPosition(status, satellite) ==
  \E intermediate \in BOOLEAN :
    /\ IF muteState # "IN_SESSION" /\ Reported(status, satellite, intermediate)
       THEN /\ notified' = {"position"}
            /\ IF mFixCriteria.recurrence = "SINGLE"
               THEN /\ setInSession(FALSE, mFixCriteria)
                    /\ modemFix' = IF status = "INTERMEDIATE" THEN NoFix ELSE modemFix
               ELSE UNCHANGED <<mNavigating, mFixCriteria, modemFix>>
       ELSE notified' = {} /\ UNCHANGED <<mNavigating, mFixCriteria, modemFix>>
    /\ UNCHANGED <<asked, muteState, engineStatus, aiding>>

\* loc_eng_report_status
ReportStatus(status) ==
  /\ muteState' = CASE muteState = "WAIT" /\ status \in {"SESSION_BEGIN", "ENGINE_ON"} -> "IN_SESSION"
                    [] muteState = "IN_SESSION" /\ status \in {"SESSION_END", "ENGINE_OFF"} -> "NONE"
                    [] OTHER -> muteState
  /\ notified' = IF \/ status = "SESSION_END" /\ mNavigating
                    \/ status = "SESSION_BEGIN" /\ ~mNavigating
                    \/ muteState' = "IN_SESSION"
                 THEN {} ELSE {status}
  /\ engineStatus' = IF status \in {"ENGINE_ON", "ENGINE_OFF"} THEN status ELSE engineStatus

\* Satellites and measurements are kept back in a muted session; the
\* modem's NMEA sentences are not.
LocEngReportSv == notified' = IF muteState = "IN_SESSION" THEN {} ELSE {"sv"}
LocEngReportGnssMeasurement == notified' = IF muteState = "IN_SESSION" THEN {} ELSE {"measurement"}
LocEngReportNmea == notified' = {"nmea"}

\* update_aiding_data_for_deletion
UpdateAiding(pending) == aiding' = (pending /\ engineStatus' = "ENGINE_ON")

\* A deletion asked for while the engine is on waits until it is off.
LocEngDelAidData == UNCHANGED engineStatus /\ UpdateAiding(TRUE) /\ notified' = {}

\* Mutant of EngineUp: the fix is not started again.
EngineUp_NoRestart == UNCHANGED <<mNavigating, mFixCriteria, modemFix>>

\* loc_eng_handle_engine_up: a session goes on with a fix in the mode that
\* leaving the session has just invalidated.
EngineUp ==
  IF mNavigating THEN StartWith([mFixCriteria EXCEPT !.mode = "INVALID"])
  ELSE UNCHANGED <<mNavigating, mFixCriteria, modemFix>>

(***************************************************************************)
(* The engine's thread takes one message at a time.                        *)
(***************************************************************************)
Unmoved == UNCHANGED <<mNavigating, mFixCriteria, modemFix, asked, muteState, engineStatus, aiding>>
Calm == UNCHANGED <<muteState, engineStatus, aiding>> /\ notified' = {}

ProcSession(m) ==
  CASE m[1] = "mode"  -> setPositionMode(m[2]) /\ Calm
    [] m[1] = "start" -> loc_eng_start_handler /\ Calm
    [] m[1] = "stop"  -> loc_eng_stop_handler /\ Calm
    [] m[1] = "position" -> LocEngReportPosition(m[2], m[3])
    [] m[1] = "status" -> /\ ReportStatus(m[2]) /\ UpdateAiding(aiding)
                          /\ UNCHANGED <<mNavigating, mFixCriteria, modemFix, asked>>
    [] m[1] = "sv" -> LocEngReportSv /\ Unmoved
    [] m[1] = "measurement" -> LocEngReportGnssMeasurement /\ Unmoved
    [] m[1] = "nmea" -> LocEngReportNmea /\ Unmoved
    [] m[1] = "delete" -> /\ LocEngDelAidData
                          /\ UNCHANGED <<mNavigating, mFixCriteria, modemFix, asked, muteState>>
    [] m[1] = "down" -> /\ ReportStatus("ENGINE_OFF")
                        /\ UNCHANGED <<mNavigating, mFixCriteria, modemFix, asked, aiding>>
    [] m[1] = "up" -> EngineUp /\ Calm /\ UNCHANGED asked

SessionThread ==
  /\ sessionQ # << >> /\ sessionQ' = Tail(sessionQ)
  /\ ProcSession(Head(sessionQ))
  /\ UNCHANGED <<modemUp, sessionCalls, restarts>>

\* loc_eng_mute_one_session, called by the handler of an NI request that
\* overrides privacy, on the engine's thread.
loc_eng_mute_one_session ==
  /\ muteState # "WAIT" /\ sessionCalls < MaxSessionCalls /\ sessionCalls' = sessionCalls + 1
  /\ muteState' = "WAIT" /\ notified' = {}
  /\ UNCHANGED <<sessionQ, mNavigating, mFixCriteria, modemUp, modemFix, asked, engineStatus,
                 aiding, restarts>>

SessionNext ==
  \/ \E r \in Recurrences : loc_eng_set_position_mode(r)
  \/ \E kind \in {"start", "stop", "delete"} : loc_eng_call(kind)
  \/ loc_eng_cleanup
  \/ \E status \in {"SUCCESS", "INTERMEDIATE", "FAILURE"}, satellite \in BOOLEAN :
       ModemReportsPosition(status, satellite)
  \/ \E s \in {"SESSION_BEGIN", "SESSION_END", "ENGINE_ON", "ENGINE_OFF"} : ModemReports(<<"status", s>>)
  \/ \E report \in {"sv", "nmea", "measurement"} : ModemReports(<<report>>)
  \/ ModemFails \/ ModemRecovers
  \/ SessionThread \/ loc_eng_mute_one_session

SessionSpec == SessionInit /\ [][SessionNext]_sessionVars

------------------------------------------------------------------------------
SessionTypeOK ==
  /\ mNavigating \in BOOLEAN /\ modemUp \in BOOLEAN
  /\ mFixCriteria.recurrence \in Recurrences
  /\ modemFix.recurrence \in Recurrences \cup {"none", "offline"}
  /\ muteState \in {"NONE", "WAIT", "IN_SESSION"}

Settled == sessionQ = << >> /\ modemUp

\* Once the queue is empty and the modem is up, the modem runs a periodic
\* fix exactly when the engine is in a session, whatever crossed in the
\* queue: starts, stops, changes of mode, late positions, and restarts of
\* the modem before, during and after them.  A single fix may outlive its
\* session, when the last report of the fix before it ends it.  A fix runs in
\* the mode the framework asked for, except that a restart of the modem lets
\* it go on in the invalidated mode (see EngineUp).
NavigationMatches ==
  Settled => /\ modemFix.recurrence = "PERIODIC" => mNavigating
             /\ mNavigating /\ mFixCriteria.recurrence = "PERIODIC" => modemFix.recurrence # "none"
             /\ mNavigating /\ modemFix.recurrence \in Recurrences =>
                  modemFix.mode = asked \/ (restarts > 0 /\ modemFix.mode = "INVALID")

==============================================================================
