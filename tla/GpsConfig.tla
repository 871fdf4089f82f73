------------------------------ MODULE GpsConfig ------------------------------
(***************************************************************************)
(* The configuration of the GPS modem (gps/.../loc_eng.cpp): what the      *)
(* configuration files and the framework set is kept by the engine, sent   *)
(* to the modem item by item through the engine's queue, and sent again    *)
(* when the modem comes back from a restart that made it forget.           *)
(*                                                                         *)
(* The engine reads its settings and posts them in two steps, on its own   *)
(* thread; the framework changes a setting and posts it on another.        *)
(* Settings are numbers, 0 for one that was never set.                     *)
(***************************************************************************)
EXTENDS Integers, Sequences, FiniteSets

CONSTANTS MaxUpdates,    \* changes by the framework
          MaxForgets,    \* restarts of the modem
          SendNmea,      \* ~generateNmea: the modem generates the NMEA sentences
          Changing,      \* the items the framework's updates change
          Servers        \* the servers the framework sets

VARIABLES
  kept,       \* gps_conf, sap_conf, agpsStatus and the server buffers
  modemHas,   \* what the modem has been told since its last restart
  confQ,      \* messages: <<"set", items>>, <<"init">>, <<"up">>, <<"agps">>, <<"lock">>
  rereading,  \* loc_eng_reinit on the engine's thread: {} or {the settings it read}
  agpsReady,  \* agps_status_cb is set
  confUp,     \* the modem is up
  overtaken,  \* items the framework changed between the reading and the posting
  updates, forgets

configVars == <<kept, modemHas, confQ, rereading, agpsReady, confUp, overtaken, updates, forgets>>

\* What the sensors may be used for.
SensorItems == {"SENSOR_CONTROL", "SENSOR_PROPERTIES", "SENSOR_PERF"}
\* Read from the configuration files once.
FileItems == SensorItems \cup {"LPPE", "XTRA_VERSION_CHECK"}
                \cup (IF SendNmea THEN {"NMEA_TYPES"} ELSE {})
\* Read from the configuration files, and changed by loc_eng_configuration_update.
UpdatedItems == {"SUPL_VER", "LPP_PROFILE", "A_GLONASS"}
\* Set by the framework only, and kept to be sent again.
ServerItems == {"SUPL_SERVER", "C2K_SERVER"}
NetworkItems == {"DATA"}
Reinitialised == FileItems \cup UpdatedItems \cup NetworkItems
\* The rest of what the modem is told, which no restart repeats.
Unrepeated == {"GPS_LOCK", "APN"}
ConfItems == Reinitialised \cup ServerItems \cup Unrepeated

\* loc_eng_configuration_update compares these, loc_eng_set_server_proxy knows those.
ASSUME ConfigAssumption == Changing \subseteq UpdatedItems /\ Servers \subseteq ServerItems

\* loc_default_parameters, the files, and loc_eng_init with its LocEngInit.
ConfigInit ==
  /\ kept = [i \in ConfItems |-> IF i \in FileItems \cup UpdatedItems THEN 1 ELSE 0]
  /\ modemHas = [i \in ConfItems |-> 0]
  /\ confQ = << <<"init">> >> /\ rereading = {} /\ agpsReady = FALSE /\ confUp = TRUE
  /\ overtaken = {} /\ updates = 0 /\ forgets = 0

Setting(items) == [i \in items |-> kept[i]]
Overtakes(items) == IF rereading # {} THEN overtaken \cup items ELSE overtaken

(***************************************************************************)
(* The framework.                                                          *)
(***************************************************************************)
ConfUpdate ==
  /\ updates < MaxUpdates /\ updates' = updates + 1
  /\ UNCHANGED <<modemHas, rereading, confUp, forgets>>

\* loc_eng_configuration_update: the items that differ are posted, and the
\* lock in any case.
loc_eng_configuration_update(changed) ==
  /\ ConfUpdate
  /\ kept' = [i \in ConfItems |-> IF i \in changed THEN 3 - kept[i] ELSE kept[i]]
  /\ confQ' = confQ \o << <<"set", [i \in changed |-> kept'[i]]>>, <<"lock">> >>
  /\ overtaken' = Overtakes(changed)
  /\ UNCHANGED agpsReady

\* loc_eng_set_server_proxy
loc_eng_set_server_proxy(s) ==
  /\ ConfUpdate
  /\ kept' = [kept EXCEPT ![s] = @ + 1]
  /\ confQ' = Append(confQ, <<"set", [i \in {s} |-> kept[s] + 1]>>)
  /\ overtaken' = Overtakes({s})
  /\ UNCHANGED agpsReady

\* loc_eng_agps_ril_update_network_availability: without an APN the new
\* state is kept and not posted.
update_network_availability(available, withApn) ==
  /\ ConfUpdate
  /\ kept' = [kept EXCEPT !["DATA"] = available, !["APN"] = IF withApn THEN 1 ELSE @]
  /\ confQ' = IF withApn THEN Append(confQ, <<"set", [DATA |-> available, APN |-> 1]>>) ELSE confQ
  /\ overtaken' = IF withApn THEN Overtakes({"DATA"}) ELSE overtaken \cup {"DATA"}
  /\ UNCHANGED agpsReady

\* loc_eng_agps_init: the servers that are set are posted.
ServersSet == {s \in ServerItems : kept[s] # 0}
loc_eng_agps_init ==
  /\ ~agpsReady /\ agpsReady' = TRUE
  /\ confQ' = Append(confQ, <<"set", Setting(ServersSet)>>)
  /\ UNCHANGED <<kept, modemHas, rereading, confUp, overtaken, updates, forgets>>

(***************************************************************************)
(* The modem.                                                              *)
(***************************************************************************)
ModemForgets ==
  /\ confUp /\ forgets < MaxForgets /\ forgets' = forgets + 1
  /\ confUp' = FALSE /\ modemHas' = [i \in ConfItems |-> 0]
  /\ UNCHANGED <<kept, confQ, rereading, agpsReady, overtaken, updates>>

ModemReturns ==
  /\ ~confUp /\ confUp' = TRUE /\ confQ' = Append(confQ, <<"up">>)
  /\ UNCHANGED <<kept, modemHas, rereading, agpsReady, overtaken, updates, forgets>>

(***************************************************************************)
(* The engine's thread.  An item sent while the modem is down is lost.     *)
(***************************************************************************)
TellModem(setting) ==
  modemHas' = [i \in ConfItems |-> IF confUp /\ i \in DOMAIN setting THEN setting[i] ELSE modemHas[i]]

\* The messages of loc_eng.cpp that carry one setting each to the adapter.
ProcSet ==
  /\ Head(confQ)[1] = "set" /\ TellModem(Head(confQ)[2])
  /\ UNCHANGED <<rereading, overtaken>>

ProcLock ==
  /\ Head(confQ)[1] = "lock" /\ TellModem([GPS_LOCK |-> 1])
  /\ UNCHANGED <<rereading, overtaken>>

\* Mutant of ReadItems: loc_eng_agps_reinit is not called on the way up.
ReadItems_NoServers(kind) == Reinitialised

\* loc_eng_reinit, and loc_eng_agps_reinit on the way up: the settings are
\* read; LocEngInit also sets the lock.
ReadItems(kind) == Reinitialised \cup (IF kind = "up" /\ agpsReady THEN ServersSet ELSE {})

ProcReinit ==
  /\ Head(confQ)[1] \in {"init", "up"}
  /\ rereading' = {Setting(ReadItems(Head(confQ)[1]))}
  /\ IF Head(confQ)[1] = "init" THEN TellModem([GPS_LOCK |-> 1]) ELSE UNCHANGED modemHas
  /\ overtaken' = overtaken \ ReadItems(Head(confQ)[1])

ProcConfig ==
  /\ rereading = {} /\ confQ # << >> /\ confQ' = Tail(confQ)
  /\ ProcSet \/ ProcLock \/ ProcReinit
  /\ UNCHANGED <<kept, agpsReady, confUp, updates, forgets>>

PostReread(setting) ==
  /\ rereading' = {} /\ confQ' = Append(confQ, <<"set", setting>>)
  /\ UNCHANGED <<kept, modemHas, agpsReady, confUp, overtaken, updates, forgets>>

ConfigNext ==
  \/ \E changed \in SUBSET Changing : loc_eng_configuration_update(changed)
  \/ \E s \in Servers : loc_eng_set_server_proxy(s)
  \/ \E available \in {0, 1}, withApn \in BOOLEAN : update_network_availability(available, withApn)
  \/ loc_eng_agps_init
  \/ ModemForgets \/ ModemReturns
  \/ ProcConfig \/ \E setting \in rereading : PostReread(setting)

ConfigSpec == ConfigInit /\ [][ConfigNext]_configVars

------------------------------------------------------------------------------
ConfigTypeOK ==
  /\ DOMAIN kept = ConfItems /\ DOMAIN modemHas = ConfItems
  /\ Cardinality(rereading) <= 1 /\ overtaken \subseteq ConfItems

\* When nothing is left to do and the modem is up, the modem has every
\* setting the engine keeps, although it forgets them all when it restarts
\* and the framework changes them meanwhile, before agps_init and after.
\* Left out are the lock and the APN, which a restart does not repeat, an
\* item changed just between the engine's reading and posting of it (the
\* engine's older value is sent last), and a network state given without
\* an APN.
ConfigRestored ==
  confQ = << >> /\ rereading = {} /\ confUp =>
    \A i \in (Reinitialised \cup (IF agpsReady THEN ServerItems ELSE {})) \ overtaken :
      modemHas[i] = kept[i]

==============================================================================
