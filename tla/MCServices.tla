------------------------------ MODULE MCServices ------------------------------
(***************************************************************************)
(* The services that keep their own state, on small instances: the         *)
(* dispatcher, uplink, downlink and neighbours of IPACM, the modem's       *)
(* helper and its file transfer, libril by its four concerns, the GPS      *)
(* stack by its six, and the soft access point with its driver.  None of   *)
(* them shares a variable with another, so a behaviour is one of one       *)
(* service: `concern` says of which, and the variables of the others keep  *)
(* their initial values.                                                   *)
(***************************************************************************)
EXTENDS EvtDispatcher, Uplink, WanFilters, Neighbours, ModemHelper, FileTransfer, ModemConversions,
        RadioDispatch, RadioConversions, RadioService, RilEvents, RilSap,
        GpsAgps, GpsNi, GpsTimer, GpsTasks, GpsSession, GpsConfig, GpsNmea, GpsSetup,
        Softap, SoftapDriver

CONSTANT Concerns   \* the services of a run

VARIABLE concern

allVars == <<concern, vars, uplinkVars, filterVars, neighbourVars, modemVars, transferVars, dispatchVars,
             serviceVars, eventVars, sapVars, agpsVars, niVars, timerVars, taskVars, sessionVars, configVars,
             softapVars, softapDriverVars>>

\* A step of one concern leaves the others alone.
Only(c) ==
  /\ concern = c /\ concern' = c
  /\ c # "dispatcher" => UNCHANGED vars
  /\ c # "uplink" => UNCHANGED uplinkVars
  /\ c # "downlink" => UNCHANGED filterVars
  /\ c # "neighbours" => UNCHANGED neighbourVars
  /\ c # "modem helper" => UNCHANGED modemVars
  /\ c # "file transfer" => UNCHANGED transferVars
  /\ c # "radio dispatch" => UNCHANGED dispatchVars
  /\ c # "radio service" => UNCHANGED serviceVars
  /\ c # "ril events" => UNCHANGED eventVars
  /\ c # "ril sap" => UNCHANGED sapVars
  /\ c # "agps" => UNCHANGED agpsVars
  /\ c # "ni" => UNCHANGED niVars
  /\ c # "timers" => UNCHANGED timerVars
  /\ c # "tasks" => UNCHANGED taskVars
  /\ c # "session" => UNCHANGED sessionVars
  /\ c # "configuration" => UNCHANGED configVars
  /\ c # "soft ap" => UNCHANGED softapVars
  /\ c # "soft ap driver" => UNCHANGED softapDriverVars

\* A service that is not the concern has one initial state.
ServicesInit ==
  /\ concern \in Concerns
  /\ Init /\ UplinkInit /\ FiltersInit /\ NeighboursInit /\ HelperInit /\ TransferInit /\ DispatchInit /\ ServiceInit
  /\ EventsInit /\ SapInit /\ AgpsInit /\ NiInit /\ TimerInit /\ TaskInit /\ SessionInit
  /\ ConfigInit /\ SoftapInit /\ DriverInit
  /\ concern # "uplink" => wanOrder = <<"Q6", "STA">> /\ outside = CHOOSE s \in Scenarios : TRUE
  /\ concern # "downlink" => /\ firewallFile = CHOOSE f \in FirewallFiles : TRUE
                             /\ outsideFilter = CHOOSE s \in FilterScenarios : TRUE
  /\ concern # "modem helper" => ~warm /\ link = "bound"
  /\ concern # "file transfer" => job = "dump"
  /\ concern # "radio dispatch" => version = (CHOOSE v \in Versions : TRUE) /\ client = "V1_0"
  /\ concern # "ril events" => rilVersion = CHOOSE v \in {12, 13} : TRUE

ServicesNext ==
  \/ Only("dispatcher") /\ Next
  \/ Only("uplink") /\ UplinkNext
  \/ Only("downlink") /\ FiltersNext
  \/ Only("neighbours") /\ NeighboursNext
  \/ Only("modem helper") /\ HelperNext
  \/ Only("file transfer") /\ TransferNext
  \/ Only("radio dispatch") /\ DispatchNext
  \/ Only("radio service") /\ ServiceNext
  \/ Only("ril events") /\ EventsNext
  \/ Only("ril sap") /\ SapNext
  \/ Only("agps") /\ AgpsNext
  \/ Only("ni") /\ NiNext
  \/ Only("timers") /\ TimerNext
  \/ Only("tasks") /\ TaskNext
  \/ Only("session") /\ SessionNext
  \/ Only("configuration") /\ ConfigNext
  \/ Only("soft ap") /\ SoftapNext
  \/ Only("soft ap driver") /\ DriverNext

\* The threads and timers that the system keeps running, at most four in a service.  A
\* behaviour is of one concern, so that fairness of the i-th of whichever service it is
\* says that each of them is fair by itself.
Runner(i) ==
  CASE concern = "dispatcher" -> i = 1 /\ ProcessThread
    [] concern = "modem helper" -> \/ i = 1 /\ HelperStep
                                   \/ i = 2 /\ BootFinishes
    [] concern = "ril events" -> \/ i = 1 /\ LoopStep
                                 \/ i = 2 /\ Tick
                                 \/ i = 3 /\ (RememberTimer("v1") \/ ScheduleTimeout("v1"))
                                 \/ i = 4 /\ (RememberTimer("v2") \/ ScheduleTimeout("v2"))
    [] concern = "agps" -> \/ i = 1 /\ EngineThread
                           \/ i = 2 /\ retryCallback
                           \/ i = 3 /\ FrameworkAnswers
                           \/ i = 4 /\ DataServiceReports
    [] concern = "ni" -> \/ i = 1 /\ NiResetWakes
                         \/ i = 2 /\ \E t \in niThreads : NiThread(t)
    [] concern = "timers" -> \/ i = 1 /\ TimerMsgThread
                             \/ i = 2 /\ TimerPollThread
                             \/ i = 3 /\ TimePasses
    [] OTHER -> FALSE

ServicesFairness == \A i \in 1..4 : WF_allVars(Runner(i) /\ Only(concern))

ServicesSafety == ServicesInit /\ [][ServicesNext]_allVars
ServicesSpec == ServicesSafety /\ ServicesFairness

\* The variables of the services of which only safety is asked have their types: lists,
\* counters and states stay within what the structures of the code can hold.  (The
\* others state theirs with their invariants.)
ServicesTypeOK ==
  /\ TransferTypeOK /\ DispatchTypeOK /\ ServiceTypeOK /\ SapTypeOK
  /\ TaskTypeOK /\ SessionTypeOK /\ ConfigTypeOK

-------------------------------------------------------------------------------
\* A LAN and a WAN interface, and three message objects.
CONSTANTS usb0, rmnet0, m1, m2, m3
LanAndWan == {usb0, rmnet0}
LanAndWanKinds == usb0 :> "lan" @@ rmnet0 :> "wan"
ThreeMsgs == {m1, m2, m3}
AllEvents == DispEvents

\* Tethering over IPv4 and over IPv6 with a change of backhaul, backhauls going down,
\* and software routing.
Tether(fam, w) == {Event("upstreamAdd", fam, w), Event("upstreamDel", fam, w)}
Address(fam, a) == Event("address", fam, a)
LanGone == Event("lanDown", "v4", "a")
UplinkScenarios ==
  {Tether("v4", "Q6") \cup Tether("v4", "STA")
     \cup {Address("v4", "a"), LanGone, Event("neighbour", "v4", "STA")},
   Tether("v6", "Q6") \cup Tether("v6", "STA")
     \cup {Address("v6", "a"), Address("v6", "b"), LanGone},
   Tether("v4", "Q6") \cup Tether("v6", "Q6")
     \cup {Address("v4", "a"), Address("v6", "a"), Event("wanDown", "v4", "Q6"),
           Event("wanDown", "v4", "STA")},
   {Address("v4", "a"), LanGone, Event("upstreamAdd", "v4", "Q6"),
    Event("softwareOn", "v4", "a"), Event("softwareOff", "v4", "a")}}

\* Connections that take the default route from each other, over IPv4 and over IPv6; one
\* connection with both families; changes of the firewall and of software routing; the
\* station by itself, and with a connection.
Of(names, fams, ws) == {Event(n, fam, w) : n \in names, fam \in fams, w \in ws}
Gone(ws) == Of({"down"}, {"v4"}, ws)
ByUser(names) == Of(names, {"v4"}, {"none"})
DownlinkScenarios ==
  {Of({"address", "upstreamAdd"}, {"v4"}, {"p1", "p2"}) \cup Gone({"p1", "p2"}),
   Of({"address", "upstreamAdd"}, {"v6"}, {"p1", "p2"}) \cup Gone({"p1", "p2"}),
   Of({"address", "upstreamAdd"}, {"v4"}, {"p1", "p2"}) \cup Of({"address", "upstreamAdd"}, {"v6"}, {"p1"})
     \cup Gone({"p1"}),
   Of({"address", "upstreamAdd", "upstreamDel"}, {"v4", "v6"}, {"p1"}) \cup Gone({"p1"}) \cup ByUser({"firewall"}),
   Of({"address", "upstreamAdd"}, {"v4"}, {"p1"}) \cup Gone({"p1"})
     \cup ByUser({"firewall", "softwareOn", "softwareOff"}),
   Of({"upstreamAdd", "upstreamDel"}, {"v6"}, {"STA"}) \cup Gone({"STA"})
     \cup ByUser({"firewall", "softwareOn", "softwareOff"}),
   Of({"address"}, {"v4"}, {"p1"}) \cup Of({"upstreamAdd"}, {"v4"}, {"p1", "STA"}) \cup ByUser({"firewall"})}

\* No firewall, and one that accepts what its entries match.
OffAndOn ==
  {[enable |-> FALSE, accept |-> FALSE, entries |-> [v4 |-> << >>, v6 |-> << >>]],
   [enable |-> TRUE, accept |-> TRUE, entries |-> [v4 |-> <<"TCP_UDP">>, v6 |-> <<"UDP">>]]}

\* A configuration file of hostapd, the driver's, the values set and the command lines.
HostapdConf ==
  <<Line("interface", "wlan0", TRUE), Line("ssid", "q", TRUE), Line("ssid2", "q2", FALSE),
    Line("wpa", "1", FALSE), Line("wpa", "2", FALSE), Line("wpa_passphrase", "p", FALSE),
    Line("wep_default_key", "0", FALSE), Line("wep_key0", "k", FALSE),
    Line("rsn_pairwise", "CCMP", FALSE), Line("hw_mode", "g", TRUE), Line("ieee80211n", "1", TRUE)>>
DriverIni == <<Line("gTxPowerCap", "27", TRUE), EndLine>>
AskedValues ==
  {<<"security_mode", m>> : m \in SEC_MODES \cup {"bad"}}
  \cup {<<"wep_default_key", "1">>, <<"ssid2", "b">>, <<"channel", "36">>, <<"hw_mode", "n-only">>,
        <<"wps_state", "1">>, <<"data_rate", "28">>, <<"commit", "">>, <<"reset_to_default", "">>}
CommandLines ==
  {[file |-> "hostapd", argc |-> 2, sec |-> "none", channel |-> "0"],
   [file |-> "dual2g", argc |-> 9, sec |-> "wpa2-psk", channel |-> "6"]}

-------------------------------------------------------------------------------
(***************************************************************************)
(* The algorithms without state, on all inputs up to a bound.              *)
(***************************************************************************)
\* Framing and unframing, on all packets of up to three bytes that the framing
\* treats differently.
ASSUME HdlcRoundTrip ==
  \A n \in 0..3 : \A p \in [1..n -> {0, 93, 94, 125, 126}] :
    \A c \in {<<0, 0>>, <<126, 125>>} : RoundTrip(p, c)

\* Detection, on systems of up to two esocs and two subsystems.
Esocs == {[node |-> n, soc |-> s, port |-> "tty", link |-> l] :
            n \in {"esoc0", "esoc1"}, s \in {"MDM9x25", "MDM9x15", Unread}, l \in {"HSIC", Unread}}
Subsystems == {[name |-> n, state |-> s] :
                 n \in {"esoc0", "esoc1", "modem", Unread}, s \in {"OFFLINE", "ONLINE"}}
ASSUME Detection ==
  \A es \in BoundedSeq(Esocs, 2), ss \in BoundedSeq(Subsystems, 2) :
    StateReported(es, ss) /\ HelperRuns(es, ss)

\* The tables of ril_commands.h and ril_unsol_commands.h agree with ril_service.cpp:
\* every entry names one of its functions, and only one indication has no entry.
ASSUME TablesComplete ==
  /\ {s_commands[i][2] : i \in DOMAIN s_commands} \ {"NULL"} = DOMAIN Responses
  /\ {s_unsolResponses[i][2] : i \in DOMAIN s_unsolResponses} \subseteq DOMAIN Indications \cup {"NULL"}
  /\ DOMAIN Indications \ {s_unsolResponses[i][2] : i \in DOMAIN s_unsolResponses}
       = {"keepaliveStatusInd"}

\* What the conversions of ril_service.cpp and ril_mnc.h promise.
ASSUME Conversions ==
  CellIdentityExclusive /\ ListsExclusive /\ SignalIdempotent
  /\ DataCallListsTold /\ HexExact /\ MncRoundTrip

\* The heap of timers, the NMEA sentences, the set-up of the GPS stack, and the MAC
\* lists and keys of the soft access point.
ASSUME Heap == HeapCorrect(5)
ASSUME Nmea == NmeaCorrect(6)
ASSUME Setup == SetupCorrect(4)
ASSUME MacLists == MacListsCorrect({"m1", "m2", "invalid"}, 3)
ASSUME Keys == KeysCorrect
===============================================================================
