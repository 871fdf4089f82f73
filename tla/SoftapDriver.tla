---------------------------- MODULE SoftapDriver -----------------------------
(***************************************************************************)
(* Loading, starting and stopping the soft access point (softap/sdk/qsap.c *)
(* and the commands of qsap_api.c that talk to the driver or to hostapd).  *)
(* A call is a sequence of steps on the kernel modules, hostapd and the    *)
(* SDIO polling script.  A step may fail, and between two steps hostapd or *)
(* the WiGig access point may die.                                         *)
(***************************************************************************)
EXTENDS Integers, Sequences, FiniteSets, SequencesExt

CONSTANTS HasSdioIf,          \* the build loads the SDIO interface module
          MaxDriverCalls, MaxDriverFaults    \* bounds

VARIABLES
  modules,     \* kernel modules loaded
  driverPolling,     \* the SDIO driverPolling script was last told to poll
  bss,         \* the access point is up: hostapd holds the interface in AP mode
  defaulted,   \* the configuration file was replaced by the default
  wigigSoftApPid, wigigChild,   \* the pid kept; the child: "none", "running" or "dead"
  bridges,     \* bridge interfaces and their flags
  doing,       \* the steps the call has left
  retry,       \* attempts to start hostapd left
  outcome,     \* the call's answer
  failedStart, failedRemoval,   \* what went wrong in the call
  driverCalls, driverFaults     \* counters for the bounds

softapDriverVars == <<modules, driverPolling, bss, defaulted, wigigSoftApPid, wigigChild, bridges, doing, retry,
                outcome, failedStart, failedRemoval, driverCalls, driverFaults>>
softapHosts == <<wigigSoftApPid, wigigChild, bridges>>

DriverIdle == doing = << >>
START_RETRIES == 4

DriverInit ==
  /\ modules = {} /\ driverPolling = FALSE /\ bss = FALSE /\ defaulted = FALSE
  /\ wigigSoftApPid = 0 /\ wigigChild = "none" /\ bridges = << >>
  /\ doing = << >> /\ retry = 0 /\ outcome = "none"
  /\ failedStart = FALSE /\ failedRemoval = FALSE
  /\ driverCalls = 0 /\ driverFaults = 0

(***************************************************************************)
(* The calls.                                                              *)
(***************************************************************************)
wifi_qsap_load_driver ==
  <<"pollOn">> \o (IF HasSdioIf THEN <<"insmod sdioif">> ELSE << >>) \o <<"insmod wlan", "pollOff">>
wifi_qsap_unload_driver ==
  <<"pollOn", "rmmod wlan">> \o (IF HasSdioIf THEN <<"rmmod sdioif">> ELSE << >>) \o <<"pollOff">>
wifi_qsap_stop_softap == <<"stop">>
wifi_qsap_start_softap == <<"prepare", "start">>
wifi_qsap_reload_softap ==
  wifi_qsap_stop_softap \o wifi_qsap_unload_driver \o wifi_qsap_load_driver \o wifi_qsap_start_softap

\* enable_softap and the kinds of reset_ap.
Calls ==
  [load |-> wifi_qsap_load_driver, unload |-> wifi_qsap_unload_driver,
   SAP_RESET_BSS |-> wifi_qsap_stop_softap \o wifi_qsap_start_softap,
   SAP_RESET_DRIVER_BSS |-> wifi_qsap_reload_softap,
   SAP_STOP_BSS |-> <<"stopbss">>,
   SAP_STOP_DRIVER_BSS |-> wifi_qsap_stop_softap \o wifi_qsap_unload_driver]

CallDriver(c) ==
  /\ DriverIdle /\ driverCalls < MaxDriverCalls
  /\ doing' = Calls[c] /\ retry' = START_RETRIES
  /\ outcome' = "success" /\ failedStart' = FALSE /\ failedRemoval' = FALSE
  /\ driverCalls' = driverCalls + 1
  /\ UNCHANGED <<modules, driverPolling, bss, defaulted, wigigSoftApPid, wigigChild, bridges, driverFaults>>

(***************************************************************************)
(* Steps.  ok = FALSE is a failure of the system underneath.               *)
(***************************************************************************)
Blame(ok) ==
  /\ ok \/ driverFaults < MaxDriverFaults
  /\ driverFaults' = IF ok THEN driverFaults ELSE driverFaults + 1

\* What is_softap_enabled finds; a mode that cannot be read gives -1, which
\* the callers that only test it take for "enabled".
is_softap_enabled(readable) == IF ~readable THEN "unknown" ELSE IF bss THEN "ENABLE" ELSE "DISABLE"

\* The call gives up; loading and unloading still stop the driverPolling.
GiveUp == doing' = (IF "pollOff" \in ToSet(doing) /\ driverPolling THEN <<"pollOff">> ELSE << >>)
                   /\ outcome' = "failure"
Goon == doing' = Tail(doing) /\ UNCHANGED outcome

Poll ==
  /\ ~DriverIdle /\ Head(doing) \in {"pollOn", "pollOff"}
  /\ driverPolling' = (Head(doing) = "pollOn")
  /\ Goon
  /\ UNCHANGED <<modules, bss, defaulted, softapHosts, retry, failedStart, failedRemoval, driverCalls, driverFaults>>

\* A module that is loaded already is left alone.  When the driver cannot be
\* loaded the interface module is taken out again, if that works.
insmod(m, ok) ==
  /\ ~DriverIdle /\ Head(doing) = "insmod " \o m
  /\ Blame(ok \/ m \in modules)
  /\ IF ok \/ m \in modules
     THEN modules' = modules \cup {m} /\ Goon
     ELSE modules' \in {modules, modules \ (IF m = "wlan" THEN {"sdioif"} ELSE {})} /\ GiveUp
  /\ UNCHANGED <<driverPolling, bss, defaulted, softapHosts, retry, failedStart, failedRemoval, driverCalls>>

\* rmmod tries ten times while the module is busy.  The driver's access
\* point goes with the driver.
rmmod(m, ok) ==
  /\ ~DriverIdle /\ Head(doing) = "rmmod " \o m
  /\ Blame(ok \/ m \notin modules)
  /\ IF ok \/ m \notin modules
     THEN /\ modules' = modules \ {m}
          /\ bss' = (bss /\ m # "wlan")
          /\ Goon /\ UNCHANGED failedRemoval
     ELSE GiveUp /\ failedRemoval' = TRUE /\ UNCHANGED <<modules, bss>>
  /\ UNCHANGED <<driverPolling, defaulted, softapHosts, retry, failedStart, driverCalls>>

\* The driver's answer to stopbss is not looked at.
wifi_qsap_stop_bss(readable, ok) ==
  /\ ~DriverIdle /\ Head(doing) \in {"stop", "stopbss"}
  /\ Blame(readable /\ ok)
  /\ LET mode == is_softap_enabled(readable) IN
     CASE Head(doing) = "stop" /\ mode = "DISABLE" -> Goon /\ UNCHANGED bss
       [] mode = "ENABLE" /\ ok -> bss' = FALSE /\ Goon
       [] OTHER -> GiveUp /\ UNCHANGED bss
  /\ UNCHANGED <<modules, driverPolling, defaulted, softapHosts, retry, failedStart, failedRemoval, driverCalls>>

\* Files, the leftover control socket and the name of the .ini file.
Prepare ==
  /\ ~DriverIdle /\ Head(doing) = "prepare"
  /\ Goon
  /\ UNCHANGED <<modules, driverPolling, bss, defaulted, softapHosts, retry, failedStart, failedRemoval,
                 driverCalls, driverFaults>>

\* Mutant of TryStart: the driver stays loaded after the last round.
TryStart_NoUnload(readable, ok) ==
  /\ ~DriverIdle /\ Head(doing) = "start" /\ Blame(readable /\ ok)
  /\ retry' = retry - 1
  /\ defaulted' = (defaulted \/ retry = 2)
  /\ bss' = (bss \/ (ok /\ "wlan" \in modules))
  /\ IF bss' \/ ~readable THEN Goon /\ UNCHANGED failedStart
     ELSE IF retry > 1 THEN UNCHANGED <<doing, outcome, failedStart>>
     ELSE doing' = << >> /\ outcome' = "failure" /\ failedStart' = TRUE
  /\ UNCHANGED <<modules, driverPolling, softapHosts, failedRemoval, driverCalls>>

\* One round of the loop: on the third the default configuration is copied
\* in; hostapd is started and the mode looked at.  After the last round the
\* caller unloads the driver.
TryStart(readable, ok) ==
  /\ ~DriverIdle /\ Head(doing) = "start" /\ Blame(readable /\ ok)
  /\ retry' = retry - 1
  /\ defaulted' = (defaulted \/ retry = 2)
  /\ bss' = (bss \/ (ok /\ "wlan" \in modules))
  /\ IF bss' \/ ~readable THEN Goon /\ UNCHANGED failedStart
     ELSE IF retry > 1 THEN UNCHANGED <<doing, outcome, failedStart>>
     ELSE doing' = wifi_qsap_unload_driver /\ outcome' = "failure" /\ failedStart' = TRUE
  /\ UNCHANGED <<modules, driverPolling, softapHosts, failedRemoval, driverCalls>>

\* hostapd dies: the interface leaves AP mode.
HostapdDies ==
  /\ bss /\ Blame(FALSE)
  /\ bss' = FALSE
  /\ UNCHANGED <<modules, driverPolling, defaulted, softapHosts, doing, retry, outcome, failedStart,
                 failedRemoval, driverCalls>>

(***************************************************************************)
(* The WiGig access point is a child process of its own.                   *)
(***************************************************************************)
wigigElse == <<modules, driverPolling, bss, defaulted, bridges, doing, retry, failedStart, failedRemoval>>

\* One that died by itself keeps the pid, and the next start is refused
\* until a stop has waited for it.
wifi_qsap_start_wigig_softap(forked) ==
  /\ DriverIdle /\ driverCalls < MaxDriverCalls /\ driverCalls' = driverCalls + 1
  /\ Blame(forked \/ wigigSoftApPid # 0)
  /\ IF wigigSoftApPid # 0 \/ ~forked
     THEN outcome' = "failure" /\ UNCHANGED <<wigigSoftApPid, wigigChild>>
     ELSE outcome' = "success" /\ wigigSoftApPid' = 1 /\ wigigChild' = "running"
  /\ UNCHANGED wigigElse

wifi_qsap_stop_wigig_softap ==
  /\ DriverIdle /\ driverCalls < MaxDriverCalls /\ driverCalls' = driverCalls + 1
  /\ outcome' = "success"
  /\ wigigSoftApPid' = 0
  /\ wigigChild' = IF wigigSoftApPid # 0 THEN "none" ELSE wigigChild
  /\ UNCHANGED <<wigigElse, driverFaults>>

WigigDies ==
  /\ wigigChild = "running" /\ Blame(FALSE)
  /\ wigigChild' = "dead"
  /\ UNCHANGED <<wigigElse, wigigSoftApPid, outcome, driverCalls>>

(***************************************************************************)
(* Bridges: created, removed, and their UP flag set or cleared.            *)
(***************************************************************************)
Bridge == "br0"
linux_set_iface_flags(flag) == IF Bridge \in DOMAIN bridges THEN [b \in {Bridge} |-> flag] ELSE bridges

qsap_control_bridge(order, ok) ==
  /\ DriverIdle /\ driverCalls < MaxDriverCalls /\ driverCalls' = driverCalls + 1
  /\ LET there == Bridge \in DOMAIN bridges
         works == ok /\ (there <=> order # "create") IN
     /\ Blame(ok \/ ~(there <=> order # "create"))
     /\ bridges' = CASE ~works -> bridges
                     [] order = "create" -> [b \in {Bridge} |-> "down"]
                     [] order = "remove" -> << >>
                     [] OTHER -> linux_set_iface_flags(order)
     /\ outcome' = IF works THEN "success" ELSE "failure"
  /\ UNCHANGED <<modules, driverPolling, bss, defaulted, wigigSoftApPid, wigigChild, doing, retry,
                 failedStart, failedRemoval>>

(***************************************************************************)
(* Questions to the driver: each needs the access point up (all but the    *)
(* range of channels, which is set on the station's interface otherwise),  *)
(* the name of the interface, a socket and an answer of the driver.        *)
(***************************************************************************)
Troubles == {"none", "interface", "socket", "memory", "arguments", "ioctl"}
Answered(mode, trouble) == IF mode = "ENABLE" /\ trouble = "none" THEN "success" ELSE "failure"

qsap_get_operating_channel(mode, trouble) == Answered(mode, trouble)
qsap_get_sap_auto_channel_selection(mode, trouble) == Answered(mode, trouble)
qsap_get_associated_sta_mac(mode, trouble) == Answered(mode, trouble)
qsap_read_ap_stats(mode, trouble) ==
  IF mode # "ENABLE" THEN "not started" ELSE Answered(mode, trouble)
qsap_disassociate_sta(mode, trouble) == Answered(mode, trouble)
qsap_set_channel_range(trouble) == IF trouble = "none" THEN "success" ELSE "failure"

\* What hostapd sends back to a command: messages of its own ("<"), of which
\* the third is taken for the answer, then "OK" or "FAIL"; silence for two
\* seconds ends the wait, with the 0 of select as the result: success.
qsap_send_cmd_to_hostapd(replies) ==
  LET own == Cardinality({i \in DOMAIN replies : \A j \in 1 .. i : replies[j] = "<"})
  IN IF own < 3 /\ own < Len(replies) /\ replies[own + 1] = "FAIL" THEN "failure" ELSE "success"

\* config_methods: 0 is the push button, 1 a PIN that must come along.
qsap_config_wps_method(method, pin, replies) ==
  IF method = "PBC" \/ (method = "PIN" /\ pin = "long enough")
  THEN qsap_send_cmd_to_hostapd(replies) ELSE "invalid parameter"

AskDriver(readable, trouble) ==
  /\ DriverIdle /\ driverCalls < MaxDriverCalls /\ driverCalls' = driverCalls + 1
  /\ Blame(readable /\ trouble = "none")
  /\ LET mode == is_softap_enabled(readable) IN
     outcome' \in {qsap_get_operating_channel(mode, trouble),
                   qsap_get_sap_auto_channel_selection(mode, trouble),
                   qsap_get_associated_sta_mac(mode, trouble), qsap_read_ap_stats(mode, trouble),
                   qsap_disassociate_sta(mode, trouble), qsap_set_channel_range(trouble)}
  /\ UNCHANGED <<modules, driverPolling, bss, defaulted, softapHosts, doing, retry, failedStart, failedRemoval>>

AskHostapd(method, pin, replies) ==
  /\ DriverIdle /\ driverCalls < MaxDriverCalls /\ driverCalls' = driverCalls + 1
  /\ outcome' = qsap_config_wps_method(method, pin, replies)
  /\ UNCHANGED <<modules, driverPolling, bss, defaulted, softapHosts, doing, retry, failedStart, failedRemoval,
                 driverFaults>>

SoftapStep ==
  \/ Poll \/ Prepare
  \/ \E ok \in BOOLEAN, m \in {"sdioif", "wlan"} : insmod(m, ok) \/ rmmod(m, ok)
  \/ \E readable, ok \in BOOLEAN : wifi_qsap_stop_bss(readable, ok) \/ TryStart(readable, ok)

DriverNext ==
  \/ \E c \in DOMAIN Calls : CallDriver(c)
  \/ SoftapStep
  \/ HostapdDies \/ WigigDies
  \/ \E forked \in BOOLEAN : wifi_qsap_start_wigig_softap(forked)
  \/ wifi_qsap_stop_wigig_softap
  \/ \E order \in {"create", "remove", "up", "down"}, ok \in BOOLEAN : qsap_control_bridge(order, ok)
  \/ \E readable \in BOOLEAN, trouble \in Troubles : AskDriver(readable, trouble)
  \/ \E method \in {"PBC", "PIN", "other"}, pin \in {"none", "short", "long enough"},
        replies \in BoundedSeq({"<", "OK", "FAIL"}, 2) : AskHostapd(method, pin, replies)

------------------------------------------------------------------------------
\* Whenever no call is in progress, whatever steps of the last one failed
\* and whoever died meanwhile: the SDIO polling script is off, the driver is not
\* there without the interface module under it, a start that failed has
\* taken the driver out again (unless the kernel would not let it go), an
\* access point is up only with a driver, and the pid kept is that of a
\* child not yet waited for.
DriverSettled ==
  DriverIdle =>
    /\ ~driverPolling
    /\ HasSdioIf /\ "wlan" \in modules => "sdioif" \in modules
    /\ failedStart /\ ~failedRemoval => "wlan" \notin modules
    /\ bss => "wlan" \in modules
    /\ (wigigSoftApPid # 0) <=> (wigigChild # "none")

==============================================================================
