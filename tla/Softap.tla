------------------------------- MODULE Softap --------------------------------
(***************************************************************************)
(* The set and get commands of the soft access point's SDK                 *)
(* (softap/sdk/qsap_api.c).  A set command is carried out as a sequence of *)
(* edits of the configuration files; every edit writes a copy, renames it  *)
(* over the file and then changes the mode of the file.  Any of the three  *)
(* may fail, and the process may die between two edits.  What a failure    *)
(* leads to depends on the edit:                                           *)
(*    "must"     the command stops and answers failure,                    *)
(*    "answer"   the edit's own message becomes the answer,                *)
(*    "ignored"  the code does not look.                                   *)
(* A change of mode that fails deletes the file, and the message of        *)
(* qsap_write_cfg still says success.                                      *)
(***************************************************************************)
EXTENDS SoftapFiles

CONSTANTS
  ConfFiles,      \* "hostapd" and those of "dual2g", "dual5g", "owe" in use
  DefaultConf,    \* the lines of the default configuration file
  DefaultIni,     \* the lines of the default driver .ini
  Asked,          \* the set commands tried, <<name, value>>
  Scripts,        \* the arguments of qsapsetSoftap tried
  MaxSets, MaxFileFaults   \* bounds on commands and on faults

VARIABLES
  files,       \* the configuration files and the .ini
  pconffile,   \* the configuration file the last set command named
  command,     \* the set command in progress or answered last
  editsLeft,        \* the edits it has left
  answer,      \* its answer so far
  before,      \* what the file said before it
  overlooked,  \* a failure of it went unnoticed
  script,      \* the commands qsapsetSoftap has left
  sets, fileFaults   \* counters for the bounds

softapVars == <<files, pconffile, command, editsLeft, answer, before, overlooked, script, sets, fileFaults>>

NoCommand == <<"none", "none">>
conf == files[pconffile]
SoftapIdle == editsLeft = << >>

(***************************************************************************)
(* Edits.                                                                  *)
(***************************************************************************)
Edit(op, name, value, on) == [op |-> op, name |-> name, value |-> value, on |-> on]
Write(name, value, on) == Edit("write", name, value, on)
WriteIni(name, value)  == Edit("writeIni", name, value, "answer")
Change(name, status)   == Edit(IF status THEN "enable" ELSE "disable", name, "", "must")
Quietly(edit) == [edit EXCEPT !.on = "ignored"]
If(cond, edits) == IF cond THEN edits ELSE << >>

\* Mutant of SecurityEdits: a WPA mode leaves the WEP line alone.
SecurityEdits_WepStays(mode) ==
  LET wpa == mode \in {"WPA", "WPA2", "WPA_WPA2"} IN
  If(wpa, <<Write("wpa", WpaValue(mode), "ignored")>>)
  \o If(~wpa, <<Change("wep_default_key", mode = "WEP")>>)
  \o <<Change("wpa_passphrase", wpa), Change("wpa", wpa)>>

\* The wpa value first, then every line the modes tell apart.
SecurityEdits(mode) ==
  LET wep == mode = "WEP"
      wpa == mode \in {"WPA", "WPA2", "WPA_WPA2"}
      rsn == mode \in {"WPA2", "WPA_WPA2"} IN
  If(wpa, <<Write("wpa", WpaValue(mode), "ignored")>>)
  \o <<Change("wep_default_key", wep)>>
  \o [i \in DOMAIN WepKeys |-> Change(WepKeys[i], wep)]
  \o <<Change("wpa_passphrase", wpa)>>
  \o If(wpa, <<Change("wpa_pairwise", mode # "WPA2")>>)
  \o <<Change("rsn_pairwise", rsn), Change("wpa", wpa)>>

\* macaddr_acl: the accept file counts for modes 1 and 2, the deny file for
\* 0 and 2.
AclEdits(value) ==
  <<Change("accept_mac_file", value # "0"), Change("deny_mac_file", value # "1"),
    Write("macaddr_acl", value, "answer")>>

\* The hardware mode is made to fit the channel before the channel is
\* written; channel 0 (automatic) fits any.
Low(channel) == channel \notin {"0", "36"}
ChannelEdits(file, channel) ==
  LET mode == qsap_get_config_value(file, "hw_mode") IN
  If(mode = "a" /\ Low(channel), <<Write("hw_mode", "g", "must")>>)
  \o If(mode # "b" /\ channel = "14", <<Write("hw_mode", "b", "must")>>)
  \o If(channel = "36", <<Write("hw_mode", "a", "must")>>)
  \o <<Write("channel", channel, "must")>>

\* hw_mode: the rates, the HT requirement and 802.11n follow the mode; the
\* modes that hostapd does not know are written as g.
StoredMode(mode) == IF mode \in {"g-only", "n-only", "n"} THEN "g" ELSE mode
ModeEdits(mode) ==
  <<Quietly(Change("basic_rates", FALSE)), Quietly(Change("require_ht", FALSE)),
    Write("ieee80211n", "0", "ignored")>>
  \o If(mode = "g-only", <<Quietly(Change("basic_rates", TRUE))>>)
  \o If(mode = "n-only", <<Quietly(Change("require_ht", TRUE))>>)
  \o If(mode # "g-only", <<Write("ieee80211n", IF mode = "b" THEN "0" ELSE "1", "ignored")>>)
  \o <<Write("hw_mode", StoredMode(mode), "must")>>

\* WPS on or off: the state (2 stands for on), the EAP server, the texts.
qsap_update_wps_config(value) ==
  <<Write("wps_state", IF value = "1" THEN "2" ELSE "0", "ignored"),
    Change("wps_state", value = "1"), Write("eap_server", "1", "answer")>>
  \o [i \in DOMAIN WpsTexts |-> Change(WpsTexts[i], value = "1")]

\* A WEP key or key number is stored enabled, and commented out again when
\* the file then does not read as WEP.
WepEdits(name, value) ==
  <<Write(name, value, "answer"), Edit("disableUnlessWep", name, "", "must")>>
DefaultKeyEdits(value) == WepEdits("wep_default_key", value)

\* TKIP excludes 802.11n.
PairwiseEdits(name, value) ==
  <<Change("ieee80211n", value # "TKIP"), Write(name, value, "answer")>>

\* One of ssid and ssid2 is in use.
NameEdits(name, value) ==
  <<Quietly(Change(IF name = "ssid" THEN "ssid2" ELSE "ssid", FALSE)), Write(name, value, "answer")>>

(***************************************************************************)
(* The parameters kept in the .ini under a name of its own; the time until *)
(* the access point shuts itself off is set in minutes and kept in         *)
(* seconds (the times tried).                                              *)
(***************************************************************************)
IniNames ==
  [protection_flag |-> "gEnableApProt", tx_power |-> "gTxPowerCap", data_rate |-> "gFixedRate",
   auto_shut_off_time |-> "gAPAutoShutOff", energy_detect_threshold |-> "gEnablePhyAgcListenMode"]
Seconds(minutes) == CASE minutes = "10" -> "600" [] minutes = "1" -> "60" [] OTHER -> "0"
qsap_read_autoshutoff(seconds) == CASE seconds = "600" -> "10" [] seconds = "60" -> "1" [] OTHER -> "0"

IniEdits(name, value) ==
  <<WriteIni(IniNames[name], IF name = "auto_shut_off_time" THEN Seconds(value) ELSE value)>>

\* Rates above index 4 need more than 802.11b, above 12 more than g.
qsap_set_data_rate(file, rate) ==
  LET mode == qsap_get_config_value(file, "hw_mode")
      refused == \/ mode = "b" /\ rate \in {"12", "28"}
                 \/ mode \in {"g", "g-only"} /\ rate = "28"
  IN IF refused THEN <<Edit("refuse", "data_rate", "", "must")>> ELSE IniEdits("data_rate", rate)

(***************************************************************************)
(* The cases of qsap_handle_set_request.  "bad" stands for a value outside *)
(* the range or length the case allows; the other commands take any value. *)
(***************************************************************************)
Cased == {"security_mode", "macaddr_acl", "hw_mode", "wps_state", "wep_default_key", "wpa_pairwise",
          "rsn_pairwise", "ap_isolate", "data_rate", "ssid"} \cup ToSet(WepKeys) \cup DOMAIN IniNames
FormChecked == {"ignore_broadcast_ssid", "wpa_passphrase", "beacon_int", "dtim_period", "auth_algs"}
RangeChecked == {"wmm_enabled", "fragm_threshold", "ieee80211d", "rts_threshold", "wpa_group_rekey",
                 "country_code", "ieee80211h"}
Checked == Cased \cup FormChecked \cup RangeChecked \cup ToSet(WpsTexts)

\* Both files, one after the other, then the whole access point again.
ResetEdits ==
  <<Edit("reset", "conf", "", "must"), Edit("reset", "ini", "", "must"), Edit("reload", "", "", "must")>>

qsap_handle_set_request(file, name, value) ==
  CASE name \in Checked /\ value = "bad" -> <<Edit("refuse", name, "", "must")>>
    [] name = "security_mode" -> SecurityEdits(value)
    [] name = "macaddr_acl" -> AclEdits(value)
    [] name = "channel" -> ChannelEdits(file, value)
    [] name = "hw_mode" -> ModeEdits(value)
    [] name = "wps_state" -> qsap_update_wps_config(value)
    [] name \in ToSet(WepKeys) -> WepEdits(name, value)
    [] name = "wep_default_key" -> DefaultKeyEdits(value)
    [] name \in {"wpa_pairwise", "rsn_pairwise"} -> PairwiseEdits(name, value)
    [] name \in {"ssid", "ssid2"} -> NameEdits(name, value)
    [] name = "ap_isolate" -> <<Change("ap_isolate", value = "1")>>
    [] name = "data_rate" -> qsap_set_data_rate(file, value)
    [] name \in DOMAIN IniNames -> IniEdits(name, value)
    [] name = "commit" -> <<Edit("nothing", name, "", "must")>>
    [] name = "reset_to_default" -> ResetEdits
    [] OTHER -> <<Write(name, value, "answer")>>

\* qsap_get_from_config: what a get answers.
CommentedToo == ToSet(WepKeys) \cup {"wpa_pairwise", "rsn_pairwise", "wep_default_key",
                                     "wpa_passphrase", "wpa_group_rekey"}
qsap_read_wps_state(file) == IF qsap_get_config_value(file, "wps_state") = "2" THEN "1" ELSE "0"
qsap_get_from_config(name) ==
  CASE name = "security_mode" -> qsap_read_security_mode(conf)
    [] name = "wps_state" -> qsap_read_wps_state(conf)
    [] name = "auto_shut_off_time" -> qsap_read_autoshutoff(qsap_read_cfg(files["ini"], "gAPAutoShutOff", FALSE))
    [] name \in DOMAIN IniNames -> qsap_read_cfg(files["ini"], IniNames[name], FALSE)
    [] OTHER -> qsap_read_cfg(conf, name, name \in CommentedToo)

(***************************************************************************)
(* qsapsetSoftap: one call for the whole access point.  What the caller    *)
(* leaves out is not set, or set to a default; without a passphrase or a   *)
(* number of clients the command before is simply carried out once more.   *)
(***************************************************************************)
Security(arg) == CASE arg = "open" -> "NONE" [] arg = "wep" -> "WEP" [] arg = "wpa-psk" -> "WPA"
                   [] arg = "wpa2-psk" -> "WPA2" [] OTHER -> "NONE"
qsapsetSoftap(args) ==
  LET sec   == <<"security_mode", IF args.argc > 6 THEN Security(args.sec) ELSE "WEP">>
      key   == IF args.argc > 6 /\ Security(args.sec) \in {"WPA", "WPA2"}
               THEN <<"wpa_passphrase", IF args.argc > 7 THEN "key" ELSE "12345678">> ELSE sec
  IN <<<<"interface", IF args.argc > 2 THEN "softap0" ELSE "wlan0">>,
       <<IF args.file # "hostapd" /\ args.argc > 3 THEN "ssid2" ELSE "ssid",
         IF args.argc > 3 THEN "name" ELSE "SOFTAP_SSID">>>>
     \o If(args.argc > 4, <<<<"ignore_broadcast_ssid", "1">>>>)
     \o If(args.argc > 5, <<<<"channel", args.channel>>>>)
     \o <<sec, key, IF args.argc > 8 THEN <<"max_num_sta", "8">> ELSE key, <<"commit", "">>>>

(***************************************************************************)
(* Steps.                                                                  *)
(***************************************************************************)
Enabled(file, name) == \E i \in LinesOf(file, name) : file[i].on
Named(file) == Enabled(file, "ssid") # Enabled(file, "ssid2")
NotedOf(file) == [mode |-> qsap_read_security_mode(file), named |-> Named(file)]

SoftapInit ==
  /\ files = [f \in ConfFiles \cup {"ini"} |-> IF f = "ini" THEN DefaultIni ELSE NoFile]
  /\ pconffile = "hostapd"
  /\ command = NoCommand /\ editsLeft = << >> /\ answer = "none"
  /\ before = NotedOf(DefaultConf) /\ overlooked = FALSE /\ script = << >>
  /\ sets = 0 /\ fileFaults = 0

\* check_for_configuration_files: a missing or empty file is replaced by the
\* default.
Present(file) == IF file = NoFile THEN DefaultConf ELSE file

\* qsap_hostd_exec_cmd of a set command for the configuration file f.
BeginCommand(f, c) ==
  LET file == Present(files[f]) IN
  /\ pconffile' = f
  /\ files' = [files EXCEPT ![f] = file]
  /\ command' = c
  /\ editsLeft' = qsap_handle_set_request(file, c[1], c[2])
  /\ answer' = "none" /\ overlooked' = FALSE
  /\ before' = NotedOf(file)
  /\ UNCHANGED fileFaults

qsap_hostd_exec_cmd(f, c) ==
  /\ SoftapIdle /\ script = << >> /\ sets < MaxSets
  /\ BeginCommand(f, c)
  /\ sets' = sets + 1
  /\ UNCHANGED script

StartScript(args) ==
  /\ SoftapIdle /\ script = << >> /\ sets < MaxSets
  /\ BeginCommand(args.file, Head(qsapsetSoftap(args)))
  /\ script' = Tail(qsapsetSoftap(args))
  /\ sets' = sets + 1

\* Only the answer to the first command, interface, is not looked at.
ContinueScript ==
  /\ SoftapIdle /\ script # << >>
  /\ IF answer = "failure" /\ command[1] # "interface"
     THEN script' = << >> /\ UNCHANGED <<files, pconffile, command, editsLeft, answer, before, overlooked, fileFaults>>
     ELSE BeginCommand(pconffile, Head(script)) /\ script' = Tail(script)
  /\ UNCHANGED sets

FileOf(edit) == IF edit.op = "writeIni" \/ (edit.op = "reset" /\ edit.name = "ini") THEN "ini" ELSE pconffile

Apply(edit, file) ==
  CASE edit.op = "write" -> qsap_write_cfg(file, edit.name, edit.value, FALSE)
    [] edit.op = "writeIni" -> qsap_write_cfg(file, edit.name, edit.value, TRUE)
    [] edit.op = "enable" -> qsap_change_cfg(file, edit.name, TRUE)
    [] edit.op = "disable" -> qsap_change_cfg(file, edit.name, FALSE)
    [] edit.op = "disableUnlessWep" ->
         IF qsap_read_security_mode(file) = "WEP" THEN file ELSE qsap_change_cfg(file, edit.name, FALSE)
    [] edit.op = "reset" -> IF edit.name = "ini" THEN DefaultIni ELSE DefaultConf
    [] OTHER -> file

\* The ways an edit can go: a file that is not there cannot be opened, and
\* an edit without a file cannot fail (a refusal always does).
Ways(edit, file) ==
  CASE edit.op = "refuse" -> {"open"}
    [] edit.op = "nothing" -> {"ok"}
    [] edit.op = "reload" -> {"ok", "open"}
    [] edit.op = "reset" -> {"ok", "open", "rename"}
    [] edit.op = "disableUnlessWep" /\ qsap_read_security_mode(file) = "WEP" -> {"ok"}
    [] file = NoFile -> {"open"}
    [] OTHER -> {"ok", "open", "rename", "chmod"}

\* A failure beyond those the edit cannot avoid counts against the bound.
Fault(edit, file, way) == way # "ok" /\ "ok" \in Ways(edit, file)

EditFile(way) ==
  LET edit == Head(editsLeft)
      file == files[FileOf(edit)]
      stop == edit.on = "must" /\ way # "ok"
      rest == IF stop THEN << >> ELSE Tail(editsLeft)
      told == CASE stop -> "failure"
                [] edit.on = "answer" -> IF way \in {"open", "rename"} THEN "failure" ELSE "success"
                [] OTHER -> answer
  IN /\ ~SoftapIdle /\ way \in Ways(edit, file)
     /\ Fault(edit, file, way) => fileFaults < MaxFileFaults
     /\ fileFaults' = IF Fault(edit, file, way) THEN fileFaults + 1 ELSE fileFaults
     /\ files' = [files EXCEPT ![FileOf(edit)] =
                    CASE way = "ok" -> Apply(edit, @) [] way = "chmod" -> NoFile [] OTHER -> @]
     /\ editsLeft' = rest
     /\ answer' = IF rest = << >> /\ told = "none" THEN "success" ELSE told
     /\ overlooked' = (overlooked \/ (way # "ok" /\ edit.on # "must"))
     /\ UNCHANGED <<pconffile, command, before, script, sets>>

\* The process dies and is started again; a copy left behind is overwritten
\* by the next edit.
Die ==
  /\ ~SoftapIdle \/ script # << >>
  /\ fileFaults < MaxFileFaults
  /\ fileFaults' = fileFaults + 1
  /\ pconffile' = "hostapd"
  /\ command' = NoCommand /\ editsLeft' = << >> /\ answer' = "none" /\ script' = << >>
  /\ overlooked' = FALSE /\ before' = NotedOf(Present(files["hostapd"]))
  /\ UNCHANGED <<files, sets>>

SoftapNext ==
  \/ \E f \in ConfFiles, c \in Asked : qsap_hostd_exec_cmd(f, c)
  \/ \E args \in Scripts : StartScript(args)
  \/ ContinueScript
  \/ \E way \in {"ok", "open", "rename", "chmod"} : EditFile(way)
  \/ Die

------------------------------------------------------------------------------
\* The security mode a command leads to: the mode it sets; WEP when a default
\* key is set and no security was on (the key is enabled before the mode is
\* read); the wpa mode when both families were left enabled and the key is
\* commented out again; otherwise the mode there was.
ModeAfter ==
  CASE command[1] = "security_mode" -> command[2]
    [] command[1] = "reset_to_default" -> qsap_read_security_mode(DefaultConf)
    [] command[1] = "wep_default_key" /\ before.mode = "NONE" -> "WEP"
    [] command[1] = "wep_default_key" /\ before.mode = "INVALID" ->
         WpaMode(qsap_read_cfg(conf, "wpa", FALSE))
    [] OTHER -> before.mode

\* The commands a get shows as they were set (hw_mode as it is stored).
Shown(c) == IF c[1] = "hw_mode" THEN StoredMode(c[2]) ELSE c[2]
NotShown == {"channel", "ap_isolate", "commit", "reset_to_default", "ssid2", "interface", "none"}

\* When a set command answers success and no failure went unnoticed, a get
\* answers the value set, the file has the security mode the command should
\* lead to (only three commands may change it), and a file with one network
\* name in use still has one.  Each is the joint effect of several edits
\* that comment and uncomment lines, of the duplicates of a line, and of
\* what earlier commands, failures and restarts left in the file.
SetTakesEffect ==
  SoftapIdle /\ answer = "success" /\ ~overlooked =>
    /\ qsap_read_security_mode(conf) = ModeAfter
    /\ command[1] \notin NotShown => qsap_get_from_config(command[1]) = Shown(command)
    /\ before.named => Named(conf)

==============================================================================
