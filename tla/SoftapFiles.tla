----------------------------- MODULE SoftapFiles -----------------------------
(***************************************************************************)
(* The configuration files of the soft access point and the functions that *)
(* read and edit them (softap/sdk/qsap_api.c).  A file is the sequence of  *)
(* its parameter lines; a line is [name, value, on], on = FALSE when it is *)
(* commented out.  The driver's .ini file ends its parameters with END.    *)
(* NoFile is a file that is missing or empty.                              *)
(***************************************************************************)
EXTENDS Integers, Sequences, FiniteSets, FiniteSetsExt, SequencesExt, Functions

CONSTANTS MAX_ALLOWED_MAC      \* lines an allow or deny list may hold

NoFile == << >>
Line(name, value, on) == [name |-> name, value |-> value, on |-> on]
EndLine == Line("END", "", TRUE)

WepKeys == <<"wep_key0", "wep_key1", "wep_key2", "wep_key3">>
WpsTexts == <<"uuid", "device_name", "manufacturer", "model_name", "model_number",
              "serial_number", "device_type", "os_version", "friendly_name",
              "manufacturer_url", "model_description", "model_url", "upc">>

\* The second column of cmd_list: what a get answers when no line is there.
CommandDefault ==
  [ssid |-> "QualcommSoftAP", ignore_broadcast_ssid |-> "0", channel |-> "1",
   beacon_int |-> "100", dtim_period |-> "2", hw_mode |-> "n", auth_algs |-> "3",
   macaddr_acl |-> "0", wmm_enabled |-> "0", wps_state |-> "0", ieee80211n |-> "1",
   max_num_sta |-> "8", wowlan_triggers |-> "any"]

\* The same of qsap_str, whose names are those of the .ini file.
IniDefault ==
  [gAPMacAddr |-> "00deadbeef04", gEnableApProt |-> "1", gFixedRate |-> "0",
   gTxPowerCap |-> "27", gAPAutoShutOff |-> "0", gEnablePhyAgcListenMode |-> "128"]

Default(name) ==
  IF name \in DOMAIN CommandDefault THEN CommandDefault[name]
  ELSE IF name \in DOMAIN IniDefault THEN IniDefault[name] ELSE "none"

LinesOf(file, name) == {i \in DOMAIN file : file[i].name = name}

\* The value a read finds, "none" when the feature is not enabled.  A
\* commented line counts only when commented is TRUE (GET_COMMENTED_VALUE).
qsap_read_cfg(file, name, commented) ==
  LET hits == {i \in LinesOf(file, name) : file[i].on \/ commented} IN
  IF file = NoFile THEN "unavailable"
  ELSE IF hits # {} THEN file[Min(hits)].value ELSE Default(name)

qsap_get_config_value(file, name) == qsap_read_cfg(file, name, FALSE)

\* The first line of the name, commented or not, becomes the new enabled
\* line; without one it is added at the end (of the part before END).
qsap_write_cfg(file, name, value, ini) ==
  LET ends == {i \in LinesOf(file, "END") : ini}
      last == IF ends = {} THEN Len(file) ELSE Min(ends) - 1
      body == SubSeq(file, 1, last)
      hits == LinesOf(body, name)
      edited == IF hits = {} THEN Append(body, Line(name, value, TRUE))
                ELSE [body EXCEPT ![Min(hits)] = Line(name, value, TRUE)]
  IN IF ini THEN edited \o <<EndLine>> \o SubSeq(file, last + 2, Len(file)) ELSE edited

\* Every line of the name is commented out or in.
qsap_change_cfg(file, name, status) ==
  [i \in DOMAIN file |->
     IF file[i].name = name THEN [file[i] EXCEPT !.on = status] ELSE file[i]]

(***************************************************************************)
(* The security mode is not a line of its own: it is read from whether the *)
(* WEP default key and the wpa line are enabled, and from the wpa value.   *)
(***************************************************************************)
SEC_MODES == {"NONE", "WEP", "WPA", "WPA2", "WPA_WPA2"}
WpaMode(value) == CASE value = "1" -> "WPA" [] value = "2" -> "WPA2"
                    [] value = "3" -> "WPA_WPA2" [] OTHER -> "INVALID"
WpaValue(mode) == CASE mode = "WPA" -> "1" [] mode = "WPA2" -> "2" [] mode = "WPA_WPA2" -> "3"

qsap_read_security_mode(file) ==
  LET wep == qsap_read_cfg(file, "wep_default_key", FALSE)
      wpa == qsap_read_cfg(file, "wpa", FALSE)
  IN CASE wep = "none" /\ wpa = "none" -> "NONE"
       [] wep = "none" /\ wpa # "none" -> WpaMode(wpa)
       [] wep # "none" /\ wpa = "none" -> "WEP"
       [] OTHER -> "INVALID"

(***************************************************************************)
(* The allow and deny lists: files of one address a line.                  *)
(***************************************************************************)
\* The addresses of value are appended, the invalid ones skipped, until the
\* list is full; a full list is refused.  Nothing looks for duplicates.
qsap_add_mac_to_file(list, value) ==
  LET valid == SelectSeq(value, LAMBDA mac : mac # "invalid")
      room  == MAX_ALLOWED_MAC - Len(list)
  IN IF room <= 0 THEN [list |-> list, answer |-> "failure"]
     ELSE [list |-> list \o SubSeq(valid, 1, Min({room, Len(valid)})), answer |-> "success"]

qsap_remove_from_file(list, value) ==
  [list |-> SelectSeq(list, LAMBDA mac : mac \notin ToSet(value)), answer |-> "success"]

qsap_update_mac_list(command, list, value) ==
  IF command \in {"add_to_allow_list", "add_to_deny_list"}
  THEN qsap_add_mac_to_file(list, value) ELSE qsap_remove_from_file(list, value)

\* What a get of the list shows: the valid addresses, at most the maximum.
qsap_get_mac_list(list) ==
  LET valid == SelectSeq(list, LAMBDA mac : mac # "invalid")
  IN SubSeq(valid, 1, Min({MAX_ALLOWED_MAC, Len(valid)}))

(***************************************************************************)
(* Keys and addresses.                                                     *)
(***************************************************************************)
\* Characters: 0 .. 15 hexadecimal digits, then what the functions tell apart.
Colon == 16
Quote == 17
Text  == 18
Space == 19
isxdigit(c) == c < 16

\* A key of 5, 13 or 16 characters is text and is stored in quotes, one of
\* 10, 26 or 32 must be hexadecimal; quotes around the key are not counted.
Unquoted(key) == IF Head(key) = Quote /\ Last(key) = Quote
                 THEN SubSeq(key, 2, Len(key) - 1) ELSE key
WepText(key) == Len(Unquoted(key)) \in {5, 13, 16}
is_valid_wep_key(key) ==
  \/ WepText(key)
  \/ Len(Unquoted(key)) \in {10, 26, 32} /\ \A c \in ToSet(Unquoted(key)) : isxdigit(c)
StoredWepKey(key) == IF WepText(key) THEN <<Quote>> \o Unquoted(key) \o <<Quote>> ELSE Unquoted(key)

\* A stored key that begins with a quote is shown without its ends.
qsap_read_wep_key(stored) == IF Head(stored) = Quote THEN SubSeq(stored, 2, Len(stored) - 1) ELSE stored

\* Six pairs of digits with five colons between them; what follows is not
\* looked at.
MAC_ADDR_LEN == 17
isValid_MAC_address(mac) ==
  /\ Len(mac) >= MAC_ADDR_LEN
  /\ \A i \in 1 .. MAC_ADDR_LEN : IF i % 3 = 0 THEN mac[i] = Colon ELSE isxdigit(mac[i])

\* The value of a string of hexadecimal digits.
atoh(digits) ==
  FoldFunctionOnSet(+, 0, [i \in DOMAIN digits |-> digits[i] * 16 ^ (Len(digits) - i)], DOMAIN digits)

\* A pair of digits at a time, the colon after it skipped.
qsap_get_mac_in_bytes(mac) ==
  [k \in 1 .. (Len(mac) + 1) \div 3 |-> atoh(<<mac[3 * k - 2], mac[3 * k - 1]>>)]

\* The bytes of the associated stations printed, a space after every sixth;
\* the last separator is cut off.
qsap_mac_to_macstr(bytes) ==
  Front(FlattenSeq([k \in DOMAIN bytes |->
    <<bytes[k] \div 16, bytes[k] % 16, IF k % 6 = 0 THEN Space ELSE Colon>>]))

\* The address in the .ini file has no colons: they are put after each pair.
qsap_read_mac_address(digits) ==
  Front(FlattenSeq([k \in 1 .. 6 |-> <<digits[2 * k - 1], digits[2 * k], Colon>>]))

------------------------------------------------------------------------------
\* Lists stay within the bound the comment of qsap_add_mac_to_file names,
\* what was added is shown, and what was removed is not, whatever the list.
MacListsCorrect(macs, max) ==
  \A list \in BoundedSeq(macs, max), value \in BoundedSeq(macs, 2) :
    LET added   == qsap_update_mac_list("add_to_allow_list", list, value)
        removed == qsap_update_mac_list("remove_from_allow_list", added.list, value) IN
    Len(list) <= MAX_ALLOWED_MAC =>
      /\ Len(added.list) <= MAX_ALLOWED_MAC
      /\ added.answer = "success" /\ value # << >> /\ value[1] # "invalid" =>
           value[1] \in ToSet(qsap_get_mac_list(added.list))
      /\ ToSet(qsap_get_mac_list(removed.list)) = ToSet(qsap_get_mac_list(list)) \ ToSet(value)
           \/ added.answer = "failure"

\* A key shown is the key that was set, quotes apart; a station's address
\* survives being printed and read back for disassoc_sta; a printed address
\* and one taken from the .ini file are valid.
KeysCorrect ==
  /\ \A n \in 1 .. 33, c \in {10, Text}, quoted \in BOOLEAN :
       LET key == [i \in 1 .. n |-> c]
           given == IF quoted THEN <<Quote>> \o key \o <<Quote>> ELSE key IN
       /\ is_valid_wep_key(given) <=> (n \in {5, 13, 16} \/ (n \in {10, 26, 32} /\ c = 10))
       /\ is_valid_wep_key(given) => qsap_read_wep_key(StoredWepKey(given)) = key
  /\ \A x, y \in {0, 9, 16, 255} :
       LET bytes == <<x, y, 1, y, x, 171>>
           shown == qsap_mac_to_macstr(bytes) IN
       /\ isValid_MAC_address(shown)
       /\ qsap_get_mac_in_bytes(shown) = bytes
       /\ isValid_MAC_address(qsap_read_mac_address(SelectSeq(shown, isxdigit)))

==============================================================================
