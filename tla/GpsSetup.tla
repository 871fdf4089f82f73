------------------------------- MODULE GpsSetup -------------------------------
(***************************************************************************)
(* What the GPS service computes when it starts and from its messages: the *)
(* configuration files (utils/loc_cfg.cpp), the kind of device             *)
(* (utils/loc_target.cpp, loc.cpp, core/ContextBase.cpp), the list of the  *)
(* adapters that share the modem (core/LocApiBase.cpp) and the addresses   *)
(* of network-initiated requests.  Each is an operator, checked against a  *)
(* plain statement of its purpose over bounded inputs.                     *)
(***************************************************************************)
EXTENDS Integers, Sequences, FiniteSets, SequencesExt

(***************************************************************************)
(* Configuration files.  A table is a sequence of [name, type] with a name *)
(* at most once; a line is [name, text, hex]: text is what follows the     *)
(* "=", a number that was written in hexadecimal or in decimal.  A line    *)
(* without "=" has no value and is the record with name "".                *)
(***************************************************************************)
\* The value a parameter of a type takes from a line: a number written in
\* hexadecimal leaves the floating-point value at zero.
loc_set_config_entry(entry, line) == IF entry.type = "f" /\ line.hex THEN 0 ELSE line.text

loc_fill_conf_item(conf, line, table) ==
  [name \in DOMAIN conf |->
     IF name = line.name
     THEN loc_set_config_entry(table[CHOOSE i \in DOMAIN table : table[i].name = name], line)
     ELSE conf[name]]

Filled(line, table) == Cardinality({i \in DOMAIN table : table[i].name = line.name})

\* Lines are read until as many of them as asked for have named a parameter.
RECURSIVE FillLines(_, _, _, _)
FillLines(conf, lines, table, num_params) ==
  IF lines = << >> \/ num_params = 0 THEN conf
  ELSE FillLines(loc_fill_conf_item(conf, Head(lines), table), Tail(lines), table,
                 num_params - Filled(Head(lines), table))

loc_read_conf_r(conf, lines, table) == FillLines(conf, lines, table, Len(table))
loc_update_conf(conf, lines, table) == FillLines(conf, lines, table, Len(table) - 1)

Table == <<[name |-> "a", type |-> "n"], [name |-> "b", type |-> "f"], [name |-> "c", type |-> "n"]>>
Names == {"", "a", "b", "c", "other"}
Lines(n) == UNION {[1..k -> [name : Names, text : {1, 2}, hex : {FALSE}]] : k \in 0..n}
Distinct(lines) ==
  \A i, j \in DOMAIN lines : lines[i].name = lines[j].name /\ i # j =>
    lines[i].name \notin {e.name : e \in ToSet(Table)}
Given(conf, lines) ==
  [name \in DOMAIN conf |->
     IF \E i \in DOMAIN lines : lines[i].name = name
     THEN lines[CHOOSE i \in DOMAIN lines : lines[i].name = name].text ELSE conf[name]]

\* A file in which no parameter is given twice sets exactly the parameters
\* it gives, whatever else stands in it; an update of the framework does so
\* as long as it leaves out at least one parameter of the table.
ConfigurationRead(n) ==
  LET conf == [name \in {"a", "b", "c"} |-> 0] IN
  \A lines \in Lines(n) : Distinct(lines) =>
    /\ loc_read_conf_r(conf, lines, Table) = Given(conf, lines)
    /\ (\E name \in DOMAIN conf : \A i \in DOMAIN lines : lines[i].name # name)
         => loc_update_conf(conf, lines, Table) = Given(conf, lines)

(***************************************************************************)
(* The kind of device.                                                     *)
(***************************************************************************)
QCA1530_DETECT_TIMEOUT == 15

\* is_qca1530 reads the property once a second while it says that the
\* detection is in progress; answers[i] is what the i-th reading gives.
is_qca1530(answers) ==
  \E i \in 1 .. QCA1530_DETECT_TIMEOUT :
    answers[i] = "yes" /\ \A j \in 1 .. i - 1 : answers[j] = "detect"

\* loc_get_target; on a development platform without /dev/mdm nothing is
\* assigned.
loc_get_target(qca, baseband, platform, soc, mdm) ==
  CASE qca -> "QCA1530"
    [] ~qca /\ baseband = "auto" -> "AUTO"
    [] ~qca /\ baseband = "apq" -> IF soc = "mpq8064" THEN "MPQ" ELSE "APQ_SA"
    [] ~qca /\ baseband \notin {"auto", "apq"} ->
         IF platform \in {"Liquid", "Surf", "MTP"} THEN (IF mdm THEN "MDM" ELSE "unassigned")
         ELSE IF soc \in {"msm8930_1", "msm8930_2"} THEN "MSM_NO_SSC"
         ELSE IF baseband = "msm" THEN "DEFAULT" ELSE "UNKNOWN"

GnssType(target) ==
  CASE target \in {"DEFAULT", "MSM_NO_SSC"} -> "MSM"
    [] target = "APQ_SA" -> "GSS"
    [] target = "MPQ" -> "NONE"
    [] OTHER -> target

\* get_gps_interface: the capabilities it leaves, {} with no interface.
get_gps_interface(target, capabilities) ==
  CASE GnssType(target) \in {"GSS", "AUTO", "QCA1530"} -> capabilities \ {"MSA", "MSB"}
    [] GnssType(target) = "NONE" -> {}
    [] OTHER -> capabilities

\* getCarrierCapabilities: what the carrier's SUPL_MODE allows of them.
getCarrierCapabilities(capabilities, supl_mode) == capabilities \ ({"MSA", "MSB"} \ supl_mode)

\* createLocApi: the library that speaks to the modem, the base class when
\* none can be loaded.
createLocApi(target, lbs, v02, rpc) ==
  IF target = "MPQ" THEN "base"
  ELSE IF lbs THEN "lbs"
  ELSE IF v02 # "missing" THEN (IF v02 = "loads" THEN "v02" ELSE "base")
  ELSE IF rpc = "loads" THEN "rpc" ELSE "base"

\* A device whose positioning runs outside its own modem never offers
\* assistance by the network, and only the MPQ has no interface at all.
TargetsServed ==
  \A found \in {1, 15, 16}, mdm \in BOOLEAN, baseband \in {"auto", "apq", "msm", "csfb"},
     platform \in {"MTP", "QRD"}, soc \in {"mpq8064", "msm8930_1", "207"},
     supl_mode \in SUBSET {"MSA", "MSB"} :
    LET qca == is_qca1530([i \in 1 .. 16 |-> IF i < found THEN "detect" ELSE "yes"])
        target == loc_get_target(qca, baseband, platform, soc, mdm)
        offered == getCarrierCapabilities(get_gps_interface(target, {"MSA", "MSB", "NI"}), supl_mode) IN
    /\ offered = {} <=> target = "MPQ"
    /\ offered \cap {"MSA", "MSB"} # {} => ~qca /\ baseband \notin {"auto", "apq"}
    /\ createLocApi(target, FALSE, "loads", "loads") = (IF offered = {} THEN "base" ELSE "v02")

(***************************************************************************)
(* The adapters.  mLocAdapters is a sequence: the entries before the first *)
(* NULL.                                                                   *)
(***************************************************************************)
addAdapter(adapters, a, MAX_ADAPTERS) ==
  IF a \in ToSet(adapters) \/ Len(adapters) = MAX_ADAPTERS THEN adapters ELSE Append(adapters, a)

\* The last adapter takes the place of the one that is removed.
removeAdapter(adapters, a) ==
  IF a \notin ToSet(adapters) THEN adapters
  ELSE LET j == CHOOSE i \in DOMAIN adapters : adapters[i] = a IN
       Front([adapters EXCEPT ![j] = Last(adapters)])

RECURSIVE Adapted(_, _)
Adapted(adapters, calls) ==
  IF calls = << >> THEN adapters
  ELSE Adapted(IF Head(calls)[1] = "add" THEN addAdapter(adapters, Head(calls)[2], 3)
               ELSE removeAdapter(adapters, Head(calls)[2]), Tail(calls))

\* However adapters come and go, the list has no adapter twice, and with no
\* more of them than fit has every one that was added and not removed.
AdaptersKept(n) ==
  \A calls \in UNION {[1..k -> ({"add", "remove"} \X (1..3))] : k \in 0..n} :
    LET list == Adapted(<< >>, calls) IN
    /\ Cardinality(ToSet(list)) = Len(list)
    /\ ToSet(list) = {a \in 1..3 : \E i \in DOMAIN calls :
                        /\ calls[i] = <<"add", a>>
                        /\ \A j \in i + 1..Len(calls) : calls[j] # <<"remove", a>>}

(***************************************************************************)
(* decodeAddress: the digits of an address packed two to a byte, after the *)
(* prefix 0x91; a half byte above nine is filling.                         *)
(***************************************************************************)
decodeAddress(data, string_size) ==
  IF data = << >> \/ data[1] # 145 THEN << >>
  ELSE LET halves == FlattenSeq([i \in 1..Len(data) - 1 |-> <<data[i + 1] % 16, data[i + 1] \div 16>>])
           digits == SelectSeq(halves, LAMBDA h : h <= 9) IN
       SubSeq(digits, 1, IF Len(digits) < string_size THEN Len(digits) ELSE string_size - 1)

\* A number packed with its filling is decoded to its digits, cut to what
\* fits with the terminating zero.
AddressesDecoded(n) ==
  \A number \in UNION {[1..k -> {0, 7, 9}] : k \in 0..n} :
    LET padded == IF Len(number) % 2 = 0 THEN number ELSE Append(number, 15)
        packed == <<145>> \o [i \in 1..Len(padded) \div 2 |-> padded[2 * i - 1] + 16 * padded[2 * i]] IN
    /\ decodeAddress(packed, 20) = number
    /\ decodeAddress(packed, 3) = SubSeq(number, 1, IF Len(number) < 2 THEN Len(number) ELSE 2)

SetupCorrect(n) ==
  /\ ConfigurationRead(n) /\ TargetsServed /\ AdaptersKept(n + 1) /\ AddressesDecoded(n + 2)

==============================================================================
