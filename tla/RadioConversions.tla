-------------------------- MODULE RadioConversions --------------------------
(***************************************************************************)
(* The conversions the response functions of libril/ril_service.cpp apply  *)
(* to the vendor's payloads, as operators, and the facts about them that   *)
(* the callers rely on.  A pointer is NULL or a sequence of one element;   *)
(* a string of a registration answer is the number or the name it denotes. *)
(***************************************************************************)
EXTENDS Integers, Sequences, FiniteSets

INT_MAX == 2147483647
NULL == << >>

CellTypes == {"GSM", "WCDMA", "CDMA", "LTE", "TD_SCDMA"}

\* The cell type of a radio technology, given as a string of an answer.
getCellInfoTypeRadioTechnology(ptr) ==
  LET rat == IF ptr = NULL THEN "NULL" ELSE ptr[1] IN
  CASE rat \in {"GPRS", "EDGE", "GSM"} -> "GSM"
    [] rat \in {"UMTS", "HSDPA", "HSUPA", "HSPA", "HSPAP"} -> "WCDMA"
    [] rat \in {"IS95A", "IS95B", "1xRTT", "EVDO_0", "EVDO_A", "EVDO_B", "EHRPD"} -> "CDMA"
    [] rat \in {"LTE", "LTE_CA"} -> "LTE"
    [] rat = "TD_SCDMA" -> "TD_SCDMA"
    [] OTHER -> "NONE"

\* The members of the identity of each type of cell.
IdentityFields ==
  [t \in CellTypes |->
     CASE t = "GSM"      -> {"mcc", "mnc", "lac", "cid", "arfcn", "bsic"}
       [] t = "WCDMA"    -> {"mcc", "mnc", "lac", "cid", "psc", "uarfcn"}
       [] t = "CDMA"     -> {"networkId", "systemId", "baseStationId", "longitude", "latitude"}
       [] t = "LTE"      -> {"mcc", "mnc", "ci", "pci", "tac", "earfcn"}
       [] t = "TD_SCDMA" -> {"mcc", "mnc", "lac", "cid", "cpid"}]

\* The identity as the client sees it: one vector per type of cell, all
\* empty but the vector of the cell's own type.
fillCellIdentityResponse(type, identity) ==
  [t \in CellTypes |-> IF t = type THEN <<identity>> ELSE << >>]

\* convertResponseStringEntryToInt and its hexadecimal twin; indices from 0.
convertResponseStringEntryToInt(response, index) ==
  IF Len(response) > index /\ response[index + 1] # NULL
  THEN response[index + 1][1] ELSE -1

\* Where each member stands in the answers of RILs before version 15.
VoiceEntries(type) ==
  CASE type \in {"GSM", "TD_SCDMA"} -> [lac |-> 1, cid |-> 2]
    [] type = "WCDMA" -> [lac |-> 1, cid |-> 2, psc |-> 14]
    [] type = "CDMA"  -> [baseStationId |-> 4, latitude |-> 5, longitude |-> 6,
                          systemId |-> 8, networkId |-> 9]
    [] type = "LTE"   -> [tac |-> 1, ci |-> 2]

DataEntries(type) ==
  CASE type \in {"GSM", "WCDMA", "TD_SCDMA"} -> [lac |-> 1, cid |-> 2]
    [] type = "LTE" -> [tac |-> 6, pci |-> 7, ci |-> 8]
    [] type = "CDMA" -> [none \in {} |-> 0]

IdentityFrom(type, entries, response) ==
  [field \in IdentityFields[type] |->
     IF field \in DOMAIN entries
     THEN convertResponseStringEntryToInt(response, entries[field]) ELSE -1]

fillCellIdentityFromVoiceRegStateResponseString(response) ==
  LET type == getCellInfoTypeRadioTechnology(response[4]) IN
  fillCellIdentityResponse(type, IF type = "NONE" THEN << >>
                                 ELSE IdentityFrom(type, VoiceEntries(type), response))

fillCellIdentityFromDataRegStateResponseString(response) ==
  LET type == getCellInfoTypeRadioTechnology(response[4]) IN
  fillCellIdentityResponse(type, IF type = "NONE" THEN << >>
                                 ELSE IdentityFrom(type, DataEntries(type), response))

\* Voice answers have 15 strings, data answers 6 or at least 11.
VoiceAccepted(numStrings) == numStrings = 15
DataAccepted(numStrings) == numStrings = 6 \/ numStrings >= 11

\* Every cell of a list is converted into a record of its own type.
convertRilCellInfoListToHal(cells) ==
  [i \in DOMAIN cells |-> fillCellIdentityResponse(cells[i].type, cells[i].identity)]

\* Hardware configurations carry a modem or a SIM, never both.
convertRilHardwareConfigListToHal(configs) ==
  [i \in DOMAIN configs |->
     [modem |-> IF configs[i] = "MODEM" THEN <<configs[i]>> ELSE << >>,
      sim   |-> IF configs[i] = "SIM" THEN <<configs[i]>> ELSE << >>]]

------------------------------------------------------------------------------
(***************************************************************************)
(* Signal strengths.  The conversion writes into the vendor's own buffer,  *)
(* so that a buffer may be converted more than once.  The two versions of  *)
(* the payload differ in the TD-SCDMA value, which the older one lacks.    *)
(***************************************************************************)
Remap(value, instead) == IF value = -1 THEN instead ELSE value

FixupLte(lte) ==
  [signalStrength |-> Remap(lte.signalStrength, 99),
   rsrp |-> IF lte.rsrp < -1 THEN -lte.rsrp ELSE Remap(lte.rsrp, INT_MAX),
   rsrq |-> Remap(lte.rsrq, INT_MAX),
   cqi  |-> Remap(lte.cqi, INT_MAX)]

convertRilSignalStrengthToHalV8(payload) ==
  [lte |-> FixupLte(payload.lte), rscp |-> INT_MAX]

convertRilSignalStrengthToHalV10(payload) ==
  [lte |-> FixupLte(payload.lte), rscp |-> payload.rscp]

\* The version is told by the size of the payload.
convertRilSignalStrengthToHal(payload, sizeV8) ==
  IF sizeV8 THEN convertRilSignalStrengthToHalV8(payload)
  ELSE convertRilSignalStrengthToHalV10(payload)

------------------------------------------------------------------------------
(***************************************************************************)
(* Data calls.  A list is an array of records of one of three versions and *)
(* its length in bytes is all that tells which; sizes on a 64-bit target.  *)
(***************************************************************************)
SizeOfDataCall == [v6 |-> 56, v9 |-> 64, v11 |-> 72]

convertRilDataCallListToHal(responseLen) ==
  LET fits(v) == responseLen % SizeOfDataCall[v] = 0
      v == CASE fits("v11") -> "v11"
             [] ~fits("v11") /\ fits("v9") -> "v9"
             [] OTHER -> "v6" IN
  [version |-> v, num |-> responseLen \div SizeOfDataCall[v]]

------------------------------------------------------------------------------
\* A character's value as a hexadecimal digit, given its code.
INVALID_HEX_CHAR == 16
hexCharToInt(c) ==
  CASE c \in 48..57 -> c - 48
    [] c \in 65..70 -> c - 65 + 10
    [] c \in 97..102 -> c - 97 + 10
    [] OTHER -> INVALID_HEX_CHAR

convertHexStringToBytes(s) ==
  IF \/ Len(s) % 2 # 0
     \/ \E i \in DOMAIN s : hexCharToInt(s[i]) = INVALID_HEX_CHAR
  THEN NULL
  ELSE << [i \in 1..(Len(s) \div 2) |->
             16 * hexCharToInt(s[2*i - 1]) + hexCharToInt(s[2*i])] >>

(***************************************************************************)
(* Mobile network codes (telephony/ril_mnc.h): the number of digits is     *)
(* kept in the upper four bits.  A decoded code is the sequence of its     *)
(* decimal digits, empty when there is none.                               *)
(***************************************************************************)
Digits(n) == <<n \div 100, (n \div 10) % 10, n % 10>>

mncDecode(mnc) ==
  LET umnc == mnc % 2^28
      minimal == CASE umnc < 10 -> 1 [] umnc \in 10..99 -> 2 [] OTHER -> 3
  IN CASE mnc = INT_MAX \/ mnc < 0 \/ umnc > 999 -> << >>
       [] OTHER -> (CASE mnc \div 2^28 = 0 -> SubSeq(Digits(umnc), 4 - minimal, 3)
                      [] mnc \div 2^28 = 2 -> Tail(Digits(umnc))
                      [] mnc \div 2^28 = 3 -> Digits(umnc)
                      [] OTHER -> << >>)

mncEncode(mnc, numDigits) ==
  IF mnc > 999 \/ mnc < 0 \/ numDigits \notin {0, 2, 3} THEN INT_MAX
  ELSE numDigits * 2^28 + mnc

------------------------------------------------------------------------------
(***************************************************************************)
(* What the conversions promise their callers, over bounded inputs.        *)
(***************************************************************************)
\* "All vectors should be size 0 except one which will be size 1": whatever
\* the vendor's strings and however many the caller accepts, at most one
\* vector of a cell identity is filled and no string past the last is read.
Rats == {<<"GSM">>, <<"HSPA">>, <<"EVDO_0">>, <<"LTE">>, <<"TD_SCDMA">>, <<"UNKNOWN">>, NULL}
RegistrationAnswer(rat, n) == [i \in 1..n |-> IF i = 4 THEN rat ELSE IF i = 6 THEN NULL ELSE <<i>>]
OneVector(identity, rat) ==
  /\ Cardinality({t \in CellTypes : identity[t] # << >>})
       = (IF getCellInfoTypeRadioTechnology(rat) = "NONE" THEN 0 ELSE 1)
  /\ \A t \in CellTypes : identity[t] # << >> => DOMAIN identity[t][1] = IdentityFields[t]
CellIdentityExclusive ==
  \A rat \in Rats, n \in 4..16 :
    /\ VoiceAccepted(n) =>
         OneVector(fillCellIdentityFromVoiceRegStateResponseString(RegistrationAnswer(rat, n)), rat)
    /\ DataAccepted(n) =>
         OneVector(fillCellIdentityFromDataRegStateResponseString(RegistrationAnswer(rat, n)), rat)

\* The same holds of the elements of a list: each cell fills the vector of
\* its own type, each hardware configuration is a modem or a SIM.
ListsExclusive ==
  \A n \in 0..2 :
    /\ \A types \in [1..n -> CellTypes] :
         LET cells == [i \in 1..n |-> [type |-> types[i], identity |-> i]]
             told == convertRilCellInfoListToHal(cells) IN
         \A i \in 1..n : {t \in CellTypes : told[i][t] = <<i>>} = {types[i]}
    /\ \A configs \in [1..n -> {"MODEM", "SIM"}] :
         LET told == convertRilHardwareConfigListToHal(configs) IN
         Len(told) = n /\ \A i \in 1..n : Len(told[i].modem) + Len(told[i].sim) = 1

\* Converting a buffer that was converted before changes nothing, though
\* the conversion of signal strengths overwrites the vendor's values.
SignalIdempotent ==
  \A a, b, c, d \in {-120, -2, -1, 0, 1, 44, INT_MAX}, r \in {-1, 25, INT_MAX}, v8 \in BOOLEAN :
    LET once == convertRilSignalStrengthToHal(
                  [lte |-> [signalStrength |-> a, rsrp |-> b, rsrq |-> c, cqi |-> d], rscp |-> r],
                  v8)
    IN convertRilSignalStrengthToHal(once, v8) = once

\* Up to MaxSureCalls data calls, the length of a list tells its version;
\* a list of eight records of version 6 is as long as one of seven of
\* version 9 and is converted as the latter.
MaxSureCalls == 7
DataCallListsTold ==
  /\ \A v \in DOMAIN SizeOfDataCall, n \in 1..MaxSureCalls :
       convertRilDataCallListToHal(n * SizeOfDataCall[v]) = [version |-> v, num |-> n]
  /\ convertRilDataCallListToHal((MaxSureCalls + 1) * SizeOfDataCall.v6)
       = [version |-> "v9", num |-> MaxSureCalls]

\* A hexadecimal string is converted exactly when it is well formed, into
\* the bytes whose digits it spells.
HexDigits == {47, 48, 57, 58, 64, 65, 70, 71, 96, 97, 102, 103}
HexExact ==
  \A s \in UNION {[1..n -> HexDigits] : n \in 0..3} :
    LET result == convertHexStringToBytes(s) bytes == result[1] IN
    result # NULL =>
      /\ 2 * Len(bytes) = Len(s)
      /\ \A i \in DOMAIN bytes : /\ bytes[i] \in 0..255
                                 /\ bytes[i] \div 16 = hexCharToInt(s[2*i - 1])

\* A network code survives encoding and decoding with its leading zeros,
\* when its number of digits is given and it has no more than that.
MncRoundTrip ==
  \A m \in (0..120) \cup {999}, d \in {2, 3} :
    m < 10^d => mncDecode(mncEncode(m, d)) = SubSeq(Digits(m), 4 - d, 3)

==============================================================================
