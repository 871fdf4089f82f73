-------------------------- MODULE ModemConversions --------------------------
(***************************************************************************)
(* The pure algorithms of the modem programs, as operators: which modems a *)
(* system has (mdm-helper/libmdmdetect/mdm_detect.c), the configuration    *)
(* that the modem helper loads from it (mdm_helper.c), and the framing of  *)
(* the modem file transfer program (hdlc.c).                               *)
(***************************************************************************)
EXTENDS Integers, SequencesExt

(***************************************************************************)
(* Detection.  The system is described by two directories in the order     *)
(* they are read: esocs, each [node, soc, port, link], where Unread stands *)
(* for a file that cannot be read, and subsystems, each [name, state].     *)
(***************************************************************************)
MAX_SUPPORTED_MDM == 4
Unread == "unread"
Failed == << >>
supported_modems == {"QSC", "MDM9x15", "MDM9x25", "MDM9x35"}

esoc_supported(e) == e.soc \in supported_modems

get_esoc_details(e) ==
    IF Unread \in {e.soc, e.port, e.link} THEN Failed
    ELSE <<[type |-> "external", node |-> e.node, name |-> e.soc, link |-> e.link]>>

get_internal_modem_info(s) ==
    <<[type |-> "internal", node |-> "N/A", name |-> s.name, link |-> "SMD"]>>

\* The list of modems with the flag of success: the esocs that are supported, as many
\* as there may be, then the modems on the subsystem bus.
AddEsoc(acc, e) ==
    IF ~acc.ok \/ ~esoc_supported(e) THEN acc
    ELSE LET list == acc.list \o get_esoc_details(e)
         IN  [ok |-> get_esoc_details(e) # Failed /\ Len(list) <= MAX_SUPPORTED_MDM,
              list |-> list]

AddSubsystem(acc, s) ==
    IF ~acc.ok \/ s.name = Unread THEN [acc EXCEPT !.ok = FALSE]
    ELSE IF s.name = "modem" THEN [acc EXCEPT !.list = @ \o get_internal_modem_info(s)]
    ELSE acc

get_system_info(esocs, subsystems) ==
    FoldLeft(AddSubsystem, FoldLeft(AddEsoc, [ok |-> TRUE, list |-> << >>], esocs), subsystems)

\* The state of the modem with a name: the name its subsystem has is the node of the
\* first esoc with that name, or its own.
get_peripheral_state(name, esocs, subsystems) ==
    LET info == get_system_info(esocs, subsystems)
        named == SelectSeq(info.list, LAMBDA m : m.name = name)
        upTo == SelectInSeq(esocs, LAMBDA e : e.soc \in {name, Unread})
        registered == IF named[1].type = "internal" THEN name
                      ELSE IF upTo = 0 \/ esocs[upTo].soc = Unread THEN Unread
                      ELSE esocs[upTo].node
        first == SelectInSeq(subsystems, LAMBDA s : s.name \in {registered, Unread})
    IN  CASE ~info.ok \/ named = << >> -> "FAILED"
          [] registered = Unread \/ first = 0 -> "FAILED"
          [] subsystems[first].name = Unread \/ subsystems[first].state = Unread -> "FAILED"
          [] subsystems[first].state = "OFFLINE" -> "OFFLINE"
          [] OTHER -> "ONLINE"

(***************************************************************************)
(* What the helper makes of it: the external modems, with the operations   *)
(* that serve them.  Operations and private data are stored in the first   *)
(* device, whichever modem they are for.                                   *)
(***************************************************************************)
get_soc_ops(m) == m.name \in {"MDM9x25", "MDM9x35"}

get_soc_private_data(m) == get_soc_ops(m) /\ m.link \in {"HSIC", "HSIC+PCIe"}

load_configuration_via_esoc(info) ==
    LET external == SelectSeq(info.list, LAMBDA m : m.type = "external")
    IN  [ok |-> /\ info.ok /\ info.list # << >>
                /\ \A k \in DOMAIN external : get_soc_ops(external[k]),
         devices |-> [k \in DOMAIN external |->
                        [name |-> external[k].name,
                         ops |-> IF k = 1 THEN "set" ELSE "uninitialised",
                         private |-> k = 1 /\ \E j \in DOMAIN external :
                                                 get_soc_private_data(external[j])]]]

\* mdm_helper_init sleeps for ever when the configuration fails to load, and lets the
\* helper run when every device has its operations; what it reads of the others, in
\* memory from malloc, is anything.
mdm_helper_init(info) ==
    LET conf == load_configuration_via_esoc(info)
    IN  conf.ok /\ \A k \in DOMAIN conf.devices : conf.devices[k].ops = "set"

(***************************************************************************)
(* Facts about them, on small systems.                                     *)
(***************************************************************************)
\* A modem that the detection lists is found again by get_peripheral_state: when its
\* subsystem is on the bus and everything can be read, its state is reported and no
\* other's, unless an esoc that comes earlier has the same name.
StateReported(esocs, subsystems) ==
    LET info == get_system_info(esocs, subsystems)
    IN  info.ok => \A k \in DOMAIN info.list :
          LET m == info.list[k]
              own == IF m.type = "internal" THEN m.name ELSE m.node
              same == SelectInSeq(info.list, LAMBDA x : x.name = m.name)
              at == SelectInSeq(subsystems, LAMBDA s : s.name = own)
          IN  same = k /\ at # 0 /\ subsystems[at].state # Unread
                 /\ (\A j \in DOMAIN esocs : esocs[j].soc # Unread)
              => get_peripheral_state(m.name, esocs, subsystems)
                   = IF subsystems[at].state = "OFFLINE" THEN "OFFLINE" ELSE "ONLINE"

\* The helper runs on a system with one supported modem, and on none with an
\* unsupported one; with a second modem it depends on memory that is not initialised.
HelperRuns(esocs, subsystems) ==
    LET info == get_system_info(esocs, subsystems)
        external == SelectSeq(info.list, LAMBDA m : m.type = "external")
    IN  mdm_helper_init(info) <=> info.ok /\ info.list # << >> /\ Len(external) <= 1
                                    /\ \A k \in DOMAIN external : get_soc_ops(external[k])

(***************************************************************************)
(* Framing: flags around the packet and its checksum, and an escape before *)
(* the bytes that look like one.  The checksum is a parameter: decoding    *)
(* does not check it.                                                      *)
(***************************************************************************)
AHDLC_FLAG == 126       \* 0x7E
AHDLC_ESCAPE == 125     \* 0x7D

\* The bytes that stand for value; 0x5E and 0x5D are the flag and the escape with the
\* bit AHDLC_ESC_M toggled.
Escaped(value) ==
    CASE value = AHDLC_FLAG -> <<AHDLC_ESCAPE, 94>>
      [] value = AHDLC_ESCAPE -> <<AHDLC_ESCAPE, 93>>
      [] OTHER -> <<value>>

EscapeAll(bytes) == FlattenSeq([k \in DOMAIN bytes |-> Escaped(bytes[k])])

\* The frame for a packet with a checksum of two bytes.
hdlc_encode(packet, crc) ==
    <<AHDLC_FLAG>> \o EscapeAll(packet \o crc) \o <<AHDLC_FLAG>>

\* One byte of the decoding loop: st is the loop's status and what it has copied.
DecodeByte(st, b) ==
    CASE st[1] \in {"done", "bad"} -> st
      [] st[1] = "escape" -> CASE b = 94 -> <<"copy", Append(st[2], AHDLC_FLAG)>>
                               [] b = 93 -> <<"copy", Append(st[2], AHDLC_ESCAPE)>>
                               [] OTHER -> <<"bad", <<>>>>
      [] b = AHDLC_ESCAPE -> <<"escape", st[2]>>
      [] b = AHDLC_FLAG -> <<"done", st[2]>>
      [] OTHER -> <<"copy", Append(st[2], b)>>

\* The status and the packet with its checksum; anything but "done" is a failure.
hdlc_decode(buffer) ==
    IF buffer = <<>> \/ buffer[1] # AHDLC_FLAG THEN <<"bad", <<>>>>
    ELSE FoldLeft(DecodeByte, <<"copy", <<>>>>, Tail(buffer))

\* Decoding returns the packet and its checksum, whatever follows the frame in the
\* buffer; and a frame that is cut short is refused.
RoundTrip(packet, crc) ==
    LET frame == hdlc_encode(packet, crc)
    IN  /\ \A rest \in {<<>>, frame, <<0>>} :
              hdlc_decode(frame \o rest) = <<"done", packet \o crc>>
        /\ \A n \in 0 .. Len(frame) - 1 : hdlc_decode(SubSeq(frame, 1, n))[1] # "done"
==============================================================================
