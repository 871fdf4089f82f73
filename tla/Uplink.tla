-------------------------------- MODULE Uplink --------------------------------
(***************************************************************************)
(* The uplink of a tethered LAN interface (IPACM_Lan.cpp, IPACM_Wan.cpp,   *)
(* IPACM_Iface.cpp): the default, private-subnet and uplink filter rules   *)
(* that one IPACM_Lan object installs at its pipe, and the two backhauls   *)
(* (the modem, Q6_WAN, and a Wi-Fi station, WLAN_WAN) whose coming and     *)
(* going it follows.  The framework, the netlink listener and the handlers *)
(* themselves post events; the one dispatcher thread runs the handlers in  *)
(* order.  Between the change of a backhaul and the event that tells the   *)
(* LAN of it, other events may be waiting in the queue.                    *)
(*                                                                         *)
(* Rules are counted in the batches in which they are installed.  hw[k] is *)
(* the number of batches of kind k in the hardware; slot[k] says whether   *)
(* the handles the object holds for k are zero, of installed rules         *)
(* ("live") or of rules that were deleted since ("stale").  Both           *)
(* interfaces have the properties (rx_prop, tx_prop, ext_prop) that the    *)
(* driver reports.  Private-subnet contents, firewall rules and clients    *)
(* are not part of this module.                                            *)
(***************************************************************************)
EXTENDS Integers, Sequences, FiniteSets, SequencesExt

CONSTANTS
  Scenarios,         \* sets of outside events; a behaviour draws from one of them
  MaxUplinkEvents,   \* bound on the events from outside and the refused calls together
  MaxWaiting         \* bound on the events that wait when one is posted

VARIABLES
  lan,           \* the IPACM_Lan object
  wans,          \* the two IPACM_Wan objects
  wanOrder,      \* their order in the dispatcher's list
  backhaul,      \* the static members of IPACM_Wan
  swRouting,     \* ipa_sw_rt_enable
  outside,       \* the scenario
  uplinkQ,       \* the dispatcher's queue
  uplinkEvents   \* outside events and refused calls so far

uplinkVars == <<lan, wans, wanOrder, backhaul, swRouting, outside, uplinkQ, uplinkEvents>>

Families == {"v4", "v6"}
RuleKinds == {"dft4", "dummy4", "private4", "uplink4", "sta4", "software4", "address4",
              "dft6", "dummy6", "icmp6", "prefix6", "uplink6", "sta6", "software6", "address6", "second6"}
KindOf(rule, fam) == IF fam = "v4" THEN rule \o "4" ELSE rule \o "6"

MAX_DEFAULT_v6_ROUTE_RULES == 2

NewLan ==
  [active |-> TRUE, addr4 |-> FALSE, addr6 |-> {}, sw |-> FALSE,
   modem_ul_set |-> [fam \in Families |-> FALSE],
   hw |-> [k \in RuleKinds |-> 0], slot |-> [k \in RuleKinds |-> "zero"], ok |-> TRUE]

NewWan ==
  [here |-> TRUE, active |-> [fam \in Families |-> FALSE], is_default_gateway |-> FALSE,
   header_set |-> FALSE, partial_default |-> [fam \in Families |-> FALSE]]

Event(name, fam, of) == [name |-> name, fam |-> fam, of |-> of]

UplinkInit ==
  /\ lan = NewLan
  /\ wans = [w \in {"Q6", "STA"} |-> NewWan]
  /\ wanOrder \in {<<"Q6", "STA">>, <<"STA", "Q6">>}
  /\ backhaul = [wan_up |-> [fam \in Families |-> FALSE], sta |-> FALSE,
                 tether |-> [fam \in Families |-> 0]]
  /\ swRouting = FALSE
  /\ outside \in Scenarios
  /\ uplinkQ = << >>
  /\ uplinkEvents = 0

(***************************************************************************)
(* IPACM_Filtering, IPACM_Routing.  `bad` is the kind of rule, or the      *)
(* other call, that the driver refuses during this handler.                *)
(***************************************************************************)
\* AddFilteringRule, and the handles stored from its result.
AddRules(s, kind, bad) ==
  IF kind = bad THEN [s EXCEPT !.ok = FALSE]
  ELSE [s EXCEPT !.hw[kind] = @ + 1, !.slot[kind] = "live", !.ok = TRUE]

\* DeleteFilteringHdls passes over a zero handle; the driver refuses the
\* handle of a rule that is gone.  The handles themselves are kept.
DeleteRules(s, kind, bad) ==
  CASE s.slot[kind] = "zero" -> s
    [] s.slot[kind] = "stale" \/ kind = bad -> [s EXCEPT !.ok = FALSE]
    [] OTHER -> [s EXCEPT !.hw[kind] = @ - 1, !.slot[kind] = "stale"]

\* Deletions one after the other, up to the first that fails.
DeleteInTurn(s, kinds, bad) ==
  FoldLeft(LAMBDA t, kind : IF t.ok THEN DeleteRules(t, kind, bad) ELSE t,
           [s EXCEPT !.ok = TRUE], kinds)

(***************************************************************************)
(* IPACM_Iface: software routing sends everything to the processor.        *)
(***************************************************************************)
handle_software_routing_enable(s, bad) ==
  LET v4 == AddRules(s, "software4", bad)
      v6 == AddRules(v4, "software6", bad)
  IN  IF s.sw THEN s ELSE IF ~v4.ok THEN v4 ELSE [v6 EXCEPT !.sw = v6.ok]

handle_software_routing_disable(s, bad) ==
  LET gone == DeleteInTurn(s, <<"software4", "software6">>, bad)
  IN  IF ~s.sw THEN s ELSE [gone EXCEPT !.sw = ~gone.ok]

\* The first address of a family brings the default rules of the pipe.
init_fl_rule(s, fam, bad) == AddRules(s, KindOf("dft", fam), bad)

(***************************************************************************)
(* IPACM_Lan: what the LAN installs while a backhaul is up.  Over a        *)
(* station one rule sends everything to the uplink; over the modem the     *)
(* rules come from the modem, which is told the places they are put at.    *)
(***************************************************************************)
handle_wan_up(s, fam, bad) == AddRules(s, KindOf("sta", fam), bad)

handle_uplink_filter_rule(s, fam, bad) ==
  IF bad = "indexes" THEN [s EXCEPT !.ok = FALSE] ELSE AddRules(s, KindOf("uplink", fam), bad)

\* Mutant of handle_wan_up_ex: the flag is neither tested nor set.
handle_wan_up_ex_Unmarked(s, fam, bad) ==
  IF bad = "qmap" \/ (fam = "v6" /\ Cardinality(s.addr6) # 1) THEN s
  ELSE handle_uplink_filter_rule(s, fam, bad)

\* The flag is set whether or not the rules could be installed.
handle_wan_up_ex(s, fam, bad) ==
  IF \/ bad = "qmap"
     \/ s.modem_ul_set[fam]
     \/ fam = "v6" /\ Cardinality(s.addr6) # 1
  THEN s
  ELSE [handle_uplink_filter_rule(s, fam, bad) EXCEPT !.modem_ul_set[fam] = TRUE]

install_ipv6_prefix_flt_rule(s, bad) == AddRules(s, "prefix6", bad)
install_ipv6_icmp_flt_rule(s, bad) == AddRules(s, "icmp6", bad)

\* Only the handles of the modem's rules are cleared after the deletion.
ForgetUplink(s, fam) ==
  IF s.ok THEN [s EXCEPT !.slot[KindOf("uplink", fam)] = "zero", !.modem_ul_set[fam] = FALSE] ELSE s

handle_wan_down(s, sta, bad) ==
  IF sta THEN DeleteInTurn(s, <<"sta4">>, bad)
  ELSE ForgetUplink(DeleteInTurn(s, <<"uplink4">>, bad), "v4")

handle_wan_down_v6(s, sta, bad) ==
  IF sta THEN DeleteInTurn(s, <<"prefix6", "sta6">>, bad)
  ELSE ForgetUplink(DeleteInTurn(s, <<"prefix6", "uplink6">>, bad), "v6")

\* What a backhaul that is up means to the LAN: at a tether event, and when
\* an address arrives.
WanUp(s, fam, sta, bad) ==
  LET prefixed == IF fam = "v6" THEN install_ipv6_prefix_flt_rule(s, bad) ELSE s
  IN  IF sta THEN handle_wan_up(prefixed, fam, bad) ELSE handle_wan_up_ex(prefixed, fam, bad)

\* IPACM_Wan::isWanUP and isWanUP_V6 of this LAN.
isWanUP(fam) == backhaul.tether[fam] > 0 /\ backhaul.wan_up[fam]

(***************************************************************************)
(* IPACM_Lan::handle_addr_evt: a route to the processor for the address,   *)
(* and the default rules with the first address of the family.             *)
(***************************************************************************)
handle_addr_evt(s, fam, addr, bad) ==
  LET routed == AddRules(s, KindOf(IF fam = "v6" /\ s.addr6 # {} THEN "second" ELSE "address", fam), bad) IN
  CASE fam = "v6" /\ addr \in s.addr6 -> [s EXCEPT !.ok = FALSE]
    [] ~routed.ok -> routed
    [] fam = "v4" ->
         [AddRules(init_fl_rule(routed, "v4", bad), "dummy4", bad) EXCEPT !.addr4 = TRUE, !.ok = TRUE]
    [] s.addr6 = {} ->
         [init_fl_rule(AddRules(routed, "dummy6", bad), "v6", bad) EXCEPT !.addr6 = {addr}, !.ok = TRUE]
    [] OTHER -> [routed EXCEPT !.addr6 = @ \cup {addr}, !.ok = TRUE]

handle_private_subnet(s, fam, bad) ==
  IF fam = "v4" THEN AddRules(s, "private4", bad) ELSE s

\* IPA_ADDR_ADD_EVENT.
LanAddrAdd(s, fam, addr, bad) ==
  LET icmp   == IF fam = "v6" /\ s.addr6 = {} THEN install_ipv6_icmp_flt_rule(s, bad) ELSE s
      given  == handle_addr_evt(icmp, fam, addr, bad)
      local  == handle_private_subnet(given, fam, bad)
      uplink == IF isWanUP(fam) /\ (fam = "v6" => Cardinality(local.addr6) = 1)
                THEN WanUp(local, fam, backhaul.sta, bad) ELSE local
      taken  == IF fam = "v4" THEN ~s.addr4 ELSE Cardinality(s.addr6) # MAX_DEFAULT_v6_ROUTE_RULES
      done   == IF taken THEN uplink ELSE s
  IN  IF taken /\ ~given.ok THEN given
      ELSE IF swRouting THEN handle_software_routing_enable(done, bad) ELSE done

\* IPACM_Lan::handle_down_evt.  A deletion that fails ends it; the object
\* is inactive from here on whatever happened.
LanDown(s, bad) ==
  LET v4 == IF isWanUP("v4") THEN handle_wan_down(s, backhaul.sta, bad) ELSE s
      v6 == IF isWanUP("v6") THEN handle_wan_down_v6(v4, backhaul.sta, bad) ELSE v4
      gone == DeleteInTurn(v6,
                (IF s.addr4 THEN <<"dft4", "icmp6", "dummy4", "private4">> ELSE << >>)
                \o (IF s.addr6 # {} THEN <<"dft6", "sta6", "dummy6">> ELSE << >>)
                \o (IF s.addr4 THEN <<"address4">> ELSE << >>)
                \o (IF s.addr6 # {} THEN <<"address6", "second6">> ELSE << >>), bad)
      quiet == IF gone.ok THEN handle_software_routing_disable(gone, bad) ELSE gone
  IN  [(IF s.addr4 \/ s.addr6 # {} THEN quiet ELSE s) EXCEPT !.active = FALSE]

(***************************************************************************)
(* IPACM_Wan: handlers act on the pair of the object and the statics.      *)
(***************************************************************************)
\* handle_route_add_evt.  A station whose next hop is not known yet only
\* notes that it is the default.
handle_route_add_evt(p, w, fam, bad) ==
  LET gateway == [p EXCEPT !.wan.is_default_gateway = TRUE, !.stat.sta = (w = "STA")] IN
  CASE w = "STA" /\ ~p.wan.header_set -> [gateway EXCEPT !.wan.partial_default[fam] = TRUE]
    [] bad = "route" -> gateway
    [] OTHER -> [gateway EXCEPT !.wan.active[fam] = TRUE, !.stat.wan_up[fam] = TRUE]

\* The station's default route may fail to be deleted; the modem's has a
\* rule of its own for IPv6 only.
RouteDeleted(p, fam, failed) ==
  LET left == [p EXCEPT !.wan.is_default_gateway = FALSE] IN
  IF ~p.wan.active[fam] \/ failed THEN left
  ELSE [left EXCEPT !.wan.active[fam] = FALSE, !.stat.wan_up[fam] = FALSE]

handle_route_del_evt(p, fam, bad) == RouteDeleted(p, fam, bad = "route")
handle_route_del_evt_ex(p, fam, bad) == RouteDeleted(p, fam, bad = "route" /\ fam = "v6")

RouteDel(p, w, fam, bad) ==
  IF w = "Q6" THEN handle_route_del_evt_ex(p, fam, bad) ELSE handle_route_del_evt(p, fam, bad)

\* handle_header_add_evt: the next hop is known; a default route that
\* waited for it is completed.
handle_header_add_evt(p, w, bad) ==
  LET known == [p EXCEPT !.wan.header_set = TRUE]
      v4 == IF p.wan.partial_default["v4"] THEN handle_route_add_evt(known, w, "v4", bad) ELSE known
  IN  IF p.wan.header_set \/ bad = "header" THEN p
      ELSE IF v4.wan.partial_default["v6"] THEN handle_route_add_evt(v4, w, "v6", bad) ELSE v4

\* post_wan_up_tether_evt enters the LAN in the list of the family, once
\* more if it is there already; post_wan_down_tether_evt takes one entry out.
post_wan_up_tether_evt(p, w, fam) ==
  [p EXCEPT !.stat.tether[fam] = @ + 1, !.posts = Append(@, Event("tetherUp", fam, w))]
post_wan_down_tether_evt(p, w, fam) ==
  IF p.stat.tether[fam] = 0 THEN p
  ELSE [p EXCEPT !.stat.tether[fam] = @ - 1, !.posts = Append(@, Event("tetherDown", fam, w))]

\* IPA_WAN_UPSTREAM_ROUTE_ADD_EVENT and _DEL_EVENT: the framework tethers
\* the LAN to the backhaul, or no longer.
UpstreamAdd(p, w, e, bad) ==
  CASE e.of = w -> post_wan_up_tether_evt(
                     IF p.wan.active[e.fam] THEN p ELSE handle_route_add_evt(p, w, e.fam, bad), w, e.fam)
    [] p.wan.active[e.fam] -> RouteDel(p, w, e.fam, bad)
    [] OTHER -> p

UpstreamDel(p, w, e, bad) ==
  LET told == post_wan_down_tether_evt(p, w, e.fam) IN
  CASE e.of # w \/ ~p.wan.active[e.fam] -> p
    [] told.stat.tether[e.fam] # 0 -> told
    [] OTHER -> RouteDel(told, w, e.fam, bad)

\* handle_down_evt_ex, the modem's: every tethered interface is told.
handle_down_evt_ex(p, bad) ==
  LET Withdraw(q, fam) ==
        FoldLeft(LAMBDA r, i : post_wan_down_tether_evt(r, "Q6", fam),
                 handle_route_del_evt_ex([q EXCEPT !.stat.wan_up[fam] = FALSE], fam, bad),
                 [i \in 1..q.stat.tether[fam] |-> i])
  IN  IF p.wan.is_default_gateway THEN Withdraw(Withdraw(p, "v4"), "v6") ELSE p

\* handle_down_evt, the station's: nobody is told.
handle_down_evt(p, bad) ==
  LET v4 == IF p.wan.active["v4"] THEN handle_route_del_evt(p, "v4", bad) ELSE p
  IN  IF v4.wan.active["v6"] THEN handle_route_del_evt(v4, "v6", bad) ELSE v4

WanCallback(p, w, e, bad) ==
  CASE e.name = "upstreamAdd" -> UpstreamAdd(p, w, e, bad)
    [] e.name = "upstreamDel" -> UpstreamDel(p, w, e, bad)
    [] e.name = "neighbour" /\ e.of = w -> handle_header_add_evt(p, w, bad)
    [] e.name = "wanDown" /\ e.of = w ->
         [(IF w = "Q6" THEN handle_down_evt_ex(p, bad) ELSE handle_down_evt(p, bad)) EXCEPT !.wan.here = FALSE]
    [] OTHER -> p

(***************************************************************************)
(* The dispatcher thread takes the first event through every callback; an  *)
(* inactive LAN object ignores it.                                         *)
(***************************************************************************)
HasAddress(s, fam) == IF fam = "v4" THEN s.addr4 ELSE s.addr6 # {}

\* IPA_HANDLE_WAN_UP_TETHER, IPA_HANDLE_WAN_DOWN_TETHER and their v6 forms.
TetherUp(s, e, bad) ==
  IF HasAddress(s, e.fam) THEN WanUp(s, e.fam, e.of = "STA", bad) ELSE s
TetherDown(s, e, bad) ==
  CASE ~HasAddress(s, e.fam) -> s
    [] e.fam = "v4" -> handle_wan_down(s, e.of = "STA", bad)
    [] OTHER -> handle_wan_down_v6(s, e.of = "STA", bad)

LanCallback(s, e, bad) ==
  CASE ~s.active -> s
    [] e.name = "address" -> LanAddrAdd(s, e.fam, e.of, bad)
    [] e.name = "tetherUp" -> TetherUp(s, e, bad)
    [] e.name = "tetherDown" -> TetherDown(s, e, bad)
    [] e.name = "softwareOn" -> handle_software_routing_enable(s, bad)
    [] e.name = "softwareOff" -> handle_software_routing_disable(s, bad)
    [] e.name = "lanDown" -> LanDown(s, bad)
    [] OTHER -> s

\* The calls of the driver that the handling of an event may see refused.
RefusedCalls(e) ==
  {"none"} \cup
  CASE e.name \in {"address", "tetherUp", "tetherDown", "lanDown", "softwareOn", "softwareOff"} ->
         {k \in RuleKinds : e.name \notin {"tetherUp", "tetherDown"} \/ k \in {KindOf("sta", e.fam),
                            KindOf("uplink", e.fam), "prefix6"}} \cup {"qmap", "indexes"}
    [] OTHER -> {"route", "header"}

ProcessUplinkEvent(bad) ==
  /\ uplinkQ # << >>
  /\ bad # "none" => uplinkEvents < MaxUplinkEvents
  /\ LET e == Head(uplinkQ)
         Step(p, w) ==
           LET q == WanCallback([wan |-> p.wans[w], stat |-> p.stat, posts |-> p.posts], w, e, bad)
           IN  IF p.wans[w].here
               THEN [wans |-> [p.wans EXCEPT ![w] = q.wan], stat |-> q.stat, posts |-> q.posts] ELSE p
         all == FoldLeft(Step, [wans |-> wans, stat |-> backhaul, posts |-> << >>], wanOrder)
     IN  /\ lan' = LanCallback(lan, e, bad)
         /\ wans' = all.wans /\ backhaul' = all.stat
         /\ uplinkQ' = Tail(uplinkQ) \o all.posts
  /\ uplinkEvents' = uplinkEvents + (IF bad = "none" THEN 0 ELSE 1)
  /\ UNCHANGED <<wanOrder, swRouting, outside>>

(***************************************************************************)
(* The events from outside: addresses, neighbours and links from           *)
(* netlink, tethering from the framework, software routing from the user   *)
(* (the signal handler sets the flag before it posts the event).           *)
(* A backhaul that went down may come back as a new object at the end of   *)
(* the list.                                                               *)
(***************************************************************************)
PostUplinkEvent(e) ==
  /\ uplinkEvents < MaxUplinkEvents /\ Len(uplinkQ) < MaxWaiting
  /\ uplinkQ' = Append(uplinkQ, e)
  /\ uplinkEvents' = uplinkEvents + 1
  /\ swRouting' = CASE e.name = "softwareOn" -> TRUE [] e.name = "softwareOff" -> FALSE
                    [] OTHER -> swRouting
  /\ UNCHANGED <<lan, wans, wanOrder, backhaul, outside>>

WanBack(w) ==
  /\ ~wans[w].here
  /\ wans' = [wans EXCEPT ![w] = NewWan]
  /\ wanOrder' = Append(SelectSeq(wanOrder, LAMBDA x : x # w), w)
  /\ UNCHANGED <<lan, backhaul, swRouting, outside, uplinkQ, uplinkEvents>>

UplinkNext ==
  \/ uplinkQ # << >> /\ \E bad \in RefusedCalls(Head(uplinkQ)) : ProcessUplinkEvent(bad)
  \/ \E e \in outside : PostUplinkEvent(e)
  \/ \E w \in DOMAIN wans : WanBack(w)

-------------------------------------------------------------------------------
\* While its interface is active the LAN holds the handles of all uplink
\* rules of the modem that are in its pipe, and they are there once: an
\* address that arrives while the tether event is still waiting, a second
\* tether event, a change of backhaul or a refused call neither installs
\* them twice nor loses them (handle_wan_up_ex's modem_ul_v4_set and
\* modem_ul_v6_set, and the clearing in handle_wan_down).
UplinkRulesHeld ==
  lan.active =>
    \A fam \in Families :
      LET k == KindOf("uplink", fam) IN
      /\ lan.hw[k] <= 1
      /\ lan.hw[k] = 1 => lan.slot[k] = "live" /\ lan.modem_ul_set[fam]

===============================================================================
