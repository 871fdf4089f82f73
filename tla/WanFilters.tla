------------------------------ MODULE WanFilters ------------------------------
(***************************************************************************)
(* The downlink filter rules of the backhauls (IPACM_Wan.cpp and           *)
(* IPACM_Filtering.cpp).  The PDN connections of the modem share one       *)
(* static table of rules for each family: default rules while a connection *)
(* has an address, then the rules of the firewall while one is the default *)
(* gateway.  Any change is followed by a message that replaces what the    *)
(* modem has.  A Wi-Fi station installs the firewall's rules one by one in *)
(* its own pipe.  Events reach the objects in the order they registered.   *)
(*                                                                         *)
(* A rule is its kind and whether it lets packets pass to the LAN side.    *)
(* One LAN interface is tethered, so that the upstream route given up is   *)
(* the last.  A station comes up with its addresses and its header known   *)
(* (Uplink has the waiting for them).  There is no eMBMS interface.  All   *)
(* objects have the properties the driver reports.                         *)
(***************************************************************************)
EXTENDS Uplink

CONSTANTS
  Pdns,               \* connections of the modem
  FirewallFiles,      \* contents of mobileap_firewall.xml
  FilterScenarios,    \* sets of outside events; a behaviour draws from one of them
  AlgPorts,           \* ipacm_alg entries of the configuration
  QMI_IPA_MAX_FILTERS,
  IPACM_MAX_FIREWALL_ENTRIES,
  BuildFailures,      \* numbers of rules after which building one may fail
  MaxFilterEvents     \* bound on the outside events and the refused calls together

VARIABLES
  pdns,          \* the IPACM_Wan objects of the modem
  station,       \* the IPACM_Wan object of the Wi-Fi station
  table,         \* the static members, and what the modem was last told
  filterOrder,   \* the order in the dispatcher's list
  firewallFile,
  ipa_sw_rt_enable,
  notices,       \* events of the user that wait in the queue
  outsideFilter, \* the scenario
  filterEvents,  \* outside events and refused calls so far
  hitches        \* what happened that the properties make an exception for

filterVars == <<pdns, station, table, filterOrder, firewallFile, ipa_sw_rt_enable, notices,
                outsideFilter, filterEvents, hitches>>

Rule(kind, pass) == [kind |-> kind, pass |-> pass]
Rules(kinds, pass) == [i \in DOMAIN kinds |-> Rule(kinds[i], pass)]

\* A call the driver refuses: telling the modem ("tell"), a route, a rule of
\* the station's pipe, or building the rule after the first `at` ("build").
Bad(call, at) == [call |-> call, at |-> at]
NoBad == Bad("none", 0)

\* ip_type, num_dft_rt_v6, active_v4 and active_v6, softwarerouting_act.
NewPdn ==
  [here |-> TRUE, v4 |-> FALSE, num_dft_rt_v6 |-> 0, active |-> [fam \in Families |-> FALSE],
   is_default_gateway |-> FALSE, softwarerouting_act |-> FALSE]

StationRules == {"rest4", "frag6", "icmp6", "rest6", "software4", "software6"}

\* entries[fam]: how many rules of firewall entries are in the pipe, and how
\* many of their handles are in firewall_hdl; num_firewall is the count the
\* object keeps.  The constructor leaves the handle of the fragment rule as
\* it finds it.
NewStation(frag) ==
  [here |-> TRUE, active |-> [fam \in Families |-> FALSE], sw |-> FALSE,
   entries |-> [fam \in Families |-> 0], held |-> [fam \in Families |-> 0],
   num_firewall |-> [fam \in Families |-> 0],
   hw |-> [k \in StationRules |-> 0],
   slot |-> [[k \in StationRules |-> "zero"] EXCEPT !["frag6"] = frag], ok |-> TRUE]

(***************************************************************************)
(* The rules of a family.                                                  *)
(***************************************************************************)
DefaultV4 == Rules(<<"multicast", "broadcast">>, FALSE)
DefaultV6 == Rules(<<"multicast", "fe80", "fec0", "fin", "syn", "rst">>, FALSE)
DefaultRules(fam) == IF fam = "v4" THEN DefaultV4 ELSE DefaultV6

IPA_V2_NUM_DEFAULT_WAN_FILTER_RULE(fam) == IF fam = "v4" THEN 2 ELSE 6

\* ICMP, and for IPv4 the ports of the ALGs as source and as destination.
IcmpAlgRules(fam) ==
  Rules(<<"icmp">>, FALSE)
  \o IF fam = "v4" THEN Rules([i \in 1..2 * AlgPorts |-> "alg"], FALSE) ELSE << >>

\* An entry for TCP and UDP is split in two.
EntryRules(fam, file) ==
  FlattenSeq([i \in DOMAIN file.entries[fam] |->
                IF file.entries[fam][i] = "TCP_UDP" THEN Rules(<<"TCP", "UDP">>, file.accept)
                ELSE Rules(<<file.entries[fam][i]>>, file.accept)])

\* The last rule takes what no entry matched.
RestRule(file) == Rule("rest", ~file.enable \/ ~file.accept)

\* An enabled firewall first sends IPv6 fragments to the processor.
FragRules(fam) == IF fam = "v6" THEN Rules(<<"frag">>, FALSE) ELSE << >>

FirewallRules(fam, file) ==
  (IF file.enable THEN FragRules(fam) \o EntryRules(fam, file) ELSE << >>) \o <<RestRule(file)>>

(***************************************************************************)
(* The static table.  Handlers act on the pair of the object and the       *)
(* statics; `lost` is a message the modem did not take, `poor` a rule that *)
(* could not be built.                                                     *)
(***************************************************************************)
\* Entries are written from a place on; the others stay.
PutRules(rules, offset, new) ==
  [i \in 1..(IF Len(rules) > offset + Len(new) THEN Len(rules) ELSE offset + Len(new)) |->
     CASE i \in offset + 1..offset + Len(new) -> new[i - offset]
       [] i <= Len(rules) -> rules[i]
       [] OTHER -> Rule("zero", FALSE)]

Built(rules, bad) ==
  IF bad.call = "build" /\ bad.at < Len(rules) THEN SubSeq(rules, 1, bad.at) ELSE rules
Whole(rules, bad) == Len(Built(rules, bad)) = Len(rules)

\* The count is raised once all the default rules are built.
add_dft_filtering_rule(t, fam, bad) ==
  LET all == DefaultRules(fam)
      put == [t EXCEPT !.rules[fam] = PutRules(@, t.num_flt_rule[fam], Built(all, bad))]
  IN  IF Whole(all, bad)
      THEN [put EXCEPT !.num_flt_rule[fam] = @ + IPA_V2_NUM_DEFAULT_WAN_FILTER_RULE(fam)]
      ELSE [put EXCEPT !.poor = TRUE]

\* add_icmp_alg_rules and config_dft_firewall_rules_ex count as they go.
config_wan_firewall_rule(t, fam, bad) ==
  LET from == IPA_V2_NUM_DEFAULT_WAN_FILTER_RULE(fam)
      all  == IcmpAlgRules(fam) \o FirewallRules(fam, firewallFile)
      new  == Built(all, bad)
  IN  [t EXCEPT !.rules[fam] = PutRules(@, from, new), !.num_flt_rule[fam] = from + Len(new),
                !.poor = @ \/ ~Whole(all, bad)]

del_wan_firewall_rule(t, fam) ==
  LET from == IPA_V2_NUM_DEFAULT_WAN_FILTER_RULE(fam)
  IN  [t EXCEPT !.num_flt_rule[fam] = from,
                !.rules[fam] = SubSeq(@, 1, IF Len(@) < from THEN Len(@) ELSE from)]

\* The message lists the rules of a family from the last to the first, and
\* replaces what the modem had of both.
AddWanDLFilteringRule(t, message, bad) ==
  IF bad.call = "tell" \/ Len(message["v4"]) + Len(message["v6"]) > QMI_IPA_MAX_FILTERS
  THEN [t EXCEPT !.lost = TRUE]
  ELSE [t EXCEPT !.told = [fam \in Families |-> Reverse(message[fam])], !.lost = FALSE]

SoftwareRules == [fam \in Families |-> Rules(<<"software">>, FALSE)]
CurrentRules(t) == [fam \in Families |-> SubSeq(PutRules(t.rules[fam], t.num_flt_rule[fam], << >>),
                                                1, t.num_flt_rule[fam])]

\* With software routing on, an object sends its one rule once.
install_wan_filtering_rule(p, is_sw_routing, bad) ==
  CASE ~is_sw_routing /\ ~ipa_sw_rt_enable ->
         [p EXCEPT !.t = AddWanDLFilteringRule(p.t, CurrentRules(p.t), bad)]
    [] p.o.softwarerouting_act -> p
    [] bad.call = "build" -> [p EXCEPT !.t.lost = TRUE]
    [] OTHER -> [p EXCEPT !.t = AddWanDLFilteringRule(p.t, SoftwareRules, bad),
                          !.o.softwarerouting_act = TRUE]

(***************************************************************************)
(* A connection of the modem.                                              *)
(***************************************************************************)
PdnHas(o, fam) == o.here /\ IF fam = "v4" THEN o.v4 ELSE o.num_dft_rt_v6 > 0

\* Mutant of init_fl_rule_ex: every connection installs the default rules.
init_fl_rule_ex_Always(p, fam, index, bad) ==
  install_wan_filtering_rule(
    [p EXCEPT !.t = add_dft_filtering_rule([p.t EXCEPT !.num_flt_rule[fam] = 0], fam, bad)], FALSE, bad)

\* Only the connection of index 0 installs the default rules.
init_fl_rule_ex(p, fam, index, bad) ==
  install_wan_filtering_rule(
    IF index # 0 THEN p
    ELSE [p EXCEPT !.t = add_dft_filtering_rule([p.t EXCEPT !.num_flt_rule[fam] = 0], fam, bad)],
    FALSE, bad)

\* The guard of IPA_ADDR_ADD_EVENT.
AddressTaken(o, fam) ==
  IF fam = "v4" THEN ~o.v4 ELSE o.num_dft_rt_v6 # MAX_DEFAULT_v6_ROUTE_RULES

\* The first address of a family counts the connection, under the index it
\* finds.
FirstAddress(p, fam, bad) ==
  init_fl_rule_ex([p EXCEPT !.t.num_modem_pdn[fam] = @ + 1], fam, p.t.num_modem_pdn[fam], bad)

\* handle_addr_evt; the addresses of a connection are distinct.
PdnAddress(p, fam, bad) ==
  CASE ~AddressTaken(p.o, fam) \/ bad.call = "route" -> p
    [] fam = "v4" -> [FirstAddress(p, fam, bad) EXCEPT !.o.v4 = TRUE]
    [] p.o.num_dft_rt_v6 = 0 -> [FirstAddress(p, fam, bad) EXCEPT !.o.num_dft_rt_v6 = 1]
    [] OTHER -> [p EXCEPT !.o.num_dft_rt_v6 = 2]

\* handle_route_add_evt: the new default gateway has the firewall.
PdnRouteAdd(p, fam, bad) ==
  LET gateway == [p EXCEPT !.o.is_default_gateway = TRUE] IN
  CASE p.o.active[fam] \/ ~PdnHas(p.o, fam) -> p
    [] bad.call = "route" -> gateway
    [] OTHER -> install_wan_filtering_rule(
                  [gateway EXCEPT !.o.active[fam] = TRUE,
                                  !.t = config_wan_firewall_rule(p.t, fam, bad)], FALSE, bad)

\* handle_route_del_evt_ex, which may fail for IPv6.
PdnRouteGone(o, fam, bad) ==
  [o EXCEPT !.is_default_gateway = FALSE, !.active[fam] = @ /\ fam = "v6" /\ bad.call = "route"]

PdnRouteDel(p, fam, bad) ==
  LET told == install_wan_filtering_rule([p EXCEPT !.t = del_wan_firewall_rule(p.t, fam)], FALSE, bad)
  IN  IF p.o.active[fam] THEN [told EXCEPT !.o = PdnRouteGone(told.o, fam, bad)] ELSE p

\* handle_down_evt_ex.  A connection with one IPv6 address is not counted
\* out; the table is emptied with the last connection counted.
CountOut(p, fam) ==
  IF fam = "v4" \/ p.o.num_dft_rt_v6 > 1 THEN [p EXCEPT !.t.num_modem_pdn[fam] = @ - 1] ELSE p
Empty(p, fam, bad) ==
  IF p.t.num_modem_pdn[fam] # 0 THEN p
  ELSE install_wan_filtering_rule(
         [p EXCEPT !.t.num_flt_rule[fam] = 0, !.t.rules[fam] = << >>], FALSE, bad)
PdnDown(p, bad) ==
  LET fams    == SelectSeq(<<"v4", "v6">>, LAMBDA fam : PdnHas(p.o, fam))
      counted == FoldLeft(CountOut, p, fams)
      freed   == [counted EXCEPT !.t = FoldLeft(del_wan_firewall_rule, @, fams)]
      gone    == IF p.o.is_default_gateway /\ fams # << >>
                 THEN install_wan_filtering_rule(freed, FALSE, bad) ELSE counted
  IN  [FoldLeft(LAMBDA q, fam : Empty(q, fam, bad), gone, fams) EXCEPT !.o = [NewPdn EXCEPT !.here = FALSE]]

\* IPA_FIREWALL_CHANGE_EVENT: every family of the default gateway, also one
\* it is not the upstream of.
PdnFirewall(p, bad) ==
  LET fams == SelectSeq(<<"v4", "v6">>, LAMBDA fam : PdnHas(p.o, fam))
      Again(t, fam) == config_wan_firewall_rule(del_wan_firewall_rule(t, fam), fam, bad)
  IN  IF ~p.o.is_default_gateway \/ fams = << >> THEN p
      ELSE install_wan_filtering_rule([p EXCEPT !.t = FoldLeft(Again, @, fams)], FALSE, bad)

(***************************************************************************)
(* The station.                                                            *)
(***************************************************************************)
AddEntries(s, fam, bad) ==
  LET n == Len(EntryRules(fam, firewallFile)) IN
  CASE ~firewallFile.enable \/ n = 0 -> s
    [] bad.call = KindOf("entries", fam) -> [s EXCEPT !.ok = FALSE]
    [] OTHER -> [s EXCEPT !.entries[fam] = @ + n, !.num_firewall[fam] = @ + n,
                          !.held[fam] = IF @ > n THEN @ ELSE n]

\* The rules around the entries.
PipeRules(fam) == IF fam = "v6" THEN <<"icmp6", "rest6">> ELSE <<"rest4">>

\* Rules are added one by one, up to the first that is refused.
config_dft_firewall_rules(s, fam, bad) ==
  LET Add(t, kind) == IF t.ok THEN AddRules(t, kind, bad.call) ELSE t
      frag  == IF fam = "v6" /\ firewallFile.enable THEN AddRules(s, "frag6", bad.call)
               ELSE [s EXCEPT !.ok = TRUE]
      named == IF frag.ok THEN AddEntries(frag, fam, bad) ELSE frag
  IN  FoldLeft(Add, named, PipeRules(fam))

\* As many handles as are counted are given to the driver, which deletes
\* the rules there are and fails when a handle has none.
DeleteEntries(s, fam, bad) ==
  CASE s.num_firewall[fam] > IPACM_MAX_FIREWALL_ENTRIES -> [s EXCEPT !.ok = FALSE]
    [] s.num_firewall[fam] = 0 -> [s EXCEPT !.ok = TRUE]
    [] bad.call = KindOf("entries", fam) -> [s EXCEPT !.ok = FALSE]
    [] OTHER -> [s EXCEPT !.entries[fam] = @ - s.held[fam], !.held[fam] = 0,
                          !.ok = (s.num_firewall[fam] = s.held[fam])]

\* A failure returns with the counts as they were, except that the deletion
\* of the fragment rule may fail.
del_dft_firewall_rules(s, fam, bad) ==
  LET named == DeleteEntries(s, fam, bad)
      gone  == DeleteInTurn(named, Reverse(PipeRules(fam)), bad.call)
      frag  == IF fam = "v6" THEN DeleteRules(gone, "frag6", bad.call) ELSE gone
  IN  CASE ~s.active[fam] -> s
        [] ~named.ok -> named
        [] ~gone.ok -> gone
        [] OTHER -> [frag EXCEPT !.num_firewall[fam] = 0]

StationRouteAdd(s, fam, bad) ==
  IF s.active[fam] \/ bad.call = "route" THEN s
  ELSE config_dft_firewall_rules([s EXCEPT !.active[fam] = TRUE], fam, bad)

StationRouteDel(s, fam, bad) ==
  IF ~s.active[fam] THEN s
  ELSE [del_dft_firewall_rules(s, fam, bad) EXCEPT !.active[fam] = bad.call = "route"]

StationFirewall(s, bad) ==
  LET Again(t, fam) ==
        IF t.active[fam] THEN config_dft_firewall_rules(del_dft_firewall_rules(t, fam, bad), fam, bad) ELSE t
  IN  FoldLeft(Again, s, <<"v4", "v6">>)

StationDown(s, bad) ==
  FoldLeft(LAMBDA t, fam : StationRouteDel(t, fam, bad), s, <<"v4", "v6">>)

(***************************************************************************)
(* IPACM_Wan::event_callback of a connection and of the station.           *)
(***************************************************************************)
PdnCallback(p, w, e, bad) ==
  CASE e.name = "address" /\ e.of = w -> PdnAddress(p, e.fam, bad)
    [] e.name = "upstreamAdd" /\ e.of = w -> PdnRouteAdd(p, e.fam, bad)
    [] e.name = "upstreamAdd" \/ (e.name = "upstreamDel" /\ e.of = w) -> PdnRouteDel(p, e.fam, bad)
    [] e.name = "down" /\ e.of = w -> PdnDown(p, bad)
    [] e.name = "firewall" -> PdnFirewall(p, bad)
    [] e.name = "softwareOn" -> install_wan_filtering_rule(p, TRUE, bad)
    [] e.name = "softwareOff" ->
         [install_wan_filtering_rule(p, FALSE, bad) EXCEPT !.o.softwarerouting_act = FALSE]
    [] OTHER -> p

StationCallback(s, e, bad) ==
  CASE e.name = "upstreamAdd" /\ e.of = "STA" -> StationRouteAdd(s, e.fam, bad)
    [] e.name = "upstreamAdd" \/ (e.name = "upstreamDel" /\ e.of = "STA") -> StationRouteDel(s, e.fam, bad)
    [] e.name = "down" /\ e.of = "STA" -> [StationDown(s, bad) EXCEPT !.here = FALSE]
    [] e.name = "firewall" -> StationFirewall(s, bad)
    [] e.name = "softwareOn" -> handle_software_routing_enable(s, bad.call)
    [] e.name = "softwareOff" -> handle_software_routing_disable(s, bad.call)
    [] OTHER -> s

(***************************************************************************)
(* An event goes through the objects in order.                             *)
(***************************************************************************)
Before(w, v) == \E i, j \in DOMAIN filterOrder : i < j /\ filterOrder[i] = w /\ filterOrder[j] = v

\* The two ways the code loses track of who has the firewall: the new
\* default gateway is served before the old one, which then removes the
\* rules they share ("order"); and a connection's one is_default_gateway is
\* wrong for one of its families ("gateway").
Mistaken(os, q, fam) ==
  \/ os[q].active[fam] /\ ~os[q].is_default_gateway
  \/ /\ os[q].is_default_gateway /\ PdnHas(os[q], fam) /\ ~os[q].active[fam]
     /\ \E w \in Pdns : os[w].active[fam]

Hitches(e, after, bad) ==
  hitches
  \cup {h \in {"order"} : /\ e.name = "upstreamAdd"
                          /\ \E q \in Pdns : pdns[q].active[e.fam] /\ Before(e.of, q)}
  \cup {h \in {"gateway"} : \E q \in Pdns, fam \in Families : Mistaken(after, q, fam)}
  \cup {h \in {"refused"} : bad.call \notin {"none", "tell", "build"}}

DispatchFilterEvent(e, bad) ==
  LET Step(a, w) ==
        LET p == PdnCallback([o |-> a.pdns[w], t |-> a.table], w, e, bad)
        IN  IF w = "STA" THEN [a EXCEPT !.station = StationCallback(@, e, bad)]
            ELSE [a EXCEPT !.pdns[w] = p.o, !.table = p.t]
      all == FoldLeft(Step, [pdns |-> pdns, table |-> table, station |-> station], filterOrder)
  IN  /\ pdns' = all.pdns /\ table' = all.table /\ station' = all.station
      /\ filterOrder' = IF e.name = "down" THEN SelectSeq(filterOrder, LAMBDA w : w # e.of) ELSE filterOrder
      /\ hitches' = Hitches(e, all.pdns, bad)

\* What the driver may refuse during an event, of the objects that handle it.
FilterRefusals(e) ==
  LET modem == \E w \in Pdns : pdns[w].here /\ (PdnHas(pdns[w], "v4") \/ PdnHas(pdns[w], "v6") \/ e.of = w)
      wifi  == station.here /\ (TRUE \in Range(station.active) \/ e.of = "STA")
  IN  {NoBad}
      \cup (IF modem THEN {Bad("tell", 0)} \cup {Bad("build", at) : at \in BuildFailures} ELSE {})
      \cup (IF wifi THEN {Bad(k, 0) : k \in StationRules \cup {"entries4", "entries6"}} ELSE {})
      \cup (IF e.name \in {"address", "upstreamAdd", "upstreamDel", "down"} THEN {Bad("route", 0)} ELSE {})

\* Outside events and refused calls are counted.
Counted(n) == filterEvents + n <= MaxFilterEvents /\ filterEvents' = filterEvents + n
Cost(bad) == IF bad = NoBad THEN 0 ELSE 1

\* Addresses and the end of a link from netlink, upstream routes from the
\* framework.
NetworkEvent(e, bad) ==
  /\ e \in outsideFilter /\ e.name \in {"address", "upstreamAdd", "upstreamDel", "down"}
  /\ e.of \in Range(filterOrder) /\ Counted(1 + Cost(bad))
  /\ DispatchFilterEvent(e, bad)
  /\ UNCHANGED <<firewallFile, ipa_sw_rt_enable, notices, outsideFilter>>

\* A link that is up is a new object at the end of the list.
LinkUp(w) ==
  /\ w \notin Range(filterOrder)
  /\ filterOrder' = Append(filterOrder, w)
  /\ IF w = "STA" THEN /\ \E frag \in {"zero", "stale"} : station' = NewStation(frag)
                       /\ UNCHANGED pdns
     ELSE pdns' = [pdns EXCEPT ![w] = NewPdn] /\ UNCHANGED station
  /\ UNCHANGED <<table, firewallFile, ipa_sw_rt_enable, notices, outsideFilter, filterEvents, hitches>>

\* The user: the firewall file changes, and the watcher posts the event; the
\* signal handler sets the flag of software routing, and posts the event.
UserChange(e) ==
  /\ e \in outsideFilter /\ e.name \in {"firewall", "softwareOn", "softwareOff"}
  /\ Counted(1)
  /\ IF e.name = "firewall" THEN firewallFile' \in FirewallFiles \ {firewallFile} ELSE UNCHANGED firewallFile
  /\ ipa_sw_rt_enable' = CASE e.name = "softwareOn" -> TRUE [] e.name = "softwareOff" -> FALSE
                           [] OTHER -> ipa_sw_rt_enable
  /\ notices' = Append(notices, e)
  /\ UNCHANGED <<pdns, station, table, filterOrder, outsideFilter, hitches>>

ProcessNotice(bad) ==
  /\ notices # << >> /\ Counted(Cost(bad))
  /\ DispatchFilterEvent(Head(notices), bad)
  /\ notices' = Tail(notices)
  /\ UNCHANGED <<firewallFile, ipa_sw_rt_enable, outsideFilter>>

FiltersInit ==
  /\ pdns = [w \in Pdns |-> NewPdn]
  /\ station = [NewStation("zero") EXCEPT !.here = FALSE]
  /\ table = [rules |-> [fam \in Families |-> << >>], num_flt_rule |-> [fam \in Families |-> 0],
              num_modem_pdn |-> [fam \in Families |-> 0], told |-> [fam \in Families |-> << >>],
              lost |-> FALSE, poor |-> FALSE]
  /\ filterOrder = SetToSeq(Pdns)
  /\ firewallFile \in FirewallFiles
  /\ ipa_sw_rt_enable = FALSE
  /\ notices = << >>
  /\ outsideFilter \in FilterScenarios
  /\ filterEvents = 0
  /\ hitches = {}

FiltersNext ==
  \/ \E e \in outsideFilter : \E bad \in FilterRefusals(e) : NetworkEvent(e, bad)
  \/ \E w \in {e.of : e \in outsideFilter} \cap (Pdns \cup {"STA"}) : LinkUp(w)
  \/ \E e \in outsideFilter : UserChange(e)
  \/ notices # << >> /\ \E bad \in FilterRefusals(Head(notices)) : ProcessNotice(bad)

-------------------------------------------------------------------------------
PdnWith(fam) == \E w \in Pdns : PdnHas(pdns[w], fam)

\* What the modem has of a family: its default rules with or without the
\* rules of a firewall.
WithFirewall(fam, file) == DefaultRules(fam) \o IcmpAlgRules(fam) \o FirewallRules(fam, file)

\* Once the user's events are handled, and unless a call failed, the modem
\* has exactly one whole table: the software-routing rule of each family
\* while software routing is on; otherwise the default rules of a family for
\* as long as any connection has an address of it, however many come and go,
\* followed by a whole firewall or nothing, no IPv4 rule when no connection
\* has IPv4, and the firewall of the current file while a connection is the
\* upstream (except where the code lost track, see Hitches)
\* (init_fl_rule_ex, config_wan_firewall_rule, handle_down_evt_ex,
\* install_wan_filtering_rule).
ModemRulesMatch ==
  notices = << >> /\ ~table.lost /\ ~table.poor /\ (\E fam \in Families : PdnWith(fam)) =>
    IF ipa_sw_rt_enable THEN table.told = SoftwareRules
    ELSE \A fam \in Families :
           LET has == Reverse(table.told[fam]) IN
           /\ PdnWith(fam) => has \in {DefaultRules(fam)} \cup {WithFirewall(fam, f) : f \in FirewallFiles}
           /\ fam = "v4" /\ ~PdnWith("v4") => has = << >>
           /\ hitches = {} /\ (\E w \in Pdns : pdns[w].active[fam])
                => has = WithFirewall(fam, firewallFile)

\* Unless a call failed, the station's pipe has the rules of the current
\* firewall file once while it is the upstream of the family, and
\* none of them otherwise, the fragment rule of an earlier file included
\* (config_dft_firewall_rules, del_dft_firewall_rules).
StationRulesMatch ==
  notices = << >> /\ "refused" \notin hitches =>
    \A fam \in Families :
      LET on == IF station.active[fam] THEN 1 ELSE 0
          enabled == IF firewallFile.enable THEN on ELSE 0
      IN  /\ station.hw[KindOf("rest", fam)] = on
          /\ station.entries[fam] = enabled * Len(EntryRules(fam, firewallFile))
          /\ fam = "v6" => station.hw["icmp6"] = on /\ station.hw["frag6"] = enabled

\* Both: what filters the downlink is what the addresses, the upstream, the
\* firewall file and software routing call for, at the modem and in the
\* station's pipe.
DownlinkMatches == ModemRulesMatch /\ StationRulesMatch

===============================================================================
