---------------------------- MODULE IfaceClients ----------------------------
(***************************************************************************)
(* The clients of an interface of IPACM: the array eth_client, wlan_client *)
(* or wan_client of IPACM_Lan, IPACM_Wlan and IPACM_Wan (data-ipa-cfg-mgr/ *)
(* ipacm/src), and the header and route rule handles its entries hold.     *)
(*                                                                         *)
(* The three classes have the same array and nearly the same code; kind    *)
(* says which one the interface is.  The driver is the bag hdr of headers  *)
(* and the bag rt of route rules; a handle is what it is the handle of, so *)
(* that an entry nobody holds shows as a copy too many.  The add calls may *)
(* fail.  Of the conntrack listener and of NatApp the module keeps the     *)
(* addresses announced to them and the ones in power save.                 *)
(*                                                                         *)
(* One property of the pipe per IP family is assumed (num_tx_props), one   *)
(* access point, and interfaces that are NATed.  Filter rules and the      *)
(* rules of the interface's own addresses are not part of this module.     *)
(* Events to LAN-to-LAN have no listener in this build and are left out.   *)
(***************************************************************************)
EXTENDS Integers, Sequences, FiniteSets, SequencesExt

CONSTANTS
    Kinds,      \* subset of {"eth", "wlan", "wan"}
    Macs,
    V4Addrs, V6Addrs,
    MaxClients, \* IPA_MAX_NUM_{ETH,WIFI,WAN}_CLIENTS
    MaxV6,      \* IPV6_NUM_ADDR
    LossyKinds, \* bound: the kinds whose driver calls may fail
    MaxFail,    \* bound: one call fails, among the first MaxFail of a handler
    MaxCopies,  \* bound: copies of an entry the driver has room for
    NoAddr, NoHdr

ASSUME KindsAssumption == Kinds \subseteq {"eth", "wlan", "wan"} /\ LossyKinds \subseteq Kinds
ASSUME ClientsAssumption == /\ MaxClients \in Nat \ {0}
                            /\ MaxV6 \in Nat
                            /\ MaxFail \in Nat
                            /\ MaxCopies \in Nat \ {0}
                            /\ NoAddr \notin V4Addrs

VARIABLES
    kind,
    is_active,
    ip_type,    \* the families with an address: {} is IPACM_IP_NULL
    clients,    \* the array up to num_*_client
    hdr, rt,    \* of the driver: headers, route rules
    rm,         \* the dependency on the consumer pipe is held
    announced,  \* addresses the conntrack listener was told of
    PwrSaveIfs, \* of NatApp
    asleep,     \* the clients the driver reported to be in power save
    lossy       \* an add call failed, or the link went down without address

vars == <<kind, is_active, ip_type, clients, hdr, rt, rm, announced, PwrSaveIfs,
          asleep, lossy>>

Fams == {"v4", "v6"}
Addrs(fam) == IF fam = "v4" THEN V4Addrs ELSE V6Addrs
Hdrs == [mac : Macs, fam : Fams]
\* Rules of rt_tbl_lan_v4 or rt_tbl_wan_v4, rt_tbl_v6 and rt_tbl_wan_v6.
V4Rules == [dst : V4Addrs, hdr : [mac : Macs, fam : {"v4"}]]
V6Rules == [dst : V6Addrs, hdr : [mac : Macs, fam : {"v6"}] \cup {NoHdr}]
Rules == V4Rules \cup V6Rules

(***************************************************************************)
(* The handlers are operators on a record of the state.  fail says which   *)
(* of the add calls that follow fails (0: none), ok whether the last call  *)
(* succeeded.                                                              *)
(***************************************************************************)
Now(f) == [cl |-> clients, hdr |-> hdr, rt |-> rt, rm |-> rm, ann |-> announced,
           pwr |-> PwrSaveIfs, lossy |-> lossy, fail |-> f, ok |-> TRUE]

Become(s) ==
    /\ clients' = s.cl /\ hdr' = s.hdr /\ rt' = s.rt /\ rm' = s.rm
    /\ announced' = s.ann /\ PwrSaveIfs' = s.pwr /\ lossy' = s.lossy
    /\ UNCHANGED <<kind, is_active, ip_type>>

CallFails(s, copies) == s.fail = 1 \/ copies = MaxCopies
Failed(s) == [s EXCEPT !.ok = FALSE, !.lossy = TRUE, !.fail = 0]
Called(s) == [s EXCEPT !.ok = TRUE, !.fail = IF @ = 0 THEN 0 ELSE @ - 1]

AddHeader(s, h) ==
    IF CallFails(s, s.hdr[h]) THEN Failed(s) ELSE [Called(s) EXCEPT !.hdr[h] = @ + 1]

AddRoutingRule(s, r) ==
    IF CallFails(s, s.rt[r]) THEN Failed(s) ELSE [Called(s) EXCEPT !.rt[r] = @ + 1]

Minus(bag, S) == [x \in DOMAIN bag |-> IF x \in S /\ bag[x] > 0 THEN bag[x] - 1 ELSE bag[x]]
DeleteRoutingHdls(s, H) == [s EXCEPT !.rt = Minus(@, H)]
DeleteHeaderHdls(s, H) == [s EXCEPT !.hdr = Minus(@, H)]

(***************************************************************************)
(* The conntrack listener and NatApp.                                      *)
(***************************************************************************)
Announce(s, a) ==
    IF a \in s.ann THEN s
    ELSE [s EXCEPT !.ann = @ \cup {a}, !.pwr = @ \ {a}]

Withdraw(s, a) == [s EXCEPT !.ann = @ \ {a}, !.pwr = @ \ {a}]

(***************************************************************************)
(* The array.                                                              *)
(***************************************************************************)
Indices(s, m) == {i \in DOMAIN s.cl : s.cl[i].mac = m}
ClientIndex(s, m) == CHOOSE i \in Indices(s, m) : \A j \in Indices(s, m) : i <= j

NewClient(m, h4, h6) ==
    [mac |-> m, hdr_hdl_v4 |-> h4, hdr_hdl_v6 |-> h6, v4_addr |-> NoAddr,
     v6_addr |-> <<>>, rt_v4 |-> {}, rt_v6 |-> <<>>, power_save_set |-> FALSE]

Header(m, fam) == [mac |-> m, fam |-> fam]

\* IPACM_Wlan does not ask whether the client is known already.  When the v6
\* header cannot be added the v4 one stays behind.
HdrInit(s, m) ==
    LET a == AddHeader(s, Header(m, "v4"))
        b == AddHeader(a, Header(m, "v6"))
    IN  IF Len(s.cl) >= MaxClients \/ (kind # "wlan" /\ Indices(s, m) # {}) THEN s
        ELSE IF ~a.ok THEN a
        ELSE IF ~b.ok THEN b
        ELSE [b EXCEPT !.cl = Append(@, NewClient(m, Header(m, "v4"), Header(m, "v6")))]

V6Handles(c) == UNION {{p.v6, p.wan} : p \in ToSet(c.rt_v6)}

\* delete_eth_rtrules, delete_default_qos_rtrules, delete_wan_rtrules.
DeleteRtRules(s, i, fam) ==
    IF fam = "v4"
    THEN [DeleteRoutingHdls(s, s.cl[i].rt_v4) EXCEPT !.cl[i].rt_v4 = {}]
    ELSE [DeleteRoutingHdls(s, V6Handles(s.cl[i])) EXCEPT !.cl[i].rt_v6 = <<>>]

\* Whether handle_*_client_ipaddr takes the address or returns IPACM_FAILURE.
TakesAddr(c, fam, a) ==
    IF fam = "v4" THEN c.v4_addr # a
    ELSE Len(c.v6_addr) < MaxV6 /\ a \notin ToSet(c.v6_addr)

\* Mutant of ClientIpaddr: the listener is not told that the old address is gone.
ClientIpaddr_KeepsOld(s, i, fam, a) ==
    IF fam = "v6" THEN [s EXCEPT !.cl[i].v6_addr = Append(@, a)]
    ELSE LET u == [DeleteRtRules(s, i, "v4") EXCEPT !.cl[i].v4_addr = a]
         IN  IF kind = "wan" THEN Announce(u, a) ELSE u

ClientIpaddr(s, i, fam, a) ==
    IF fam = "v6" THEN [s EXCEPT !.cl[i].v6_addr = Append(@, a)]
    ELSE LET old == s.cl[i].v4_addr
             t == IF old = NoAddr THEN s ELSE DeleteRtRules(Withdraw(s, old), i, "v4")
             u == [t EXCEPT !.cl[i].v4_addr = a]
         IN  IF kind = "wan" THEN Announce(u, a) ELSE u

\* The two rules of v6 address a, unless an earlier call of the loop failed;
\* the first one is lost when the second cannot be added.
AddV6Rules(s, i, a) ==
    LET r == [v6 |-> [dst |-> a, hdr |-> NoHdr], wan |-> [dst |-> a, hdr |-> s.cl[i].hdr_hdl_v6]]
        x == AddRoutingRule(s, r.v6)
        y == AddRoutingRule(x, r.wan)
    IN  IF ~s.ok THEN s
        ELSE IF ~x.ok THEN x
        ELSE IF ~y.ok THEN y
        ELSE [y EXCEPT !.cl[i].rt_v6 = Append(@, r)]

\* The rules for the addresses that have none yet.  route_rule_set_v6 is only
\* advanced when all of them were added: the handles of a partial loop are lost.
AddMissingV6Rules(s, i) ==
    LET c == s.cl[i]
        t == FoldLeft(LAMBDA u, a : AddV6Rules(u, i, a), [s EXCEPT !.ok = TRUE],
                      SubSeq(c.v6_addr, Len(c.rt_v6) + 1, Len(c.v6_addr)))
    IN  IF t.ok THEN t ELSE [t EXCEPT !.cl[i].rt_v6 = c.rt_v6]

AddV4Rule(s, i) ==
    LET r == [dst |-> s.cl[i].v4_addr, hdr |-> s.cl[i].hdr_hdl_v4]
        t == AddRoutingRule(s, r)
    IN  IF t.ok THEN [t EXCEPT !.cl[i].rt_v4 = {r}] ELSE t

\* LAN and WAN interfaces ask for the pipe's resource before they use it.
RouteRules(s, i, fam) ==
    LET c == s.cl[i]
        t == [s EXCEPT !.rm = @ \/ kind # "wlan"]
    IN  IF fam = "v4" /\ c.v4_addr # NoAddr /\ c.rt_v4 = {} THEN AddV4Rule(t, i)
        ELSE IF fam = "v6" /\ Len(c.rt_v6) < Len(c.v6_addr) THEN AddMissingV6Rules(t, i)
        ELSE s

\* Mutant of RouteRule: no rules for the v6 addresses after the first.
RouteRule_FirstV6(s, i, fam) ==
    IF fam = "v6" /\ Len(s.cl[i].rt_v6) > 0 THEN s ELSE RouteRules(s, i, fam)

\* handle_*_client_route_rule.
RouteRule(s, i, fam) ==
    IF s.cl[i].power_save_set THEN s ELSE RouteRules(s, i, fam)

\* All that is installed for client i is deleted.
CleanClient(s, i) ==
    LET t == IF s.cl[i].v4_addr = NoAddr THEN s ELSE Withdraw(s, s.cl[i].v4_addr)
        u == DeleteRtRules(DeleteRtRules(t, i, "v4"), i, "v6")
    IN  DeleteHeaderHdls(u, {u.cl[i].hdr_hdl_v4, u.cl[i].hdr_hdl_v6})

\* Mutant of Compact: the handle of the v6 header is not moved.
Compact_KeepsHeader(cl, i) ==
    [j \in 1 .. Len(cl) - 1 |->
        IF j < i THEN cl[j]
        ELSE [cl[j + 1] EXCEPT !.hdr_hdl_v6 = cl[j].hdr_hdl_v6,
                               !.power_save_set = cl[j].power_save_set]]

\* The entries behind i move up; power_save_set is not moved with them.
Compact(cl, i) ==
    [j \in 1 .. Len(cl) - 1 |->
        IF j < i THEN cl[j]
        ELSE [cl[j + 1] EXCEPT !.power_save_set = cl[j].power_save_set]]

\* handle_eth_client_down_evt, handle_wlan_client_down_evt.
ClientDown(s, i) ==
    LET t == CleanClient(s, i) IN
    [t EXCEPT !.cl = Compact(@, i),
              !.rm = @ /\ ~(kind = "eth" /\ Len(s.cl) = 1)]

Init ==
    /\ kind \in Kinds
    /\ is_active = TRUE /\ ip_type = {}
    /\ clients = <<>> /\ hdr = [h \in Hdrs |-> 0] /\ rt = [r \in Rules |-> 0]
    /\ rm = FALSE /\ announced = {} /\ PwrSaveIfs = {}
    /\ asleep = {} /\ lossy = FALSE

\* Bound: one failing call, or one link going down without address.
MayLose == ~lossy /\ kind \in LossyKinds
Calls == IF MayLose THEN 0 .. MaxFail ELSE {0}

\* handle_*_client_ipaddr, then the rules, then the listener is told.
AddrRules(s, m, fam, a) ==
    IF Indices(s, m) = {} \/ ~TakesAddr(s.cl[ClientIndex(s, m)], fam, a) THEN s
    ELSE LET i == ClientIndex(s, m)
             t == RouteRule(ClientIpaddr(s, i, fam, a), i, fam)
         IN  IF fam = "v4" /\ kind # "wan" THEN Announce(t, a) ELSE t

\* IPA_NEIGH_CLIENT_IP_ADDR_ADD_EVENT.  A LAN or WAN interface learns of a
\* client by its first address, an access point when it associates.
NeighAdd(m, fam, a, f) ==
    /\ is_active
    /\ Become(AddrRules(IF kind = "wlan" THEN Now(f) ELSE HdrInit(Now(f), m), m, fam, a))
    /\ UNCHANGED asleep

\* IPA_NEIGH_CLIENT_IP_ADDR_DEL_EVENT of IPACM_Lan: the client is dropped,
\* with all its addresses.
EthNeighDel(m) ==
    /\ is_active /\ kind = "eth"
    /\ Indices(Now(0), m) # {}
    /\ Become(ClientDown(Now(0), ClientIndex(Now(0), m)))
    /\ UNCHANGED asleep

\* IPA_WLAN_CLIENT_ADD_EVENT_EX and IPA_WLAN_CLIENT_DEL_EVENT.
WlanClientAdd(m, f) ==
    /\ is_active /\ kind = "wlan"
    /\ Become(HdrInit(Now(f), m))
    /\ asleep' = asleep \ {m}

WlanClientDel(m) ==
    /\ is_active /\ kind = "wlan"
    /\ Indices(Now(0), m) # {}
    /\ Become(ClientDown(Now(0), ClientIndex(Now(0), m)))
    /\ asleep' = asleep \ {m}

\* IPA_WLAN_CLIENT_POWER_SAVE_EVENT.
WlanPowerSave(m) ==
    LET i == ClientIndex(Now(0), m)
        c == clients[i]
        s == [Now(0) EXCEPT !.pwr = @ \cup ({c.v4_addr} \ {NoAddr})]
        t == DeleteRtRules(DeleteRtRules(s, i, "v4"), i, "v6")
    IN
    /\ is_active /\ kind = "wlan"
    /\ Indices(Now(0), m) # {}
    /\ Become(IF c.power_save_set THEN Now(0)
              ELSE [t EXCEPT !.cl[i].power_save_set = TRUE])
    /\ asleep' = asleep \cup {m}

\* IPA_WLAN_CLIENT_RECOVER_EVENT.
WlanRecover(m, f) ==
    LET i == ClientIndex(Now(f), m)
        c == clients[i]
        s == [Now(f) EXCEPT !.cl[i].power_save_set = FALSE]
        t == [RouteRule(s, i, "v4") EXCEPT !.pwr = @ \ {c.v4_addr}]
    IN
    /\ is_active /\ kind = "wlan"
    /\ Indices(Now(f), m) # {}
    /\ Become(IF c.power_save_set THEN RouteRule(t, i, "v6") ELSE Now(0))
    /\ asleep' = asleep \ {m}

(***************************************************************************)
(* The interface.                                                          *)
(***************************************************************************)
\* IPA_ADDR_ADD_EVENT, as far as it concerns clients.
AddrAdd(fam) ==
    /\ is_active
    /\ ip_type' = ip_type \cup {fam}
    /\ UNCHANGED <<kind, is_active, clients, hdr, rt, rm, announced, PwrSaveIfs, asleep,
                   lossy>>

\* The turn of handle_wlan_client_reset_rt for client i.  Posting the message
\* fails for an interface without v6 address, which ends the loop (ok = FALSE).
WlanResetClient(s, i) ==
    LET t == DeleteRtRules(s, i, "v6") IN
    IF ~s.ok THEN s
    ELSE IF s.cl[i].v6_addr # <<>> /\ "v6" \notin ip_type THEN [t EXCEPT !.ok = FALSE]
    ELSE [t EXCEPT !.cl[i].v6_addr = <<>>]

EthResetClient(s, i) == [DeleteRtRules(s, i, "v6") EXCEPT !.cl[i].v6_addr = <<>>]

\* The v6 part of IPA_HANDLE_WAN_DOWN_V6_TETHER: handle_lan_client_reset_rt,
\* handle_wlan_client_reset_rt.
WanDownV6 ==
    /\ is_active /\ kind # "wan"
    /\ Become(FoldLeft(LAMBDA s, i : IF kind = "eth" THEN EthResetClient(s, i)
                                     ELSE WlanResetClient(s, i),
                       Now(0), [i \in DOMAIN clients |-> i]))
    /\ UNCHANGED asleep

\* handle_down_evt.  An interface without address closes directly: what its
\* clients had installed stays behind.
LinkDown ==
    LET s == FoldLeft(CleanClient, Now(0), [i \in DOMAIN clients |-> i]) IN
    /\ is_active
    /\ is_active' = FALSE
    /\ clients' = <<>> /\ asleep' = {} /\ ip_type' = {}
    /\ \/ /\ ip_type = {}
          /\ MayLose \/ clients = <<>>
          /\ lossy' = (lossy \/ clients # <<>>)
          /\ rm' = (rm /\ kind # "wan")
          /\ UNCHANGED <<hdr, rt, announced, PwrSaveIfs>>
       \/ /\ ip_type # {}
          /\ hdr' = s.hdr /\ rt' = s.rt /\ announced' = s.ann /\ PwrSaveIfs' = s.pwr
          /\ rm' = FALSE
          /\ UNCHANGED lossy
    /\ UNCHANGED kind

LinkUp ==
    /\ ~is_active
    /\ is_active' = TRUE
    /\ UNCHANGED <<kind, ip_type, clients, hdr, rt, rm, announced, PwrSaveIfs, asleep, lossy>>

Next ==
    \/ \E m \in Macs, f \in Calls :
          \/ \E fam \in Fams : \E a \in Addrs(fam) : NeighAdd(m, fam, a, f)
          \/ WlanClientAdd(m, f)
          \/ WlanRecover(m, f)
    \/ \E m \in Macs : EthNeighDel(m) \/ WlanClientDel(m) \/ WlanPowerSave(m)
    \/ \E fam \in Fams : AddrAdd(fam)
    \/ WanDownV6
    \/ LinkDown
    \/ LinkUp

Spec == Init /\ [][Next]_vars

(***************************************************************************)
(* Properties.                                                             *)
(***************************************************************************)
Client == [mac : Macs, hdr_hdl_v4 : Hdrs, hdr_hdl_v6 : Hdrs, v4_addr : V4Addrs \cup {NoAddr},
           v6_addr : Seq(V6Addrs), rt_v4 : SUBSET V4Rules,
           rt_v6 : Seq([v6 : V6Rules, wan : V6Rules]), power_save_set : BOOLEAN]

\* The array of clients, the addresses of a client and the handles of its rules
\* stay within the bounds of their arrays.
TypeOK ==
    /\ kind \in Kinds /\ ip_type \subseteq Fams
    /\ {is_active, rm, lossy} \subseteq BOOLEAN
    /\ clients \in Seq(Client) /\ Len(clients) <= MaxClients
    /\ \A i \in DOMAIN clients : /\ Len(clients[i].rt_v6) <= Len(clients[i].v6_addr)
                                 /\ Len(clients[i].v6_addr) <= MaxV6
    /\ hdr \in [Hdrs -> 0 .. MaxCopies] /\ rt \in [Rules -> 0 .. MaxCopies]
    /\ announced \subseteq V4Addrs /\ PwrSaveIfs \subseteq V4Addrs /\ asleep \subseteq Macs

HandlesOf(c) == c.rt_v4 \cup V6Handles(c)
HeadersOf(c) == {c.hdr_hdl_v4, c.hdr_hdl_v6}
RuleHolders(r) == Cardinality({i \in DOMAIN clients : r \in HandlesOf(clients[i])})
HdrHolders(h) == Cardinality({i \in DOMAIN clients : h \in HeadersOf(clients[i])})

\* Every rule a client holds a handle of is installed, for an address the
\* client has now and with the client's own header; its two headers are
\* installed too.  So no delete in the client-down, address-change, power-save
\* and link-down paths is refused or hits another client's rule, also after
\* failed calls and after the array was compacted.
RecordedAreInstalled ==
    /\ \A c \in ToSet(clients) :
          /\ c.hdr_hdl_v4 = Header(c.mac, "v4") /\ c.hdr_hdl_v6 = Header(c.mac, "v6")
          /\ \A r \in c.rt_v4 : r = [dst |-> c.v4_addr, hdr |-> c.hdr_hdl_v4]
          /\ \A k \in DOMAIN c.rt_v6 :
                /\ c.rt_v6[k].v6 = [dst |-> c.v6_addr[k], hdr |-> NoHdr]
                /\ c.rt_v6[k].wan = [dst |-> c.v6_addr[k], hdr |-> c.hdr_hdl_v6]
    /\ \A r \in Rules : RuleHolders(r) <= rt[r]
    /\ \A h \in Hdrs : HdrHolders(h) <= hdr[h]

\* Every installed header and route rule is held by a client, so that nothing
\* outlives the client or the interface, unless an add call failed half way or
\* the interface closed without ever having had an address.
NothingLeaks ==
    lossy \/ /\ \A r \in Rules : RuleHolders(r) = rt[r]
             /\ \A h \in Hdrs : HdrHolders(h) = hdr[h]

\* On LAN and WAN interfaces every address of a client is routed, whatever order
\* its addresses, address changes and WAN events came in.
AddressesRouted ==
    lossy \/ kind = "wlan" \/ \A c \in ToSet(clients) :
        /\ c.v4_addr # NoAddr => c.rt_v4 # {}
        /\ Len(c.rt_v6) = Len(c.v6_addr)

\* The resource of the pipe is held as long as a client of a LAN or WAN interface
\* has rules that send to it; the resource is dropped with the last client only.
ResourceHeld ==
    kind # "wlan" /\ ~rm => \A c \in ToSet(clients) : HandlesOf(c) = {}

\* The records of the clients and the hardware agree in both directions, within the
\* arrays the records are kept in, and the pipe's resource is held while the rules
\* of a client send to it.
RecordsMatchHardware == TypeOK /\ RecordedAreInstalled /\ NothingLeaks /\ ResourceHeld

\* The conntrack listener and NatApp know only addresses that a client has now:
\* address changes, power save, clients leaving and the link going down withdraw
\* what was announced.
AnnouncedHaveClients ==
    lossy \/ announced \cup PwrSaveIfs \subseteq {c.v4_addr : c \in ToSet(clients)}

\* "during power_save mode, even receive IP_ADDR_ADD, not setting RT rules"
\* (handle_wlan_client_route_rule): a client the driver reported to be in power
\* save has no route rules until it recovers.
AsleepNotRouted ==
    \A c \in ToSet(clients) : c.mac \in asleep => HandlesOf(c) = {}
=============================================================================
