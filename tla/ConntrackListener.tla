-------------------------- MODULE ConntrackListener --------------------------
(***************************************************************************)
(* IPACM_ConntrackListener (data-ipa-cfg-mgr/ipacm/src/                    *)
(* IPACM_ConntrackListener.cpp) driving NatApp: the events of the WAN      *)
(* interface, of clients and of connection tracking, one handler at a time *)
(* in the thread of the event dispatcher.                                  *)
(***************************************************************************)
EXTENDS NatApp

CONSTANTS
    Unflagged,  \* connections with neither NAT flag set
    StaSubnet,  \* target addresses in the subnet of the STA clients
    MaxIfaces,  \* MAX_NAT_IFACES
    MaxSta      \* MAX_STA_CLNT_IFACES

ASSUME ListenerAssumption == /\ Unflagged \subseteq Conns
                             /\ 0 \notin StaSubnet   \* IPACM_Wan ignores 0.0.0.0
                             /\ MaxIfaces \in Nat \ {0}
                             /\ MaxSta \in Nat \ {0}

VARIABLES
    WanUp, isStaMode, wan_ipaddr,
    nat_iface_ipv4_addr, nonnat_iface_ipv4_addr,
    sta_clnt_ipv4_addr, StaClntCnt,
    flush       \* the FlushTempEntries in progress

wanVars == <<WanUp, isStaMode, wan_ipaddr>>
ifaceVars == <<nat_iface_ipv4_addr, nonnat_iface_ipv4_addr>>
staVars == <<sta_clnt_ipv4_addr, StaClntCnt>>
vars == <<natVars, wanVars, ifaceVars, staVars, flush>>

NoAddr == 0
Ifaces == 1 .. MaxIfaces
StaSlots == 1 .. MaxSta
Idle == [at |-> 0, addr |-> NoAddr, isAdd |-> FALSE, discon |-> FALSE]

Init ==
    /\ NatInit
    /\ WanUp = FALSE /\ isStaMode = FALSE /\ wan_ipaddr = 0
    /\ nat_iface_ipv4_addr = [j \in Ifaces |-> NoAddr]
    /\ nonnat_iface_ipv4_addr = [j \in Ifaces |-> NoAddr]
    /\ sta_clnt_ipv4_addr = [j \in StaSlots |-> NoAddr]
    /\ StaClntCnt = 0
    /\ flush = Idle

FirstOf(S) == CHOOSE j \in S : \A k \in S : j <= k

(***************************************************************************)
(* FlushTempEntries goes through temp from its first entry; when it was    *)
(* called for a client that left, DelEntriesOnClntDiscon follows it.       *)
(***************************************************************************)
StartFlush(p, isAdd, discon) ==
    flush' = [at |-> 1, addr |-> p, isAdd |-> isAdd, discon |-> discon]

FlushStep ==
    /\ flush.at \in TempSlots
    /\ FlushTempEntry(flush.at, flush.addr, flush.isAdd)
    /\ flush' = [flush EXCEPT !.at = @ + 1]
    /\ UNCHANGED <<wanVars, ifaceVars, staVars>>

FlushEnd ==
    /\ flush.at = MaxTemp + 1
    /\ flush' = Idle
    /\ IF flush.discon THEN DelEntriesOnClntDiscon(flush.addr) ELSE UNCHANGED natVars
    /\ UNCHANGED <<wanVars, ifaceVars, staVars>>

(***************************************************************************)
(* The WAN interface.                                                      *)
(***************************************************************************)
\* WanUp is set before the table is asked for, and stays set if there is none.
TriggerWANUp(a, sta) ==
    /\ flush = Idle
    /\ ~WanUp
    /\ WanUp' = TRUE /\ isStaMode' = sta /\ wan_ipaddr' = a
    /\ AddTable(a)
    /\ UNCHANGED <<ifaceVars, staVars, flush>>

\* The address is the one the interface has now; it may have changed since.
TriggerWANDown(a) ==
    /\ flush = Idle
    /\ WanUp
    /\ WanUp' = FALSE
    /\ DeleteTable(a)
    /\ UNCHANGED <<isStaMode, wan_ipaddr, ifaceVars, staVars, flush>>

(***************************************************************************)
(* Clients of LAN and WLAN interfaces.                                     *)
(***************************************************************************)
\* The loop stops at the first entry that is free or holds the address.
NatIfaceSlots(p) == {j \in Ifaces : nat_iface_ipv4_addr[j] \in {NoAddr, p}}
NonNatFree == {j \in Ifaces : nonnat_iface_ipv4_addr[j] = NoAddr}

NatClientAdd(p) ==
    /\ flush = Idle
    /\ NatIfaceSlots(p) # {}
    /\ LET j == FirstOf(NatIfaceSlots(p)) IN
       \/ /\ nat_iface_ipv4_addr[j] = p
          /\ UNCHANGED <<natVars, nat_iface_ipv4_addr, flush>>
       \/ /\ nat_iface_ipv4_addr[j] = NoAddr
          /\ nat_iface_ipv4_addr' = [nat_iface_ipv4_addr EXCEPT ![j] = p]
          /\ ResetPwrSaveIf(p)
          /\ StartFlush(p, TRUE, FALSE)
    /\ UNCHANGED <<nonnat_iface_ipv4_addr, wanVars, staVars>>

\* An address of an interface that is not NATed, or one too many: no room is
\* left among the NATed ones.
NonNatClientAdd(p, nated) ==
    /\ flush = Idle
    /\ nated => NatIfaceSlots(p) = {}
    /\ \/ /\ NonNatFree = {}
          /\ UNCHANGED <<nonnat_iface_ipv4_addr, flush>>
       \/ /\ NonNatFree # {}
          /\ nonnat_iface_ipv4_addr' =
                [nonnat_iface_ipv4_addr EXCEPT ![FirstOf(NonNatFree)] = p]
          /\ StartFlush(p, FALSE, FALSE)
    /\ UNCHANGED <<nat_iface_ipv4_addr, natVars, wanVars, staVars>>

HandleNeighIpAddrDelEvt(p) ==
    /\ flush = Idle
    /\ nat_iface_ipv4_addr' = [j \in Ifaces |->
          IF nat_iface_ipv4_addr[j] = p THEN NoAddr ELSE nat_iface_ipv4_addr[j]]
    /\ nonnat_iface_ipv4_addr' = [j \in Ifaces |->
          IF nonnat_iface_ipv4_addr[j] = p THEN NoAddr ELSE nonnat_iface_ipv4_addr[j]]
    /\ StartFlush(p, FALSE, TRUE)
    /\ UNCHANGED <<natVars, wanVars, staVars>>

\* IPACM_Wlan tells NatApp directly when a client enters or leaves power save.
ClientPowerSave(p) ==
    /\ flush = Idle
    /\ UpdatePwrSaveIf(p)
    /\ UNCHANGED <<wanVars, ifaceVars, staVars, flush>>

ClientPowerRecover(p) ==
    /\ flush = Idle
    /\ ResetPwrSaveIf(p)
    /\ UNCHANGED <<wanVars, ifaceVars, staVars, flush>>

(***************************************************************************)
(* Clients of the WAN interface in STA mode.                               *)
(***************************************************************************)
HandleSTAClientAddEvt(t) ==
    LET S == {j \in StaSlots : sta_clnt_ipv4_addr[j] \in {NoAddr, t}} IN
    /\ flush = Idle
    /\ StaClntCnt < MaxSta
    /\ sta_clnt_ipv4_addr[FirstOf(S)] = NoAddr
    /\ sta_clnt_ipv4_addr' = [sta_clnt_ipv4_addr EXCEPT ![FirstOf(S)] = t]
    /\ StaClntCnt' = StaClntCnt + 1
    /\ UNCHANGED <<natVars, wanVars, ifaceVars, flush>>

HandleSTAClientDelEvt(t) ==
    LET S == {j \in StaSlots : sta_clnt_ipv4_addr[j] = t} IN
    /\ flush = Idle
    /\ S # {}
    /\ sta_clnt_ipv4_addr' = [sta_clnt_ipv4_addr EXCEPT ![FirstOf(S)] = NoAddr]
    /\ DelEntriesOnSTAClntDiscon(t)
    /\ StaClntCnt' = StaClntCnt - 1
    /\ UNCHANGED <<wanVars, ifaceVars, flush>>

(***************************************************************************)
(* Connection tracking.                                                    *)
(***************************************************************************)
\* A connection of the device itself: its private address is the WAN one.
Embedded(c) == PrivateIp[c] = wan_ipaddr

MatchesNatIface(c) ==
    \E j \in Ifaces : /\ nat_iface_ipv4_addr[j] # NoAddr
                      /\ nat_iface_ipv4_addr[j] \in {PrivateIp[c], TargetIp[c]}

isTempEntry(c) == ~Embedded(c) /\ ~MatchesNatIface(c)
isPrivateSubnet(p) == p \in Clients

\* In STA mode the target has to be in the list of STA clients.
StaClientMissing(c) ==
    /\ isStaMode
    /\ StaClntCnt # 0
    /\ sta_clnt_ipv4_addr[1] # NoAddr /\ TargetIp[c] \in StaSubnet
    /\ \A j \in 1 .. StaClntCnt : sta_clnt_ipv4_addr[j] # TargetIp[c]

Ignored(c) ==
    \/ c \in Unflagged /\ ~Embedded(c)
    \/ isTempEntry(c) /\ ~isPrivateSubnet(PrivateIp[c]) /\ ~isPrivateSubnet(TargetIp[c])
    \/ Embedded(c) /\ isStaMode
    \/ StaClientMissing(c)

\* public_ip has 16 bits, and only connections without a NAT flag set it.
uint16_t == 0 .. 2^16 - 1
public_ip(c) == IF c \in Unflagged THEN wan_ipaddr % 2^16 ELSE 0

\* TCP established, UDP new.
ConnUp(c) ==
    /\ flush = Idle
    /\ \/ /\ Ignored(c)
          /\ UNCHANGED natVars
       \/ /\ ~Ignored(c)
          /\ ~WanUp
          /\ CacheEntry(c)
       \/ /\ ~Ignored(c)
          /\ WanUp /\ isTempEntry(c)
          /\ AddTempEntry(c, public_ip(c))
       \/ /\ ~Ignored(c)
          /\ WanUp /\ ~isTempEntry(c)
          /\ AddEntry(c)
    /\ UNCHANGED <<wanVars, ifaceVars, staVars, flush>>

\* TCP FIN_WAIT, TCP or UDP destroyed.
ConnDown(c) ==
    /\ flush = Idle
    /\ \/ /\ Ignored(c)
          /\ UNCHANGED natVars
       \/ /\ ~Ignored(c)
          /\ isTempEntry(c)
          /\ DeleteTempEntry(c)
       \/ /\ ~Ignored(c)
          /\ ~isTempEntry(c)
          /\ DeleteEntry(c)
    /\ UNCHANGED <<wanVars, ifaceVars, staVars, flush>>

Next ==
    \/ FlushStep
    \/ FlushEnd
    \/ \E a \in PubIps : TriggerWANDown(a) \/ \E sta \in BOOLEAN : TriggerWANUp(a, sta)
    \/ \E p \in Clients :
          \/ NatClientAdd(p)
          \/ \E nated \in BOOLEAN : NonNatClientAdd(p, nated)
          \/ HandleNeighIpAddrDelEvt(p)
          \/ ClientPowerSave(p)
          \/ ClientPowerRecover(p)
    \/ \E t \in StaSubnet : HandleSTAClientAddEvt(t) \/ HandleSTAClientDelEvt(t)
    \/ \E c \in Conns : ConnUp(c) \/ ConnDown(c)

Spec == Init /\ [][Next]_vars

(***************************************************************************)
(* Properties.                                                             *)
(***************************************************************************)
Addrs == Clients \cup {NoAddr}

\* The cache, the temporary entries and the address lists stay within the
\* arrays of NatApp and of the listener, whatever the order of events.
TypeOK ==
    /\ cache \in [Slots -> [conn : Conns \cup {NoConn}, enabled : BOOLEAN,
                            rule_hdl : Handles \cup {0}]]
    /\ temp \in [TempSlots -> [conn : Conns \cup {NoConn}, public_ip : uint16_t]]
    /\ PwrSaveIfs \subseteq Clients /\ Cardinality(PwrSaveIfs) <= MaxPwrSave
    /\ nat_table_hdl \in {0, 1} /\ table_cnt \in {0, 1}
    /\ {pub_ip_addr, pub_ip_addr_pre, wan_ipaddr} \subseteq PubIps \cup {0}
    /\ rules \in [Handles -> Conns \cup {NoConn}]
    /\ WanUp \in BOOLEAN /\ isStaMode \in BOOLEAN
    /\ nat_iface_ipv4_addr \in [Ifaces -> Addrs]
    /\ nonnat_iface_ipv4_addr \in [Ifaces -> Addrs]
    /\ sta_clnt_ipv4_addr \in [StaSlots -> StaSubnet \cup {NoAddr}]
    /\ StaClntCnt \in 0 .. MaxSta
    /\ flush \in [at : 0 .. MaxTemp + 1, addr : Addrs, isAdd : BOOLEAN, discon : BOOLEAN]

\* A connection has at most one entry: ChkForDup guards both ways into the
\* cache, and no restore, power save or disconnection makes a second one.
NoDuplicateConnections ==
    \A i, j \in InUse : cache[i].conn = cache[j].conn => i = j

\* Cache, temporary list and station list stay within their arrays, their counters in
\* range, and no connection is in the cache twice.
CacheWellFormed == TypeOK /\ NoDuplicateConnections

\* Every rule in the hardware table has an owner: an enabled entry of the cache
\* for the same connection that holds its handle.  A rule without one could
\* never be deleted again: DeleteEntry, UpdatePwrSaveIf and the disconnection
\* handlers all start from the cache.
NoOrphanRules ==
    nat_table_hdl # 0 =>
        \A h \in Handles : rules[h] # NoConn =>
            \E i \in Slots : cache[i] = [conn |-> rules[h], enabled |-> TRUE, rule_hdl |-> h]

\* While the WAN is up, the table in use translates to the address the listener
\* believes the WAN has, across failed, refused and repeated WAN events.
TableHasWanAddress ==
    WanUp /\ nat_table_hdl # 0 => pub_ip_addr = wan_ipaddr

\* "NAT tbl deleted, reset enabled bit" (Reset): an enabled entry's handle
\* names that entry's rule, so that deleting by handle deletes its own rule.
EnabledEntriesInstalled ==
    nat_table_hdl # 0 =>
        \A i \in Slots : cache[i].enabled => rules[cache[i].rule_hdl] = cache[i].conn

\* "Not reset the cache wait it timeout by destroy event" (AddTable): the event
\* that ends a cached connection takes the path that deletes cache entries.
DestroyFindsEntry ==
    \A i \in InUse : ~Ignored(cache[i].conn) /\ ~isTempEntry(cache[i].conn)

\* "Check whether target is in STA client list or not if not ignore the
\* connection" (ProcessTCPorUDPMsg): a connection to a listed client is kept.
ListedStaClientKept ==
    \A c \in Conns : StaClientMissing(c) =>
        \A j \in StaSlots : sta_clnt_ipv4_addr[j] # TargetIp[c]
==============================================================================
