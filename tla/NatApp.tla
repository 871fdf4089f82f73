------------------------------- MODULE NatApp -------------------------------
(***************************************************************************)
(* NatApp (data-ipa-cfg-mgr/ipacm/src/IPACM_Conntrack_NATApp.cpp): the     *)
(* cache of NAT connections IPACM keeps beside the hardware NAT table, the *)
(* clients in power save and the temporary connections.                    *)
(*                                                                         *)
(* The driver below it is seen as NatStore promises: rules is its table, a *)
(* connection by rule handle.  A connection stands for the five fields     *)
(* ChkForDup compares; curCnt and the time stamps, which only logging and  *)
(* the UDP refresh thread read, are left out.                              *)
(*                                                                         *)
(* Every operation runs to its end in the thread of the event dispatcher,  *)
(* except the loop of FlushTempEntries, whose turns are steps.             *)
(***************************************************************************)
EXTENDS Integers, FiniteSets

CONSTANTS
    Conns,          \* connections (address, port and protocol tuples)
    NoConn,         \* the content of a zeroed entry
    Clients,        \* addresses of LAN and WLAN clients
    PubIps,         \* public addresses of the WAN interface, as integers
    PrivateIp,      \* private_ip of a connection
    TargetIp,       \* target_ip of a connection
    AlgConns,       \* connections with an ALG port
    IncompleteConns,\* connections with a zero address or port
    MaxEntries,     \* max_entries: size of the cache and of the NAT table
    MaxTemp,        \* MAX_TEMP_ENTRIES
    MaxPwrSave      \* IPA_MAX_NUM_WIFI_CLIENTS

ASSUME ConnsAssumption == /\ NoConn \notin Conns
                          /\ AlgConns \subseteq Conns
                          /\ IncompleteConns \subseteq Conns
ASSUME PubIpsAssumption == PubIps \subseteq Nat \ {0}
ASSUME LimitsAssumption == /\ MaxEntries \in Nat \ {0}
                           /\ MaxTemp \in Nat
                           /\ MaxPwrSave \in Nat

VARIABLES
    cache, temp, PwrSaveIfs,
    nat_table_hdl, pub_ip_addr, pub_ip_addr_pre,
    table_cnt,      \* of the driver: 1 when it holds a table
    rules           \* of the driver: the rules of its table, by handle

tableVars == <<nat_table_hdl, pub_ip_addr, pub_ip_addr_pre, table_cnt>>
natVars == <<cache, temp, PwrSaveIfs, tableVars, rules>>

Slots == 1 .. MaxEntries
Handles == 1 .. MaxEntries
TempSlots == 1 .. MaxTemp

ZeroEntry == [conn |-> NoConn, enabled |-> FALSE, rule_hdl |-> 0]
NoTemp == [conn |-> NoConn, public_ip |-> 0]

NatInit ==
    /\ cache = [i \in Slots |-> ZeroEntry]
    /\ temp = [k \in TempSlots |-> NoTemp]
    /\ PwrSaveIfs = {}
    /\ nat_table_hdl = 0 /\ pub_ip_addr = 0 /\ pub_ip_addr_pre = 0
    /\ table_cnt = 0
    /\ rules = [h \in Handles |-> NoConn]

(***************************************************************************)
(* Calls of the driver.  An add may fail at any time (no free entry, a DMA *)
(* command refused); a delete fails when the handle names no rule.         *)
(***************************************************************************)

\* What ipa_nat_add_ipv4_rule may put in *rule_hdl, 0 when it fails, for
\* table handle hdl and the rules tbl in that table.
AddResults(hdl, tbl) ==
    {0} \cup (IF hdl = 0 THEN {} ELSE {h \in Handles : tbl[h] = NoConn})

DelSucceeds(h) == nat_table_hdl # 0 /\ h # 0 /\ rules[h] # NoConn

(***************************************************************************)
(* The loops over the cache.                                               *)
(***************************************************************************)
Cached(c) == \E i \in Slots : cache[i].conn = c
InUse == {i \in Slots : cache[i].conn # NoConn}
OfClient(p) == {i \in InUse : PrivateIp[cache[i].conn] = p}
OfTarget(t) == {i \in InUse : TargetIp[cache[i].conn] = t}
Enabled(S) == {i \in S : cache[i].enabled}

\* The first free entry from entry k on.
FreeFrom(k) == {i \in Slots : /\ i >= k /\ cache[i].conn = NoConn
                              /\ \A j \in k .. i - 1 : cache[j].conn # NoConn}

\* Add the rules of the entries S one after the other.  An entry whose rule
\* cannot be added is dropped from the cache.
AddBack(S, hdl, tbl) ==
    \E f \in [S -> AddResults(hdl, tbl)] :
        /\ \A i, j \in S : f[i] = f[j] => i = j \/ f[i] = 0
        /\ cache' = [i \in Slots |->
              IF i \notin S THEN cache[i]
              ELSE IF f[i] = 0 THEN ZeroEntry
              ELSE [cache[i] EXCEPT !.enabled = TRUE, !.rule_hdl = f[i]]]
        /\ rules' = [h \in Handles |->
              IF \E i \in S : f[i] = h
              THEN cache[CHOOSE i \in S : f[i] = h].conn
              ELSE tbl[h]]

\* The entries of S whose delete succeeds: of two that hold the same handle
\* the first one gets it, and the rule is gone when the second one asks.
Deletable(S) ==
    {i \in S : /\ DelSucceeds(cache[i].rule_hdl)
               /\ \A j \in S : j < i => cache[j].rule_hdl # cache[i].rule_hdl}

DeleteRules(S) ==
    rules' = [h \in Handles |->
        IF \E i \in Deletable(S) : cache[i].rule_hdl = h THEN NoConn ELSE rules[h]]

(***************************************************************************)
(* The table.  The driver has room for one table only (ip4_tbl has         *)
(* IPA_NAT_MAX_IP4_TBLS = 1 element); a request for a second one is taken  *)
(* to fail.  *tbl_hdl is cleared before anything else is tried.            *)
(***************************************************************************)
\* Mutant of AddTable: the driver leaves *tbl_hdl alone when it fails.
AddTable_KeepsHandle(a) ==
    /\ \/ UNCHANGED <<cache, rules, pub_ip_addr, table_cnt, nat_table_hdl>>
       \/ /\ table_cnt = 0
          /\ table_cnt' = 1
          /\ nat_table_hdl' = 1
          /\ pub_ip_addr' = a
          /\ IF a = pub_ip_addr_pre
             THEN AddBack(InUse, 1, rules)
             ELSE UNCHANGED <<cache, rules>>
    /\ UNCHANGED <<temp, PwrSaveIfs, pub_ip_addr_pre>>

AddTable(a) ==
    /\ \/ /\ nat_table_hdl' = 0
          /\ UNCHANGED <<cache, rules, pub_ip_addr, table_cnt>>
       \/ /\ table_cnt = 0
          /\ table_cnt' = 1
          /\ nat_table_hdl' = 1
          /\ pub_ip_addr' = a
          /\ IF a = pub_ip_addr_pre
             THEN AddBack(InUse, 1, rules)
             ELSE UNCHANGED <<cache, rules>>
    /\ UNCHANGED <<temp, PwrSaveIfs, pub_ip_addr_pre>>

\* Reset() leaves the cache alone: its loop compares, it does not assign.
DeleteTable(a) ==
    \/ /\ nat_table_hdl # 0
       /\ pub_ip_addr = a
       /\ pub_ip_addr_pre' = pub_ip_addr
       /\ nat_table_hdl' = 0
       /\ pub_ip_addr' = 0
       /\ table_cnt' = 0
       /\ rules' = [h \in Handles |-> NoConn]
       /\ UNCHANGED <<cache, temp, PwrSaveIfs>>
    \/ UNCHANGED natVars    \* no table, another address, or the driver fails

(***************************************************************************)
(* Connections.                                                            *)
(***************************************************************************)
isPwrSaveIf(p) == p \in PwrSaveIfs

\* AddEntry when it returns 0: the connection is cached, and its rule added
\* unless an end of it is in power save; an incomplete one is ignored.
AddEntryOk(c) ==
    /\ nat_table_hdl # 0
    /\ c \notin AlgConns
    /\ \/ /\ c \in IncompleteConns
          /\ UNCHANGED <<cache, rules>>
       \/ /\ c \notin IncompleteConns
          /\ ~Cached(c)
          /\ \E i \in FreeFrom(1) :
                \/ /\ isPwrSaveIf(PrivateIp[c]) \/ isPwrSaveIf(TargetIp[c])
                   /\ cache' = [cache EXCEPT ![i] =
                         [conn |-> c, enabled |-> FALSE, rule_hdl |-> 0]]
                   /\ UNCHANGED rules
                \/ /\ ~isPwrSaveIf(PrivateIp[c]) /\ ~isPwrSaveIf(TargetIp[c])
                   /\ \E h \in AddResults(nat_table_hdl, rules) \ {0} :
                         /\ cache' = [cache EXCEPT ![i] =
                               [conn |-> c, enabled |-> TRUE, rule_hdl |-> h]]
                         /\ rules' = [rules EXCEPT ![h] = c]
    /\ UNCHANGED <<PwrSaveIfs, tableVars>>

\* AddEntry when it returns an error: nothing has changed.
AddEntryFails(c) ==
    \/ nat_table_hdl = 0
    \/ c \in AlgConns
    \/ /\ c \notin IncompleteConns
       /\ \/ Cached(c)
          \/ FreeFrom(1) = {}
          \/ ~isPwrSaveIf(PrivateIp[c]) /\ ~isPwrSaveIf(TargetIp[c])

AddEntry(c) == \/ AddEntryOk(c) /\ UNCHANGED temp
               \/ AddEntryFails(c) /\ UNCHANGED natVars

\* Mutant of CacheEntry: no check for a duplicate.
CacheEntry_NoDupCheck(c) ==
    /\ c \notin IncompleteConns
    /\ \E k \in Slots : \E i \in FreeFrom(k) :
          cache' = [cache EXCEPT ![i] =
              [conn |-> c, enabled |-> FALSE, rule_hdl |-> 0]]
    /\ UNCHANGED <<temp, PwrSaveIfs, tableVars, rules>>

\* The search for a free entry starts at an index that is never initialised:
\* it may skip free entries or miss the cache altogether.
CacheEntry(c) ==
    /\ \/ /\ c \notin IncompleteConns
          /\ ~Cached(c)
          /\ \E k \in Slots : \E i \in FreeFrom(k) :
                cache' = [cache EXCEPT ![i] =
                    [conn |-> c, enabled |-> FALSE, rule_hdl |-> 0]]
       \/ UNCHANGED cache
    /\ UNCHANGED <<temp, PwrSaveIfs, tableVars, rules>>

\* The entry goes even if its rule cannot be deleted.
DeleteEntry(c) ==
    LET S == {i \in Slots : cache[i].conn = c /\ \A j \in 1 .. i - 1 : cache[j].conn # c} IN
    /\ cache' = [i \in Slots |-> IF i \in S THEN ZeroEntry ELSE cache[i]]
    /\ DeleteRules(Enabled(S))
    /\ UNCHANGED <<temp, PwrSaveIfs, tableVars>>

(***************************************************************************)
(* Clients: power save, disconnection.                                     *)
(***************************************************************************)
UpdatePwrSaveIf(p) ==
    LET S == Enabled(OfClient(p)) IN
    /\ \/ /\ p \in PwrSaveIfs
          /\ UNCHANGED <<cache, rules, PwrSaveIfs>>
       \/ /\ p \notin PwrSaveIfs
          /\ PwrSaveIfs' = IF Cardinality(PwrSaveIfs) < MaxPwrSave
                           THEN PwrSaveIfs \cup {p} ELSE PwrSaveIfs
          /\ cache' = [i \in Slots |->
                IF i \in Deletable(S)
                THEN [cache[i] EXCEPT !.enabled = FALSE, !.rule_hdl = 0]
                ELSE cache[i]]
          /\ DeleteRules(S)
    /\ UNCHANGED <<temp, tableVars>>

\* Mutant of ResetPwrSaveIf: adds the rules of enabled entries again.
ResetPwrSaveIf_AllEntries(p) ==
    /\ PwrSaveIfs' = PwrSaveIfs \ {p}
    /\ AddBack(OfClient(p), nat_table_hdl, rules)
    /\ UNCHANGED <<temp, tableVars>>

ResetPwrSaveIf(p) ==
    /\ PwrSaveIfs' = PwrSaveIfs \ {p}
    /\ AddBack(OfClient(p) \ Enabled(InUse), nat_table_hdl, rules)
    /\ UNCHANGED <<temp, tableVars>>

\* The entries stay in the cache, disabled, for the client's return.
DelEntriesOnClntDiscon(p) ==
    LET S == Enabled(OfClient(p)) IN
    /\ PwrSaveIfs' = PwrSaveIfs \ {p}
    /\ cache' = [i \in Slots |->
          IF i \in Deletable(S) THEN [cache[i] EXCEPT !.enabled = FALSE] ELSE cache[i]]
    /\ DeleteRules(S)
    /\ UNCHANGED <<temp, tableVars>>

DelEntriesOnSTAClntDiscon(t) ==
    LET S == Enabled(OfTarget(t)) IN
    /\ cache' = [i \in Slots |->
          IF i \in (OfTarget(t) \ S) \cup Deletable(S) THEN ZeroEntry ELSE cache[i]]
    /\ DeleteRules(S)
    /\ UNCHANGED <<temp, PwrSaveIfs, tableVars>>

(***************************************************************************)
(* Connections of clients whose interface is not known yet.                *)
(***************************************************************************)
FirstTemp(S) == {k \in S : \A j \in S : k <= j}

AddTempEntry(c, ip) ==
    LET free == FirstTemp({k \in TempSlots : temp[k] = NoTemp}) IN
    /\ temp' = [k \in TempSlots |->
          IF k \in free THEN [conn |-> c, public_ip |-> ip] ELSE temp[k]]
    /\ UNCHANGED <<cache, PwrSaveIfs, tableVars, rules>>

DeleteTempEntry(c) ==
    LET match == FirstTemp({k \in TempSlots : temp[k].conn = c}) IN
    /\ temp' = [k \in TempSlots |-> IF k \in match THEN NoTemp ELSE temp[k]]
    /\ UNCHANGED <<cache, PwrSaveIfs, tableVars, rules>>

DropTemp(k) == temp' = [temp EXCEPT ![k] = NoTemp]

TempMatches(k, p) ==
    /\ temp[k].conn # NoConn
    /\ p \in {PrivateIp[temp[k].conn], TargetIp[temp[k].conn]}

\* One turn of the loop of FlushTempEntries: entry k, client p.
FlushTempEntry(k, p, isAdd) ==
    \/ /\ ~TempMatches(k, p)
       /\ UNCHANGED natVars
    \/ /\ TempMatches(k, p)
       /\ isAdd /\ temp[k].public_ip = pub_ip_addr
       /\ \/ AddEntryFails(temp[k].conn) /\ UNCHANGED natVars
          \/ AddEntryOk(temp[k].conn) /\ DropTemp(k)
    \/ /\ TempMatches(k, p)
       /\ ~(isAdd /\ temp[k].public_ip = pub_ip_addr)
       /\ DropTemp(k)
       /\ UNCHANGED <<cache, PwrSaveIfs, tableVars, rules>>
=============================================================================
