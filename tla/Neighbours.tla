----------------------------- MODULE Neighbours ------------------------------
(***************************************************************************)
(* The neighbour cache of IPACM (IPACM_Neighbor.cpp).  The kernel reports  *)
(* the addresses of clients on the interface it learnt them on.  When that *)
(* is the bridge over the LAN interfaces, the interface behind it is taken *)
(* from the cache, which notes for each client where it was seen and its   *)
(* IPv4 address; the address is announced again when the client comes back *)
(* without one.  Interfaces have a kernel index that changes when they are *)
(* created again, and a fixed place in the table of IPA interfaces         *)
(* (iface_ipa_index_query in IPACM_Iface.cpp maps one to the other).       *)
(* Handlers run one after the other on the thread of the command queue.    *)
(***************************************************************************)
EXTENDS Naturals, Sequences, FiniteSets

CONSTANTS Macs,                          \* the clients
          IPA_MAX_NUM_NEIGHBOR_CLIENTS,  \* room in the cache
          MaxNeighEvents,                \* bound on the events of a behaviour
          MaxIndex                       \* bound on the kernel's indexes

ASSUME RoomForClients == IPA_MAX_NUM_NEIGHBOR_CLIENTS \in Nat /\ MaxIndex \in Nat

VARIABLES
  neighbor_client,  \* the entries in use, in order
  kernel,           \* the kernel's index of each interface
  netIndex,         \* iface_table[].netlink_interface_index
  announced,        \* what the last handler posted for the interfaces
  seenAt,           \* where a client may be taken to be, by the events about it
  toldV4,           \* the IPv4 addresses it may be taken to have
  neighEvents       \* events so far

neighbourVars == <<neighbor_client, kernel, netIndex, announced, seenAt, toldV4, neighEvents>>

Bridge0 == "bridge0"
LanIfaces == {"wlan0", "wlan1"}
IpaIfaces == LanIfaces \cup {Bridge0}
INVALID_IFACE == "invalid"
V4s == {1, 2}
NobodyTold == [mac |-> "none", at |-> 0, fam |-> "none", addr |-> 0]

NeighboursInit ==
  /\ neighbor_client = << >>
  /\ kernel = [p \in IpaIfaces |-> CASE p = "wlan0" -> 1 [] p = "wlan1" -> 2 [] OTHER -> 3]
  /\ netIndex = kernel
  /\ announced = NobodyTold
  /\ seenAt = [m \in Macs |-> {}] /\ toldV4 = [m \in Macs |-> {0}]
  /\ neighEvents = 0

\* The place of a kernel index in the table: noted there, or asked of the kernel by name.
iface_ipa_index_query(index) ==
  LET noted == {p \in IpaIfaces : netIndex[p] = index}
      named == {p \in IpaIfaces : kernel[p] = index}
  IN  CASE noted # {} -> CHOOSE p \in noted : TRUE
        [] noted = {} /\ named # {} -> CHOOSE p \in named : TRUE
        [] OTHER -> INVALID_IFACE

NoteIndex(index) ==
  LET p == iface_ipa_index_query(index)
  IN  netIndex' = IF p = INVALID_IFACE THEN netIndex ELSE [netIndex EXCEPT ![p] = index]

EntriesOf(mac) == {i \in DOMAIN neighbor_client : neighbor_client[i].mac_addr = mac}
Entry(mac) == CHOOSE i \in EntriesOf(mac) : \A j \in EntriesOf(mac) : i <= j
Known(mac) == EntriesOf(mac) # {}
OnBridge(index) == iface_ipa_index_query(index) = Bridge0

Announce(mac, index, fam, addr) ==
  announced' = [mac |-> mac, at |-> index, fam |-> fam, addr |-> addr]
AnnounceNothing == announced' = NobodyTold

\* A new entry, unless the cache is full: entries are never removed.
Cache(mac, index, v4) ==
  neighbor_client' =
    IF Len(neighbor_client) < IPA_MAX_NUM_NEIGHBOR_CLIENTS
    THEN Append(neighbor_client, [mac_addr |-> mac, iface_index |-> index,
                                  ipa_if_num |-> iface_ipa_index_query(index), v4_addr |-> v4])
    ELSE neighbor_client

\* Mutant of Reconnect: the entry keeps the interface's earlier index.
Reconnect_KeepsIndex(mac, index, memory) ==
  LET i == Entry(mac) IN
  /\ UNCHANGED neighbor_client
  /\ IF memory /\ iface_ipa_index_query(index) = neighbor_client[i].ipa_if_num
                /\ neighbor_client[i].v4_addr # 0
     THEN Announce(mac, index, "v4", neighbor_client[i].v4_addr) ELSE AnnounceNothing

\* A known client is back without an address: its previous one is announced, if it is
\* back on the interface it had it on.
Reconnect(mac, index, memory) ==
  LET i == Entry(mac) IN
  /\ neighbor_client' = [neighbor_client EXCEPT ![i].iface_index = index]
  /\ IF memory /\ iface_ipa_index_query(index) = neighbor_client[i].ipa_if_num
                /\ neighbor_client[i].v4_addr # 0
     THEN Announce(mac, index, "v4", neighbor_client[i].v4_addr) ELSE AnnounceNothing

\* IPA_WLAN_CLIENT_ADD_EVENT_EX
ClientAssociated(mac, index, memory) ==
  IF Known(mac) /\ ~OnBridge(index) THEN Reconnect(mac, index, memory)
  ELSE UNCHANGED neighbor_client /\ AnnounceNothing

\* A neighbour without an address, new or gone.
NeighbourAlone(mac, index, memory) ==
  CASE OnBridge(index) -> UNCHANGED neighbor_client /\ AnnounceNothing
    [] ~OnBridge(index) /\ Known(mac) -> Reconnect(mac, index, memory)
    [] OTHER -> Cache(mac, index, 0) /\ AnnounceNothing

\* A neighbour with an IPv4 address on the bridge: announced where the client was seen.
NeighbourV4OnBridge(mac, addr, memory) ==
  IF Known(mac)
  THEN LET i == Entry(mac) IN
       /\ neighbor_client' = [neighbor_client EXCEPT ![i].v4_addr = addr]
       /\ IF memory THEN Announce(mac, neighbor_client[i].iface_index, "v4", addr)
          ELSE AnnounceNothing
  ELSE UNCHANGED neighbor_client /\ AnnounceNothing

\* ... and on an interface of its own; without memory for the event it is not cached.
NeighbourV4Direct(mac, index, addr, memory) ==
  IF ~memory THEN UNCHANGED neighbor_client /\ AnnounceNothing
  ELSE /\ Announce(mac, index, "v4", addr)
       /\ IF Known(mac)
          THEN neighbor_client' =
                 [neighbor_client EXCEPT ![Entry(mac)] =
                    [@ EXCEPT !.iface_index = index, !.v4_addr = addr,
                              !.ipa_if_num = iface_ipa_index_query(index)]]
          ELSE Cache(mac, index, addr)

\* A neighbour with an IPv6 address, which is not cached, nor is where it was seen.
NeighbourV6(mac, index, memory) ==
  /\ UNCHANGED neighbor_client
  /\ CASE memory /\ ~OnBridge(index) -> Announce(mac, index, "v6", 0)
       [] memory /\ OnBridge(index) /\ Known(mac) ->
            Announce(mac, neighbor_client[Entry(mac)].iface_index, "v6", 0)
       [] OTHER -> AnnounceNothing

\* What the events say of a client, kept beside the code: an event it notes replaces
\* what was said before, one it may overlook adds to it.
Noted(mac, index, addrs, sure) ==
  /\ seenAt' = IF OnBridge(index) THEN seenAt
               ELSE [seenAt EXCEPT ![mac] = IF sure THEN {index} ELSE @ \cup {index}]
  /\ toldV4' = IF addrs = {} THEN toldV4
               ELSE [toldV4 EXCEPT ![mac] = IF sure THEN addrs ELSE @ \cup addrs]

\* IPACM_Neighbor::event_callback.  A neighbour that is new and one that is gone are
\* handled alike and announced as such, so they are one event here.  An index may be
\* one that its interface no longer has.  An event that meets a lack of memory counts
\* twice against the bound.
NeighbourEvent(mac, index, memory) ==
  /\ neighEvents < MaxNeighEvents /\ neighEvents' = neighEvents + (IF memory THEN 1 ELSE 2)
  /\ NoteIndex(index)
  /\ UNCHANGED kernel
  /\ \/ /\ ~OnBridge(index)
        /\ ClientAssociated(mac, index, memory) /\ Noted(mac, index, {}, TRUE)
     \/ NeighbourAlone(mac, index, memory) /\ Noted(mac, index, {}, TRUE)
     \/ \E addr \in V4s :
          /\ OnBridge(index)
          /\ NeighbourV4OnBridge(mac, addr, memory) /\ Noted(mac, index, {addr}, TRUE)
     \/ \E addr \in V4s :
          /\ ~OnBridge(index)
          /\ NeighbourV4Direct(mac, index, addr, memory) /\ Noted(mac, index, {addr}, memory)
     \/ NeighbourV6(mac, index, memory) /\ Noted(mac, index, {}, FALSE)

\* The kernel creates a LAN interface again, under its next index.
IfaceCreatedAgain(p) ==
  LET next == Cardinality({i \in 1..MaxIndex : \E q \in IpaIfaces : i <= kernel[q]}) + 1 IN
  /\ next <= MaxIndex
  /\ kernel' = [kernel EXCEPT ![p] = next]
  /\ UNCHANGED <<neighbor_client, netIndex, announced, seenAt, toldV4, neighEvents>>

NeighboursNext ==
  \/ \E mac \in Macs, index \in 1..MaxIndex, memory \in BOOLEAN :
       /\ \E p \in IpaIfaces : index <= kernel[p]
       /\ NeighbourEvent(mac, index, memory)
  \/ \E p \in LanIfaces : IfaceCreatedAgain(p)

NeighboursSpec == NeighboursInit /\ [][NeighboursNext]_neighbourVars

------------------------------------------------------------------------------
\* IPACM_Neighbor announces an address of a client, new, gone or remembered, on the
\* interface where the client was seen last, whatever it was created again as, and
\* never an address of another client or one the client had before its last.  (Where
\* a client was seen with an IPv6 address is not noted by the code: the place before
\* counts as well.)
NeighboursPlaced ==
  /\ Len(neighbor_client) <= IPA_MAX_NUM_NEIGHBOR_CLIENTS
  /\ announced # NobodyTold =>
       /\ announced.at \in seenAt[announced.mac]
       /\ announced.fam = "v4" => announced.addr \in toldV4[announced.mac]

==============================================================================
