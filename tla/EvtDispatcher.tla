---------------------------- MODULE EvtDispatcher ----------------------------
(***************************************************************************)
(* The event dispatcher of IPACM and the life cycle of its interface       *)
(* instances (IPACM_EvtDispatcher.cpp, IPACM_IfaceManager.cpp and the      *)
(* link and delete-self handlers of IPACM_Lan, IPACM_Wlan, IPACM_Wan), on  *)
(* top of the command queue.                                               *)
(*                                                                         *)
(* Kernel threads post link events.  The queue's thread walks the list of  *)
(* registrations for every event and calls back the matching listeners,    *)
(* which create, deactivate and delete instances, that is change the list  *)
(* that is being walked.                                                   *)
(*                                                                         *)
(* An event is a pair of a name and an interface.  The link events of the  *)
(* different kinds (IPA_LINK_UP_EVENT, IPA_USB_LINK_UP_EVENT,              *)
(* IPA_WLAN_AP_LINK_UP_EVENT, ...) have one name: the interface tells them *)
(* apart.  Events whose handlers change neither the list nor the instances *)
(* (the address event that create_iface_instance posts among them), and    *)
(* the filter and routing work of handle_down_evt, are left out.           *)
(***************************************************************************)
EXTENDS CmdQueue

CONSTANTS
    Ifaces,     \* interfaces
    Kind,       \* "lan", "wlan" or "wan": what an interface can be
    MaxPosted   \* bound on the link events under way

ASSUME IfacesAssumption == /\ Kind \in [Ifaces -> {"lan", "wlan", "wan"}]
                           /\ MaxPosted \in Nat \ {0}

VARIABLES
    regs,   \* the list of cmd_evts: pairs of a listener and an event name
    cur,    \* ProcessEvt's tmp: the registration it looks at next
    inst,   \* the instance of an interface, see InstStates
    cat     \* its if_cat in the interface table: "unknown" or its kind

dispVars == <<regs, cur, inst, cat>>
vars == <<queueVars, dispVars>>

Mgr == "manager"
Null == <<>>
InstStates == {"none", "active", "inactive"}
LinkEvents == {"LINK_UP", "LINK_DOWN"}

\* The events an instance registers for, in the order of create_iface_instance;
\* the ones whose handlers leave the list and the instances alone are left out,
\* except the one that an access point registers last.
Registrations(kind) ==
    CASE kind = "lan" -> <<"LINK_DOWN", "DELETE_SELF">>
      [] kind = "wlan" -> <<"LINK_DOWN", "DELETE_SELF", "STATS_UPDATE">>
      [] kind = "wan" -> <<"LINK_DOWN">>

Init ==
    /\ QueueInit
    /\ regs = <<<<Mgr, "LINK_UP">>>>
    /\ cur = Null
    /\ inst = [i \in Ifaces |-> "none"]
    /\ cat = [i \in Ifaces |-> IF Kind[i] = "wlan" THEN "unknown" ELSE Kind[i]]

\* A thread that listens to the kernel posts an event.
PostLink(e) ==
    /\ Cardinality(allocated) < MaxPosted
    /\ PostEvt(e)
    /\ UNCHANGED dispVars

(***************************************************************************)
(* The list.                                                               *)
(***************************************************************************)
Registered == {regs[k] : k \in 1 .. Len(regs)}

\* The registration behind n, Null at the end.
NextOf(n) ==
    LET k == CHOOSE k \in 1 .. Len(regs) : regs[k] = n
    IN  IF k = Len(regs) THEN Null ELSE regs[k + 1]

registr(i) ==
    regs' = regs \o [k \in 1 .. Len(Registrations(Kind[i])) |->
                        <<i, Registrations(Kind[i])[k]>>]

\* What a walk over the list s leaves of it that takes out the nodes in S.
Without(s, S) ==
    LET Walk[k \in 0 .. Len(s)] == IF k = 0 THEN << >>
                                   ELSE IF s[k] \in S THEN Walk[k - 1]
                                   ELSE Append(Walk[k - 1], s[k])
    IN  Walk[Len(s)]

deregistr(i) == regs' = Without(regs, {n \in Registered : n[1] = i})

(***************************************************************************)
(* The callbacks, for listener l and event e.                              *)
(***************************************************************************)
Unchanged == UNCHANGED <<queueVars, regs, inst, cat>>

\* IPACM_IfaceManager: an instance, unless there is one in its list already.
LinkUpCallback(i) ==
    /\ cat' = [cat EXCEPT ![i] = Kind[i]]
    /\ IF inst[i] = "none" /\ (Kind[i] = "wlan" => cat[i] = "unknown")
       THEN registr(i) /\ inst' = [inst EXCEPT ![i] = "active"]
       ELSE UNCHANGED <<regs, inst>>
    /\ UNCHANGED queueVars

\* The end of handle_down_evt: the instance stops working and asks for its
\* deletion with IPA_LAN_DELETE_SELF.
post_del_self_evt(i) ==
    /\ inst[i] = "active"
    /\ inst' = [inst EXCEPT ![i] = "inactive"]
    /\ PostEvt(<<"DELETE_SELF", i>>)
    /\ UNCHANGED regs

LanDownCallback(i) == post_del_self_evt(i) /\ UNCHANGED cat

WlanDownCallback(i) ==
    /\ post_del_self_evt(i)
    /\ cat' = [cat EXCEPT ![i] = "unknown"]

\* delete this: the destructor takes the instance out of both lists.
DeleteThis(i) ==
    /\ deregistr(i)
    /\ inst' = [inst EXCEPT ![i] = "none"]
    /\ UNCHANGED <<queueVars, cat>>

DeleteSelfCallback(i) == DeleteThis(i)
WanDownCallback(i) == DeleteThis(i)

\* event_callback returns at once: the event is for another interface, or the
\* instance is no longer active.
Ignores(l, e) == l # Mgr /\ (l # e[2] \/ (e[1] # "DELETE_SELF" /\ inst[l] = "inactive"))

Callback(l, e) ==
    \/ Ignores(l, e) /\ Unchanged
    \/ l = Mgr /\ LinkUpCallback(e[2])
    \/ /\ l = e[2] /\ ~Ignores(l, e)
       /\ \/ e[1] = "LINK_DOWN" /\ Kind[l] = "lan" /\ LanDownCallback(l)
          \/ e[1] = "LINK_DOWN" /\ Kind[l] = "wlan" /\ WlanDownCallback(l)
          \/ e[1] = "LINK_DOWN" /\ Kind[l] = "wan" /\ WanDownCallback(l)
          \/ e[1] = "DELETE_SELF" /\ DeleteSelfCallback(l)

(***************************************************************************)
(* MessageQueue::Process and IPACM_EvtDispatcher::ProcessEvt.              *)
(***************************************************************************)
TakeEvent ==
    /\ Dequeue
    /\ cur' = regs[1]
    /\ UNCHANGED <<regs, inst, cat>>

WaitForEvent ==
    /\ CondWait
    /\ UNCHANGED dispVars

Wakeup ==
    /\ SpuriousWakeup
    /\ UNCHANGED dispVars

\* Mutant of ProcessRegistration: the walk goes on from the registration it is
\* at, which the callback may have freed.
ProcessRegistration_RereadsNext ==
    /\ item # NoMsg /\ cur # Null
    /\ IF cur[2] = evt[item][1] THEN Callback(cur[1], evt[item]) ELSE Unchanged
    /\ cur' = IF \E k \in 1 .. Len(regs') : regs'[k] = cur THEN NextOf(cur) ELSE cur

\* One turn of the loop: the successor is read before the callback.  If an
\* earlier callback freed this registration, the memory may hold anything: the
\* walk stops or goes on somewhere in the list.
ProcessRegistration ==
    /\ item # NoMsg /\ cur # Null
    /\ IF cur \in Registered
       THEN /\ cur' = NextOf(cur)
            /\ IF cur[2] = evt[item][1] THEN Callback(cur[1], evt[item]) ELSE Unchanged
       ELSE /\ cur' \in Registered \cup {Null}
            /\ Unchanged

FinishEvent ==
    /\ cur = Null
    /\ DeleteItem
    /\ UNCHANGED dispVars

ProcessThread == TakeEvent \/ WaitForEvent \/ ProcessRegistration \/ FinishEvent

Next ==
    \/ \E n \in LinkEvents, i \in Ifaces : PostLink(<<n, i>>)
    \/ Wakeup
    \/ ProcessThread

Spec == Init /\ [][Next]_vars

\* The thread of the queue runs whenever it can: nothing else holds the mutex
\* for longer than an enqueue.
FairSpec == Spec /\ WF_vars(ProcessThread)

(***************************************************************************)
(* Properties.                                                             *)
(***************************************************************************)
DispEvents == (LinkEvents \cup {"DELETE_SELF"}) \X Ifaces
ASSUME DispAssumption == DispEvents \subseteq Events /\ Mgr \notin Ifaces

RegNodes == {<<Mgr, "LINK_UP">>} \cup
            Ifaces \X {"LINK_DOWN", "DELETE_SELF", "STATS_UPDATE"}

\* Queue, registrations and instances are what the structures of IPACM can hold.
TypeOK ==
    /\ {QHead, QTail, item} \subseteq Msgs \cup {NoMsg}
    /\ m_next \in [Msgs -> Msgs \cup {NoMsg}]
    /\ evt \in [Msgs -> Events \cup {NoEvent}]
    /\ allocated \subseteq Msgs
    /\ waiting \in BOOLEAN
    /\ Registered \subseteq RegNodes
    /\ cur \in RegNodes \cup {Null}
    /\ inst \in [Ifaces -> InstStates]
    /\ cat \in [Ifaces -> {"unknown", "lan", "wlan", "wan"}]

\* ProcessEvt only follows registrations that exist.  Deleting an instance in
\* the middle of a walk frees its registrations; the walk survives because
\* every handler that deletes its instance belongs to the instance's last one.
WalkSafe == cur \in Registered \cup {Null}

\* An instance that exists, and only such an instance, is registered, once for
\* each of its events: nothing calls back a deleted object.
RegistrationsMatchInstances ==
    /\ Cardinality(Registered) = Len(regs)
    /\ \A i \in Ifaces : {n[2] : n \in {r \in Registered : r[1] = i}} =
          IF inst[i] = "none" THEN {}
          ELSE {Registrations(Kind[i])[k] : k \in 1 .. Len(Registrations(Kind[i]))}

\* Neither the walk over the registrations, nor a registration, nor the queue leads
\* to memory that was freed, and no message is lost from the queue.
NothingFreedReached == TypeOK /\ WalkSafe /\ RegistrationsMatchInstances /\ QueuedAreAllocated

\* Every message that is posted is processed and deleted: no wakeup is lost
\* between the check for an empty queue and the wait.
MessagesProcessed == \A m \in Msgs : []<>(m \notin allocated)

\* An instance whose link went down is deleted in the end.
InactiveDeleted == \A i \in Ifaces : []<>(inst[i] # "inactive")

\* What is posted to the dispatcher is served: MessagesProcessed, and through the
\* message an instance posts to itself InactiveDeleted.
DispatcherServes == MessagesProcessed /\ InactiveDeleted

\* "iface %s already up and act as %d mode" (IPACM_IfaceManager::event_callback):
\* an access point that is not unknown any more has an instance.
KnownAccessPointHasInstance ==
    \A i \in Ifaces : Kind[i] = "wlan" /\ cat[i] = "wlan" => inst[i] # "none"
==============================================================================
