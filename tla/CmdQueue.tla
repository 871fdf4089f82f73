------------------------------ MODULE CmdQueue ------------------------------
(***************************************************************************)
(* The command queue of IPACM (data-ipa-cfg-mgr/ipacm/src/                 *)
(* IPACM_CmdQueue.cpp): a linked list of heap objects that any thread      *)
(* extends (PostEvt) and one thread takes from (MessageQueue::Process).    *)
(*                                                                         *)
(* A critical section of the mutex is one step.  The message objects are   *)
(* reused once they are deleted, as a heap does, and keep their m_next     *)
(* until they are constructed again.                                       *)
(***************************************************************************)
EXTENDS Integers, FiniteSets, Sequences

CONSTANTS
    Msgs,       \* the Message objects the heap has room for
    NoMsg,      \* the null pointer
    Events,     \* the events that can be posted
    NoEvent

ASSUME MsgsAssumption == NoMsg \notin Msgs /\ IsFiniteSet(Msgs)
ASSUME EventsAssumption == NoEvent \notin Events

VARIABLES
    QHead, QTail,   \* MessageQueue::Head and Tail
    m_next, evt,    \* the fields of the Message objects
    allocated,      \* the objects that are constructed and not deleted
    item,           \* the message Process works on
    waiting         \* Process is in pthread_cond_wait

queueVars == <<QHead, QTail, m_next, evt, allocated, item, waiting>>

QueueInit ==
    /\ QHead = NoMsg /\ QTail = NoMsg
    /\ m_next = [m \in Msgs |-> NoMsg]
    /\ evt = [m \in Msgs |-> NoEvent]
    /\ allocated = {}
    /\ item = NoMsg
    /\ waiting = FALSE

\* Mutant of PostEvt: the message is put at the head.
PostEvt_AtHead(e) ==
    \E m \in Msgs \ allocated :
        /\ allocated' = allocated \cup {m}
        /\ evt' = [evt EXCEPT ![m] = e]
        /\ QHead' = m
        /\ m_next' = [m_next EXCEPT ![m] = QHead]
        /\ QTail' = IF QHead = NoMsg THEN m ELSE QTail
        /\ waiting' = FALSE
        /\ UNCHANGED item

\* Mutant of PostEvt: nothing is signalled when the queue was not empty before
\* the last dequeue, judged by the tail.
PostEvt_NoSignal(e) ==
    \E m \in Msgs \ allocated :
        /\ allocated' = allocated \cup {m}
        /\ evt' = [evt EXCEPT ![m] = e]
        /\ QHead' = IF QHead = NoMsg THEN m ELSE QHead
        /\ m_next' = [n \in Msgs |-> IF n = m THEN NoMsg
                                    ELSE IF QHead # NoMsg /\ n = QTail THEN m
                                    ELSE m_next[n]]
        /\ QTail' = m
        /\ waiting' = (waiting /\ QTail # NoMsg)
        /\ UNCHANGED item

\* PostEvt: construct the message; under the mutex, enqueue and signal.
PostEvt(e) ==
    \E m \in Msgs \ allocated :
        /\ allocated' = allocated \cup {m}
        /\ evt' = [evt EXCEPT ![m] = e]
        /\ IF QHead = NoMsg
           THEN /\ QHead' = m
                /\ m_next' = [m_next EXCEPT ![m] = NoMsg]
           ELSE /\ m_next' = [m_next EXCEPT ![m] = NoMsg, ![QTail] = m]
                /\ UNCHANGED QHead
        /\ QTail' = m
        /\ waiting' = FALSE
        /\ UNCHANGED item

\* Process with the mutex: take the first message ...
Dequeue ==
    /\ item = NoMsg /\ ~waiting
    /\ QHead # NoMsg
    /\ item' = QHead
    /\ QHead' = m_next[QHead]
    /\ UNCHANGED <<QTail, m_next, evt, allocated, waiting>>

\* ... or wait for a signal, which may also come for no reason.
CondWait ==
    /\ item = NoMsg /\ ~waiting
    /\ QHead = NoMsg
    /\ waiting' = TRUE
    /\ UNCHANGED <<QHead, QTail, m_next, evt, allocated, item>>

SpuriousWakeup ==
    /\ waiting
    /\ waiting' = FALSE
    /\ UNCHANGED <<QHead, QTail, m_next, evt, allocated, item>>

\* delete item, after its callback.
DeleteItem ==
    /\ item # NoMsg
    /\ allocated' = allocated \ {item}
    /\ item' = NoMsg
    /\ evt' = [evt EXCEPT ![item] = NoEvent]
    /\ UNCHANGED <<QHead, QTail, m_next, waiting>>

QueueNext ==
    \/ \E e \in Events : PostEvt(e)
    \/ Dequeue \/ CondWait \/ SpuriousWakeup \/ DeleteItem

QueueSpec == QueueInit /\ [][QueueNext]_queueVars

(***************************************************************************)
(* The queue as the sequence of events reachable from Head.                *)
(***************************************************************************)
Nth[n \in Nat] == IF n = 0 THEN QHead
                  ELSE IF Nth[n - 1] = NoMsg THEN NoMsg ELSE m_next[Nth[n - 1]]

QueueLength == Cardinality({n \in 0 .. Cardinality(Msgs) : Nth[n] # NoMsg})
Queue == [n \in 1 .. QueueLength |-> evt[Nth[n - 1]]]

Fifo == INSTANCE FifoQueue WITH q <- Queue

\* The linked list is a FIFO queue: what is reachable from Head only changes by
\* an event joining at the end or leaving at the front, although Tail goes on
\* pointing to a message after it was deleted.
ImplementsFifo == Fifo!Spec

\* The messages that exist are the ones reachable from Head and the one that is
\* being processed: enqueue loses no message (it would leak, and its event be
\* forgotten), and neither Head nor the list behind it leads to a deleted one.
QueuedAreAllocated ==
    allocated = ({Nth[n] : n \in 0 .. Cardinality(Msgs)} \cup {item}) \ {NoMsg}
=============================================================================
