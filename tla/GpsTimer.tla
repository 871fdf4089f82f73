------------------------------ MODULE GpsTimer ------------------------------
(***************************************************************************)
(* The timers of the GPS daemon (gps/utils/LocTimer.cpp).  A client starts *)
(* and stops its timer from threads of its own; every start makes a        *)
(* delegate.  One message thread owns the heap of delegates and arms one   *)
(* timer descriptor for the soonest; one poll thread waits for the         *)
(* descriptor and posts an expiry.  The two threads and the clients meet   *)
(* only in the message queue, the descriptor and the client's lock.        *)
(*                                                                         *)
(* The heap (gps/utils/LocHeap.cpp) comes first, as operators on trees,    *)
(* with what each of them has to compute.  A tree is << >> or              *)
(* <<data, left, right, size>>.  Data are records with an id (the address) *)
(* and a due time; the earlier one outranks.                               *)
(***************************************************************************)
EXTENDS Integers, Sequences, FiniteSets

CONSTANTS Clients,     \* LocTimer objects
          MaxTime,     \* the end of the clock
          MaxStarts    \* starts, over all clients

------------------------------------------------------------------------------
(* The heap. *)

NoTree == << >>
Leaf(d) == <<d, NoTree, NoTree, 1>>
SizeOf(t) == IF t = NoTree THEN 0 ELSE t[4]
outRanks(d, e) == d.due < e.due

\* LocHeapNode::push: the node that ranks lower moves on, into the smaller
\* subtree.
RECURSIVE pushNode(_, _)
pushNode(t, d) ==
  LET up   == IF outRanks(d, t[1]) THEN d ELSE t[1]
      down == IF outRanks(d, t[1]) THEN t[1] ELSE d
      size == t[4] + 1 IN
  CASE t[2] = NoTree -> <<up, Leaf(down), t[3], size>>
    [] t[2] # NoTree /\ t[3] = NoTree -> <<up, t[2], Leaf(down), size>>
    [] t[2] # NoTree /\ t[3] # NoTree /\ t[2][4] <= t[3][4] ->
         <<up, pushNode(t[2], down), t[3], size>>
    [] OTHER -> <<up, t[2], pushNode(t[3], down), size>>

heapPush(t, d) == IF t = NoTree THEN Leaf(d) ELSE pushNode(t, d)

\* LocHeapNode::pop: the tree without its top, whose place the higher
\* ranking child takes.
RECURSIVE popNode(_)
popNode(t) ==
  LET left == /\ t[2] # NoTree
              /\ t[3] = NoTree \/ outRanks(t[2][1], t[3][1]) IN
  CASE t[2] = NoTree /\ t[3] = NoTree -> NoTree
    [] left -> <<t[2][1], popNode(t[2]), t[3], t[4] - 1>>
    [] OTHER -> <<t[3][1], t[2], popNode(t[3]), t[4] - 1>>

\* LocHeapNode::remove: the tree without d, the tree itself when d is not
\* in it.  A subtree whose top d outranks is not searched.
RECURSIVE heapRemove(_, _)
heapRemove(t, d) ==
  IF t = NoTree THEN NoTree
  ELSE IF t[1].id = d.id THEN popNode(t)
  ELSE IF outRanks(d, t[1]) THEN t
  ELSE LET left  == heapRemove(t[2], d)
           right == heapRemove(t[3], d) IN
       CASE left # t[2] -> <<t[1], left, t[3], t[4] - 1>>
         [] left = t[2] /\ right # t[3] -> <<t[1], t[2], right, t[4] - 1>>
         [] OTHER -> t

heapPop(t) == IF t = NoTree THEN NoTree ELSE popNode(t)
NoData == [id |-> 0, due |-> 0]
Peek(t) == IF t = NoTree THEN NoData ELSE t[1]

RECURSIVE DataOf(_)
DataOf(t) == IF t = NoTree THEN {} ELSE {t[1]} \cup DataOf(t[2]) \cup DataOf(t[3])

\* LocHeapNode::checkTree
RECURSIVE checkNodes(_)
checkNodes(t) ==
  t = NoTree \/ /\ t[4] = 1 + SizeOf(t[2]) + SizeOf(t[3])
                /\ \A i \in {2, 3} : t[i] = NoTree \/ ~outRanks(t[i][1], t[1])
                /\ checkNodes(t[2]) /\ checkNodes(t[3])

RECURSIVE Pushed(_)
Pushed(s) == IF s = << >> THEN NoTree
             ELSE heapPush(Pushed(SubSeq(s, 1, Len(s) - 1)), s[Len(s)])

\* Every heap of up to n timers, by the order of the pushes and the due times.
Heaps(n) == {Pushed([i \in 1..k |-> [id |-> i, due |-> f[i]]]) :
               k \in 0..n, f \in [1..n -> 1..3]}

\* Whatever is pushed, popped and removed, and with equal due times, the
\* tree stays a heap with right sizes and loses exactly what was taken.
HeapCorrect(n) ==
  \A t \in Heaps(n) :
    /\ checkNodes(t) /\ Cardinality(DataOf(t)) = SizeOf(t)
    /\ t # NoTree => /\ \A d \in DataOf(t) : ~outRanks(d, Peek(t))
                     /\ checkNodes(heapPop(t)) /\ DataOf(heapPop(t)) = DataOf(t) \ {Peek(t)}
    /\ \A d \in DataOf(t) :
         LET r == heapRemove(t, d) IN
         /\ checkNodes(r) /\ DataOf(r) = DataOf(t) \ {d}
         /\ \A due \in 1..3 : heapRemove(r, [id |-> d.id, due |-> due]) = r

------------------------------------------------------------------------------
(* The timers. *)

VARIABLES
  now,        \* CLOCK_BOOTTIME
  mTimer,     \* per client, its delegate or NoData
  mClient,    \* per delegate, its client or "none"
  timerTree,  \* the heap
  timerMsgs,  \* the queue of the message thread
  armed,      \* the time the descriptor is set to, 0 when disarmed
  polled,     \* the descriptor is in the epoll set
  polling,    \* where the poll thread is
  expiring,   \* the message thread in MsgTimerExpire: {} or {[client, since]}
  fate        \* per delegate: "unused", "running", "stopped" or "fired"

timerVars == <<now, mTimer, mClient, timerTree, timerMsgs, armed, polled, polling, expiring, fate>>

Delegates == 1..MaxStarts

TimerInit ==
  /\ now = 1
  /\ mTimer = [c \in Clients |-> NoData] /\ mClient = [i \in Delegates |-> "none"]
  /\ timerTree = NoTree /\ timerMsgs = << >>
  /\ armed = 0 /\ polled = FALSE /\ polling = "wait" /\ expiring = {}
  /\ fate = [i \in Delegates |-> "unused"]

(***************************************************************************)
(* LocTimer::start and stop, under the client's lock.                      *)
(***************************************************************************)
StartTimer(c, delay) ==
  /\ mTimer[c] = NoData
  /\ \E i \in Delegates :
       /\ fate[i] = "unused" /\ \A j \in 1..(i - 1) : fate[j] # "unused"
       /\ now + delay <= MaxTime
       /\ LET d == [id |-> i, due |-> now + delay] IN
          /\ mTimer' = [mTimer EXCEPT ![c] = d]
          /\ timerMsgs' = Append(timerMsgs, <<"push", d>>)
       /\ mClient' = [mClient EXCEPT ![i] = c]
       /\ fate' = [fate EXCEPT ![i] = "running"]
  /\ UNCHANGED <<now, timerTree, armed, polled, polling, expiring>>

\* The delegate forgets its client and a message deletes it.
Stop(c, outcome) ==
  /\ mTimer' = [mTimer EXCEPT ![c] = NoData]
  /\ mClient' = [mClient EXCEPT ![mTimer[c].id] = "none"]
  /\ timerMsgs' = Append(timerMsgs, <<"remove", mTimer[c]>>)
  /\ fate' = [fate EXCEPT ![mTimer[c].id] = outcome]

StopTimer(c) ==
  /\ mTimer[c] # NoData
  /\ Stop(c, "stopped")
  /\ UNCHANGED <<now, timerTree, armed, polled, polling, expiring>>

(***************************************************************************)
(* The message thread.                                                     *)
(***************************************************************************)
updateSoonestTime(priorTop, tree) ==
  LET curTop == Peek(tree) IN
  IF curTop # priorTop /\ curTop = NoData
  THEN polled' = FALSE /\ armed' = 0
  ELSE IF curTop # priorTop /\ (priorTop = NoData \/ outRanks(curTop, priorTop))
  THEN polled' = TRUE /\ armed' = curTop.due
  ELSE UNCHANGED <<polled, armed>>

TakeTimerMsg(kind) ==
  /\ expiring = {} /\ timerMsgs # << >>
  /\ Head(timerMsgs)[1] = kind
  /\ timerMsgs' = Tail(timerMsgs)
  /\ UNCHANGED <<now, mTimer, mClient, polling, fate>>

MsgTimerPush ==
  /\ TakeTimerMsg("push")
  /\ timerTree' = heapPush(timerTree, Head(timerMsgs)[2])
  /\ updateSoonestTime(Peek(timerTree), timerTree')
  /\ UNCHANGED expiring

\* The descriptor is set anew when the removed timer was the soonest, or
\* when there was nothing to remove and the heap is empty.
MsgTimerRemove ==
  /\ TakeTimerMsg("remove")
  /\ LET d == Head(timerMsgs)[2]
         removed == IF d \in DataOf(timerTree) THEN d ELSE NoData IN
     /\ timerTree' = heapRemove(timerTree, d)
     /\ IF Peek(timerTree) = removed THEN updateSoonestTime(NoData, timerTree')
        ELSE UNCHANGED <<polled, armed>>
  /\ UNCHANGED expiring

\* The top is popped whatever its time; its client is read without a lock.
Popped(since) ==
  /\ timerTree' = heapPop(timerTree)
  /\ expiring' = {[client |-> mClient[Peek(timerTree).id], since |-> since]}
  /\ UNCHANGED <<armed, polled>>

MsgTimerExpire ==
  /\ TakeTimerMsg("expire")
  /\ IF timerTree # NoTree THEN Popped(now)
     ELSE UNCHANGED <<timerTree, expiring, armed, polled>>

\* Mutant of PopMore: the timer is not set to the next expiry.
PopMore_NoRearm(e) ==
  IF timerTree # NoTree /\ Peek(timerTree).due <= e.since THEN Popped(e.since)
  ELSE expiring' = {} /\ UNCHANGED <<timerTree, armed, polled>>

\* popIfOutRanks, and the end of the message when it pops nothing.
PopMore(e) ==
  IF timerTree # NoTree /\ Peek(timerTree).due <= e.since THEN Popped(e.since)
  ELSE /\ expiring' = {} /\ UNCHANGED timerTree
       /\ updateSoonestTime(NoData, timerTree)

\* LocTimerDelegate::expire: the client's timer, by now perhaps another
\* one, is stopped and the client is called back.
DelegateExpires(e) ==
  /\ IF e.client # "none" /\ mTimer[e.client] # NoData
     THEN Stop(e.client, "fired")
     ELSE UNCHANGED <<mTimer, mClient, timerMsgs, fate>>
  /\ PopMore(e)
  /\ UNCHANGED <<now, polling>>

TimerMsgThread ==
  \/ MsgTimerPush \/ MsgTimerRemove \/ MsgTimerExpire
  \/ \E e \in expiring : DelegateExpires(e)

(***************************************************************************)
(* LocTimerPollTask::run and LocTimerContainer::expire, on the poll thread.*)
(***************************************************************************)
PollWakes ==
  /\ polling = "wait" /\ polled /\ armed # 0 /\ armed <= now
  /\ polling' = "disarm"
  /\ UNCHANGED <<armed, polled, timerMsgs>>

PollDisarms ==
  /\ polling = "disarm" /\ polling' = "unpoll"
  /\ armed' = 0 /\ UNCHANGED <<polled, timerMsgs>>

PollRemoves ==
  /\ polling = "unpoll" /\ polling' = "send"
  /\ polled' = FALSE /\ UNCHANGED <<armed, timerMsgs>>

PollSends ==
  /\ polling = "send" /\ polling' = "wait"
  /\ timerMsgs' = Append(timerMsgs, <<"expire", NoData>>)
  /\ UNCHANGED <<armed, polled>>

TimerPollThread ==
  /\ PollWakes \/ PollDisarms \/ PollRemoves \/ PollSends
  /\ UNCHANGED <<now, mTimer, mClient, timerTree, expiring, fate>>

TimePasses ==
  /\ now < MaxTime /\ now' = now + 1
  /\ UNCHANGED <<mTimer, mClient, timerTree, timerMsgs, armed, polled, polling, expiring, fate>>

TimerNext ==
  \/ \E c \in Clients, delay \in 0..2 : StartTimer(c, delay)
  \/ \E c \in Clients : StopTimer(c)
  \/ TimerMsgThread \/ TimerPollThread \/ TimePasses

------------------------------------------------------------------------------
TimerTypeOK ==
  /\ now \in 1..MaxTime /\ armed \in 0..MaxTime
  /\ polling \in {"wait", "disarm", "unpoll", "send"}
  /\ checkNodes(timerTree) /\ Cardinality(expiring) <= 1

\* A timer that is started and not stopped fires, however its start, its
\* expiry and the starts and stops of other timers fall between the steps
\* of the poll thread and the message thread; the heap of timers stays one.
TimerFires == []TimerTypeOK /\ \A i \in Delegates : []<>(fate[i] # "running")

==============================================================================
