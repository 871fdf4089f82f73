------------------------------ MODULE GpsTasks ------------------------------
(***************************************************************************)
(* A message task of the GPS daemon (gps/utils/MsgTask.cpp) from its       *)
(* creation to the end of its thread: the thread with the delegate it      *)
(* shares with its owner (LocThread.cpp) and the blocking queue (msg_q.c). *)
(* Messages are numbered as they are accepted by the queue.                *)
(***************************************************************************)
EXTENDS LocList

CONSTANT MaxSent    \* messages sent to the task

ASSUME TaskAssumption == MaxSent \in Nat

VARIABLES
  ownerAt,      \* "none", "owns", "unblocked", "joining" or "gone"
  threadAt,     \* "none", "new", "loop", "blocked", "handling", "left" or "ended"
  mRunnable,    \* the delegate still names the task
  mJoinable,
  mRefCount,    \* of the delegate, 0 when it is freed
  taskList,     \* the list of the queue, head first
  unblocked,
  qAlive,       \* the queue, and the task it belongs to, are not freed
  accepted,     \* messages the queue has accepted
  handled       \* the messages the thread has taken, in order

taskVars == <<ownerAt, threadAt, mRunnable, mJoinable, mRefCount, taskList, unblocked, qAlive,
              accepted, handled>>

TaskInit ==
  /\ ownerAt = "none" /\ threadAt = "none" /\ mRunnable = FALSE /\ mJoinable = FALSE
  /\ mRefCount = 0 /\ taskList = << >> /\ unblocked = FALSE /\ qAlive = FALSE
  /\ accepted = 0 /\ handled = << >>

\* MsgTask's constructor: the queue, and a thread that may fail to start,
\* in which case the delegate is given up at once.
CreateTask(joinable, started) ==
  /\ ownerAt = "none" /\ ownerAt' = "owns"
  /\ qAlive' = TRUE
  /\ threadAt' = IF started THEN "new" ELSE "none"
  /\ mRunnable' = started /\ mJoinable' = (joinable /\ started)
  /\ mRefCount' = IF started THEN 2 ELSE 0
  /\ UNCHANGED <<taskList, unblocked, accepted, handled>>

\* msg_q_snd: refused once the queue is unblocked.
msg_q_snd ==
  /\ ownerAt \in {"owns", "unblocked"} /\ qAlive
  /\ ~unblocked /\ accepted < MaxSent
  /\ accepted' = accepted + 1
  /\ taskList' = linked_list_add(taskList, accepted + 1)
  /\ UNCHANGED <<ownerAt, threadAt, mRunnable, mJoinable, mRefCount, unblocked, qAlive, handled>>

(***************************************************************************)
(* LocThreadDelegate::threadMain with MsgTask::run.  A thread that finds   *)
(* the task already withdrawn touches nothing but the delegate.            *)
(***************************************************************************)
ThreadStarts ==
  /\ threadAt = "new"
  /\ threadAt' = IF mRunnable THEN "loop" ELSE "left"
  /\ UNCHANGED <<mRunnable, mRefCount, taskList, qAlive, handled>>

\* delete runnable: ~MsgTask flushes and destroys the queue.
Leave ==
  /\ threadAt' = "left" /\ mRunnable' = FALSE
  /\ taskList' = linked_list_flush(taskList) /\ qAlive' = FALSE
  /\ UNCHANGED <<mRefCount, handled>>

Take ==
  /\ threadAt' = "handling"
  /\ handled' = Append(handled, taskList[Len(taskList)])
  /\ taskList' = linked_list_remove(taskList)
  /\ UNCHANGED <<mRunnable, mRefCount, qAlive>>

\* msg_q_rcv: fails when the queue is unblocked, even with messages in it;
\* waits while the list is empty.
msg_q_rcv ==
  /\ threadAt = "loop"
  /\ IF ~mRunnable \/ unblocked THEN Leave
     ELSE IF ~linked_list_empty(taskList) THEN Take
     ELSE threadAt' = "blocked" /\ UNCHANGED <<mRunnable, mRefCount, taskList, qAlive, handled>>

\* After the wait a message is still taken from an unblocked queue.
Wakes ==
  /\ threadAt = "blocked"
  /\ \/ ~linked_list_empty(taskList) /\ Take
     \/ linked_list_empty(taskList) /\ unblocked /\ Leave

Handles ==
  /\ threadAt = "handling" /\ threadAt' = "loop"
  /\ UNCHANGED <<mRunnable, mRefCount, taskList, qAlive, handled>>

ThreadEnds ==
  /\ threadAt = "left" /\ threadAt' = "ended"
  /\ mRefCount' = mRefCount - 1
  /\ UNCHANGED <<mRunnable, taskList, qAlive, handled>>

TaskThread ==
  /\ ThreadStarts \/ msg_q_rcv \/ Wakes \/ Handles \/ ThreadEnds
  /\ UNCHANGED <<ownerAt, mJoinable, unblocked, accepted>>

(***************************************************************************)
(* MsgTask::destroy: the queue is unblocked, then the thread object is     *)
(* deleted (or the task itself, when the thread never started).            *)
(***************************************************************************)
msg_q_unblock ==
  /\ ownerAt = "owns" /\ ownerAt' = "unblocked"
  /\ unblocked' = TRUE
  /\ UNCHANGED <<threadAt, mRunnable, mJoinable, mRefCount, taskList, qAlive, accepted, handled>>

DeleteUnstarted ==
  /\ ownerAt = "unblocked" /\ threadAt = "none"
  /\ ownerAt' = "gone"
  /\ taskList' = linked_list_flush(taskList) /\ qAlive' = FALSE
  /\ UNCHANGED <<threadAt, mRunnable, mJoinable, mRefCount, unblocked, accepted, handled>>

\* Mutant of bye: the delegate is deleted without waiting for the thread.
bye_NoJoin ==
  /\ ownerAt = "unblocked" /\ threadAt # "none"
  /\ ownerAt' = "gone" /\ mRefCount' = 0 /\ mRunnable' = FALSE
  /\ UNCHANGED <<threadAt, mJoinable, taskList, unblocked, qAlive, accepted, handled>>

\* LocThreadDelegate::bye: a joinable thread is told to stop and joined, a
\* detached one is left to itself.
bye ==
  /\ ownerAt = "unblocked" /\ threadAt # "none"
  /\ IF mJoinable
     THEN ownerAt' = "joining" /\ mRunnable' = FALSE /\ mJoinable' = FALSE /\ UNCHANGED mRefCount
     ELSE ownerAt' = "gone" /\ mRefCount' = mRefCount - 1 /\ UNCHANGED <<mRunnable, mJoinable>>
  /\ UNCHANGED <<threadAt, taskList, unblocked, qAlive, accepted, handled>>

Joined ==
  /\ ownerAt = "joining" /\ threadAt = "ended"
  /\ ownerAt' = "gone" /\ mRefCount' = mRefCount - 1
  /\ UNCHANGED <<threadAt, mRunnable, mJoinable, taskList, unblocked, qAlive, accepted, handled>>

TaskNext ==
  \/ \E joinable, started \in BOOLEAN : CreateTask(joinable, started)
  \/ msg_q_snd \/ TaskThread
  \/ msg_q_unblock \/ DeleteUnstarted \/ bye \/ Joined

TaskSpec == TaskInit /\ [][TaskNext]_taskVars

------------------------------------------------------------------------------
TaskTypeOK == mRefCount \in 0..2 /\ accepted \in 0..MaxSent /\ Len(handled) <= MaxSent

\* The delegate a thread shares with its owner is freed by whichever of the
\* two leaves last, the queue is freed only when the thread has left it, and
\* the messages are taken once each and in the order they were accepted.
TaskSafe ==
  /\ ownerAt # "none" /\ mRefCount = 0 => /\ threadAt \in {"none", "ended"}
                                          /\ threadAt = "ended" => ownerAt = "gone"
  /\ ~qAlive => threadAt \notin {"loop", "blocked", "handling"}
  /\ \A i \in DOMAIN handled : handled[i] = i

==============================================================================
