------------------------------ MODULE RilEvents ------------------------------
(***************************************************************************)
(* The event loop of libril (ril_event.cpp and the part of ril.cpp that    *)
(* runs it) and what it is used for: the timers that take the partial wake *)
(* lock off the device again.                                              *)
(*                                                                         *)
(* A thread of the vendor library takes the wake lock for an answer or an  *)
(* indication and arms a timer; the client's acknowledgement releases it,  *)
(* the timer does when no acknowledgement comes.  Arming another timer     *)
(* cancels the previous one by a mark in it, which the loop reads when the *)
(* timer fires.  From RIL version 13 on the lock is counted, under a       *)
(* mutex; before, an indication takes the lock first and arms the timer    *)
(* when it was delivered, without a mutex.                                 *)
(*                                                                         *)
(* A timer's due time is kept as the ticks left; it has expired when less  *)
(* than none are left, for the loop compares with now > timeout.  The loop *)
(* reads the list and sleeps in select until the first timer is due or a   *)
(* byte is in the wake-up pipe.                                            *)
(***************************************************************************)
EXTENDS Integers, Sequences, FiniteSets, Functions

CONSTANTS VendorThreads, \* threads of the vendor library
          WAKE_TIMEOUT,  \* TIMEVAL_WAKE_TIMEOUT, in ticks
          MaxTimers      \* timers armed in a behaviour

ASSUME LoopAssumption == /\ WAKE_TIMEOUT \in Nat \ {0} /\ MaxTimers \in Nat
                         /\ "none" \notin VendorThreads

VARIABLES
  rilVersion,     \* s_callbacks.version
  timer_list,  \* armed timers in the order of the list, each [id, left]
  pending,     \* pending_list: timers and "wakeup", to be fired
  cancelled,   \* timers whose userParam was set to 1
  pipe,        \* bytes in the wake-up pipe (0, 1: one or more)
  loop,        \* where the loop thread is: [pc, tv, firing, param]
  held,        \* the partial wake lock is held
  count,       \* s_wakelock_count
  last,        \* s_last_wake_timeout_info: a timer, or 0
  mutex,       \* holder of s_wakeLockCountMutex, or "none"
  user,        \* what each vendor thread is doing
  made         \* timers armed so far

eventVars == <<rilVersion, timer_list, pending, cancelled, pipe, loop, held, count, last, mutex,
               user, made>>

Forever == -2
LoopAt(pc) == loop.pc = pc

EventsInit ==
  /\ rilVersion \in {12, 13}
  /\ timer_list = << >> /\ pending = << >> /\ cancelled = {} /\ pipe = 0
  /\ loop = [pc |-> "start", tv |-> Forever, firing |-> 0, param |-> FALSE]
  /\ held = FALSE /\ count = 0 /\ last = 0 /\ mutex = "none"
  /\ user = [t \in VendorThreads |-> [pc |-> "idle", timer |-> 0, seen |-> 0]]
  /\ made = 0

(***************************************************************************)
(* Arming a timer: internalRequestTimedCallback puts it into the sorted    *)
(* list, before the first timer that is not due earlier, and wakes the     *)
(* loop.  Until the loop has made its pipe the byte goes astray.           *)
(***************************************************************************)
\* How many timers at the head of the list are due earlier: both loops over
\* the list stop at the first that is not.
DueBefore(left) ==
  Cardinality({i \in DOMAIN timer_list : \A j \in 1..i : timer_list[j].left < left})

ril_timer_add(id, left) ==
  LET k == DueBefore(left)
  IN timer_list' = SubSeq(timer_list, 1, k) \o <<[id |-> id, left |-> left]>>
                     \o SubSeq(timer_list, k + 1, Len(timer_list))

\* Mutant of triggerEvLoop: the loop is not woken.
triggerEvLoop_Dropped == pipe' = pipe

triggerEvLoop == pipe' = IF LoopAt("start") THEN pipe ELSE 1

internalRequestTimedCallback(id) ==
  /\ made < MaxTimers
  /\ made' = made + 1
  /\ ril_timer_add(id, WAKE_TIMEOUT)
  /\ triggerEvLoop

\* Marking a timer: one that was fired and freed meanwhile is not looked at again.
Cancel(id) == cancelled' = cancelled \cup ({id} \ {0})

(***************************************************************************)
(* grabPartialWakeLock, version 13 and later, under the mutex.  The loop   *)
(* clears s_last_wake_timeout_info without the mutex, so that the value    *)
(* read here may be gone when it is used.  Without memory for a timer the  *)
(* lock is given back at once.                                             *)
(***************************************************************************)
GrabPartialWakeLock(t) ==
  /\ rilVersion >= 13 /\ user[t].pc = "idle" /\ mutex = "none"
  /\ \/ /\ internalRequestTimedCallback(made + 1)
        /\ mutex' = t /\ held' = TRUE /\ count' = count + 1
        /\ user' = [user EXCEPT ![t] = [pc |-> "grabbed", timer |-> made + 1, seen |-> last]]
     \/ /\ held' = FALSE
        /\ UNCHANGED <<made, timer_list, pipe, mutex, count, user>>
  /\ UNCHANGED <<rilVersion, pending, cancelled, loop, last>>

\* Mutant of RememberTimer: the new timer is marked cancelled instead of the
\* last one.
RememberTimer_Late(t) ==
  /\ user[t].pc = "grabbed"
  /\ Cancel(user[t].timer) /\ last' = user[t].timer
  /\ mutex' = "none"
  /\ user' = [user EXCEPT ![t] = [pc |-> "idle", timer |-> 0, seen |-> 0]]
  /\ UNCHANGED <<rilVersion, timer_list, pending, pipe, loop, held, count, made>>

RememberTimer(t) ==
  /\ user[t].pc = "grabbed"
  /\ Cancel(user[t].seen) /\ last' = user[t].timer
  /\ mutex' = "none"
  /\ user' = [user EXCEPT ![t] = [pc |-> "idle", timer |-> 0, seen |-> 0]]
  /\ UNCHANGED <<rilVersion, timer_list, pending, pipe, loop, held, count, made>>

\* An indication before version 13: the lock is taken, the indication is
\* delivered, and then a timer is armed, or the lock released without one.
WakeForIndication(t) ==
  /\ rilVersion < 13 /\ user[t].pc = "idle" /\ made < MaxTimers
  /\ held' = TRUE
  /\ user' = [user EXCEPT ![t].pc = "delivering"]
  /\ UNCHANGED <<rilVersion, timer_list, pending, cancelled, pipe, loop, count, last, mutex, made>>

ScheduleTimeout(t) ==
  /\ user[t].pc = "delivering"
  /\ user' = [user EXCEPT ![t].pc = "idle"]
  /\ \/ /\ internalRequestTimedCallback(made + 1)
        /\ Cancel(last) /\ last' = made + 1 /\ held' = held
     \/ /\ held' = FALSE
        /\ UNCHANGED <<timer_list, pipe, made, cancelled, last>>
  /\ UNCHANGED <<rilVersion, pending, loop, count, mutex>>

\* responseAcknowledgement: the client acknowledges, releaseWakeLock.
ReleaseWakeLock ==
  /\ IF rilVersion >= 13
     THEN /\ mutex = "none"
          /\ IF count > 1 THEN count' = count - 1 /\ UNCHANGED <<held, cancelled>>
             ELSE count' = 0 /\ held' = FALSE /\ Cancel(last)
     ELSE held' = FALSE /\ UNCHANGED <<count, cancelled>>
  /\ UNCHANGED <<rilVersion, timer_list, pending, pipe, loop, last, mutex, user, made>>

(***************************************************************************)
(* The loop thread.                                                        *)
(***************************************************************************)
\* eventLoop tells RIL_startEventLoop that it runs before it makes the pipe.
StartLoop ==
  /\ LoopAt("start")
  /\ loop' = [loop EXCEPT !.pc = "calc"] /\ pipe' = 1
  /\ UNCHANGED <<rilVersion, timer_list, pending, cancelled, held, count, last, mutex, user, made>>

\* calcNextTimeout, without the mutex of the lists.
CalcNextTimeout ==
  /\ LoopAt("calc")
  /\ loop' = [loop EXCEPT !.pc = "select",
                          !.tv = IF timer_list = << >> THEN Forever
                                 ELSE IF timer_list[1].left > 0 THEN timer_list[1].left ELSE 0]
  /\ UNCHANGED <<rilVersion, timer_list, pending, cancelled, pipe, held, count, last, mutex, user,
                 made>>

\* select returns: expired timers and then readable files are queued.
ProcessReadies ==
  /\ LoopAt("select") /\ (pipe = 1 \/ loop.tv = 0)
  /\ LET k == DueBefore(0) IN
     /\ timer_list' = SubSeq(timer_list, k + 1, Len(timer_list))
     /\ pending' = [i \in 1..k |-> timer_list[i].id]
                     \o (IF pipe = 1 THEN <<0>> ELSE << >>)
  /\ loop' = [loop EXCEPT !.pc = "fire", !.tv = Forever]
  /\ UNCHANGED <<rilVersion, cancelled, pipe, held, count, last, mutex, user, made>>

\* firePending: the wake-up callback empties the pipe; a timer's callback is
\* wakeTimeoutCallback, whose parameter is read now.
FirePending ==
  /\ LoopAt("fire")
  /\ IF pending = << >>
     THEN loop' = [loop EXCEPT !.pc = "calc"] /\ UNCHANGED <<pending, pipe>>
     ELSE /\ pending' = Tail(pending)
          /\ pipe' = IF Head(pending) = 0 THEN 0 ELSE pipe
          /\ loop' = IF Head(pending) = 0 THEN loop
                     ELSE [loop EXCEPT !.pc = "timeout", !.firing = Head(pending),
                                       !.param = Head(pending) \in cancelled]
  /\ UNCHANGED <<rilVersion, timer_list, cancelled, held, count, last, mutex, user, made>>

wakeTimeoutCallback ==
  /\ LoopAt("timeout")
  /\ IF loop.param THEN UNCHANGED <<held, count>>
     ELSE /\ rilVersion >= 13 => mutex = "none"
          /\ held' = FALSE /\ count' = IF rilVersion >= 13 THEN 0 ELSE count
  /\ loop' = [loop EXCEPT !.pc = IF last = loop.firing THEN "forget" ELSE "free"]
  /\ UNCHANGED <<rilVersion, timer_list, pending, cancelled, pipe, last, mutex, user, made>>

\* userTimerCallback forgets the timer, compared in the step before, and frees it.
ForgetTimer ==
  /\ LoopAt("forget") \/ LoopAt("free")
  /\ last' = IF LoopAt("forget") THEN 0 ELSE last
  /\ loop' = [loop EXCEPT !.pc = "fire", !.firing = 0, !.param = FALSE]
  /\ UNCHANGED <<rilVersion, timer_list, pending, cancelled, pipe, held, count, mutex, user, made>>

\* Time passes; a timer that has expired stays expired.
Tick ==
  /\ \/ \E i \in DOMAIN timer_list : timer_list[i].left >= 0
     \/ loop.tv > 0
  /\ timer_list' = [i \in DOMAIN timer_list |->
                      [timer_list[i] EXCEPT !.left = IF @ >= 0 THEN @ - 1 ELSE @]]
  /\ loop' = [loop EXCEPT !.tv = IF @ > 0 THEN @ - 1 ELSE @]
  /\ UNCHANGED <<rilVersion, pending, cancelled, pipe, held, count, last, mutex, user, made>>

LoopStep ==
  StartLoop \/ CalcNextTimeout \/ ProcessReadies \/ FirePending \/ wakeTimeoutCallback \/ ForgetTimer

UserStep(t) ==
  GrabPartialWakeLock(t) \/ RememberTimer(t) \/ WakeForIndication(t) \/ ScheduleTimeout(t)

EventsNext == LoopStep \/ Tick \/ ReleaseWakeLock \/ \E t \in VendorThreads : UserStep(t)

EventsSpec == EventsInit /\ [][EventsNext]_eventVars

------------------------------------------------------------------------------
Armed == {timer_list[i].id : i \in DOMAIN timer_list} \cup Range(pending)

EventsTypeOK ==
  /\ rilVersion \in {12, 13} /\ cancelled \subseteq 1..MaxTimers /\ last \in 0..MaxTimers
  /\ \A i \in DOMAIN timer_list : timer_list[i].left \in -1..WAKE_TIMEOUT
  /\ held \in BOOLEAN /\ count \in 0..MaxTimers

\* A wake lock that is held will be taken off: a timer that was not
\* cancelled is armed or firing, or a thread is about to arm one.  However
\* grabs, acknowledgements and firing timers interleave, none of them leaves
\* the device awake with nothing to put it back to sleep.
HeldHasTimer ==
  /\ EventsTypeOK
  /\ held => \/ \E id \in Armed \ {0} : id \notin cancelled
             \/ LoopAt("timeout") /\ ~loop.param
             \/ \E t \in VendorThreads : user[t].pc = "delivering"

\* Every timer fires, also one armed by another thread while the loop was
\* about to sleep for longer, or for ever.
TimersServed ==
  \A id \in 1..MaxTimers : []<>(id \notin Armed)

==============================================================================
