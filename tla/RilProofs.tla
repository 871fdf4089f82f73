------------------------------ MODULE RilProofs -------------------------------
(***************************************************************************)
(* Proofs about libril: the lock, the counters and the callbacks of the    *)
(* radio services (RadioService), and the wake lock with the timers of the *)
(* event loop (RilEvents).                                                 *)
(***************************************************************************)
EXTENDS RadioService, RilEvents, FiniteSetTheorems, TLAPS

------------------------------------------------------------------------------
(* The radio services. *)

\* The places of a thread in a delivery.
PcValues == {"idle", "lock", "call", "failed", "wrlock", "rdlock", "unlock"}

\* The threads that hold the lock for reading. A refusal never does.
ReadHolders ==
  {t \in Threads : /\ thread[t].pc \in {"call", "failed", "unlock"}
                   /\ thread[t].kind # "refusal" /\ writer # t}

\* The reader a refusal has taken off and not yet put back: checkReturnStatus
\* unlocks and relocks a lock that its caller on the binder thread did not
\* take.
Borrowed ==
  IF thread[Binder].kind = "refusal" /\ thread[Binder].pc \in {"wrlock", "rdlock"} THEN 1 ELSE 0

\* A thread's delivery.
ThreadRecs == [pc : PcValues, service : {"radio", "oemhook"}, kind : Kinds, seen : Nat]

\* Which deliveries a thread makes: a refusal and a resend are the binder
\* thread's, NITZ the vendor's, and a refusal begins after the lock.
Fits(t, r) == r.pc # "idle" =>
  /\ r.service \in Services
  /\ r.kind \in IF t = Binder THEN {"deliver", "resend", "refusal"} ELSE {"deliver", "nitz"}
  /\ r.pc = "lock" => r.kind # "refusal"

\* Every thread is in a delivery of its own.
ThreadTypes == thread \in [Threads -> ThreadRecs] /\ \A t \in Threads : Fits(t, thread[t])

\* The types of the services' state.
ServiceTypes ==
  /\ readers \in Nat /\ writer \in Threads \cup {NoThread}
  /\ cb \in [Services -> Nat] /\ counter \in [Services -> Nat] /\ alive \in [Services -> Nat]
  /\ born \in [Services -> Nat] /\ newcomer \in [Services -> Nat]
  /\ todo \in Seq({"deliver", "resend"})
  /\ todo # << >> => "radio" \in Services
  /\ ThreadTypes

\* Callbacks are those of clients that were started.
Generations == \A s \in Services : cb[s] <= born[s] /\ newcomer[s] <= born[s]

\* The lock's count of readers is the number of threads that hold it, but for
\* the reader a refusal has borrowed.
ReadersCounted == readers + Borrowed = Cardinality(ReadHolders)

\* The lock is held for writing exactly by the delivery of a NITZ time.
WriterKnown ==
  /\ writer # NoThread => /\ thread[writer].kind = "nitz"
                          /\ thread[writer].pc \in {"call", "failed", "unlock"}
  /\ \A t \in Threads : thread[t].kind = "nitz" /\ thread[t].pc \in {"call", "failed"} => writer = t

\* The lock agrees with where the threads are.
LockHeld == ReadersCounted /\ WriterKnown

\* The callback belongs to no running client.
DeadCallback(s) == cb[s] = 0 \/ cb[s] # alive[s]

\* A thread whose call failed has seen the callback dead, and while the
\* counter is the one it noted, the callback is still that one.
Noted(t) == LET s == thread[t].service IN
  /\ thread[t].pc = "failed" => DeadCallback(s)
  /\ thread[t].pc = "wrlock" => /\ thread[t].seen <= counter[s]
                                /\ thread[t].seen = counter[s] => DeadCallback(s)

\* What each thread in checkReturnStatus knows of the callback.
FailureNoted == \A t \in Threads : Noted(t)

\* The inductive invariant of the services. That a running client's callback
\* is kept needs the lock (a setResponseFunctions cannot come between the
\* failed call and the note of the counter) and the counter (one that comes
\* between the note and the write lock is noticed).
ServiceInv == ServiceTypes /\ Generations /\ LockHeld /\ FailureNoted

\* The binder thread is one of finitely many threads, and no vendor thread.
LEMMA ThreadFacts ==
  /\ Binder \in Threads /\ NoThread \notin Threads /\ IsFiniteSet(Threads)
  /\ \A t \in Threads : t # Binder => t \in Vendor
<1>1. IsFiniteSet({Binder})
  BY Zenon, FS_Singleton
<1>2. IsFiniteSet(Threads)
  BY Zenon, <1>1, FS_Union, ServiceAssumption DEF Threads
<1> QED BY Zenon, <1>2, ServiceAssumption DEF Threads, Binder, NoThread

\* The invariant holds when the services are registered.
LEMMA ServiceInitInv == ServiceInit => ServiceInv
<1> SUFFICES ASSUME ServiceInit PROVE ServiceInv
  BY Zenon
<1>1. ServiceTypes
  BY DEF ServiceInit, ServiceTypes, ThreadTypes, ThreadRecs, Fits, IdleThread, PcValues, Kinds
<1>2. Generations
  BY DEF ServiceInit, Generations
<1>3. ReadHolders = {} /\ Borrowed = 0
  BY Zenon, ThreadFacts DEF ServiceInit, ReadHolders, Borrowed, IdleThread
<1>4. LockHeld
  BY <1>3, FS_EmptySet DEF ServiceInit, LockHeld, ReadersCounted, WriterKnown, IdleThread
<1>5. FailureNoted
  BY Zenon DEF ServiceInit, FailureNoted, Noted, IdleThread
<1> QED BY Zenon, <1>1, <1>2, <1>4, <1>5 DEF ServiceInv

\* What a client's start changes, without its bound.
LEMMA StartEffect ==
  ASSUME NEW s \in Services, ClientStarts(s)
  PROVE  /\ alive[s] = 0
         /\ born' = [born EXCEPT ![s] = @ + 1]
         /\ alive' = [alive EXCEPT ![s] = born[s] + 1]
         /\ newcomer' = [newcomer EXCEPT ![s] = born[s] + 1]
         /\ UNCHANGED <<readers, writer, cb, counter, thread, todo, saved>>
  BY Zenon DEF ClientStarts

\* A thread that moves to a place that fits keeps the types.
LEMMA ThreadMoves ==
  ASSUME ThreadTypes, NEW t \in Threads, NEW r \in ThreadRecs, Fits(t, r),
         thread' = [thread EXCEPT ![t] = r]
  PROVE  ThreadTypes'
  BY Zenon DEF ThreadTypes

\* A thread in a delivery that only moves on keeps its service and its kind.
LEMMA PcMoves ==
  ASSUME ThreadTypes, NEW t \in Threads, thread[t].pc # "idle", NEW pc \in PcValues \ {"lock"}, NEW seen \in Nat,
         thread' = [thread EXCEPT ![t] = [thread[t] EXCEPT !.pc = pc, !.seen = seen]]
  PROVE  ThreadTypes'
<1> DEFINE r == [thread[t] EXCEPT !.pc = pc, !.seen = seen]
<1>1. thread[t] \in ThreadRecs /\ Fits(t, thread[t])
  BY Zenon DEF ThreadTypes
<1>2. r \in ThreadRecs /\ Fits(t, r)
  BY Zenon, <1>1 DEF ThreadRecs, Fits
<1> QED BY Zenon, <1>2, ThreadMoves

\* Every step keeps the types.
LEMMA TypesStep == ServiceInv /\ [ServiceNext]_serviceVars => ServiceTypes'
<1> SUFFICES ASSUME ServiceInv, [ServiceNext]_serviceVars PROVE ServiceTypes'
  BY Zenon
<1> USE ThreadFacts DEF ServiceInv
<1>1. ASSUME NEW s \in Services, ClientDies(s) PROVE ServiceTypes'
  BY Zenon, <1>1 DEF ClientDies, ServiceTypes, ThreadTypes
<1>2. ASSUME NEW s \in Services, ClientStarts(s) PROVE ServiceTypes'
  <2>1. /\ born' = [born EXCEPT ![s] = @ + 1]
        /\ alive' = [alive EXCEPT ![s] = born[s] + 1]
        /\ newcomer' = [newcomer EXCEPT ![s] = born[s] + 1]
        /\ UNCHANGED <<readers, writer, cb, counter, thread, todo>>
    BY Zenon, <1>2, StartEffect
  <2>2. born[s] + 1 \in Nat
    BY DEF ServiceTypes
  <2> QED BY Zenon, <2>1, <2>2 DEF ServiceTypes, ThreadTypes
<1>3. ASSUME NEW t \in Threads, NEW s \in Services, NEW kind \in Kinds, Begins(t, s, kind),
             kind \in IF t = Binder THEN {"deliver", "resend", "refusal"} ELSE {"deliver", "nitz"},
             UNCHANGED <<readers, writer, cb, counter, alive, born, newcomer>>,
             todo' \in Seq({"deliver", "resend"}), todo' # << >> => "radio" \in Services
      PROVE  ServiceTypes'
  <2>1. ThreadTypes'
    <3> DEFINE r == [pc |-> IF kind = "refusal" THEN "call" ELSE "lock",
                     service |-> s, kind |-> kind, seen |-> 0]
    <3>1. r \in ThreadRecs /\ Fits(t, r)
      BY Zenon, <1>3, ServiceAssumption DEF ThreadRecs, Fits, PcValues
    <3>2. thread' = [thread EXCEPT ![t] = r]
      BY Zenon, <1>3 DEF Begins
    <3> HIDE DEF r
    <3> QED BY Zenon, <3>1, <3>2, ThreadMoves DEF ServiceTypes
  <2> QED BY Zenon, <1>3, <2>1 DEF ServiceTypes
<1>4. ASSUME NEW s \in Services, RequestRefused(s) PROVE ServiceTypes'
  BY Zenon, <1>3, <1>4 DEF RequestRefused, Kinds, ServiceTypes
<1>5. ASSUME NEW s \in Services, NEW t \in Vendor, NEW kind \in Kinds, VendorDelivers(t, s, kind)
      PROVE  ServiceTypes'
  BY <1>3, <1>5, ServiceAssumption DEF VendorDelivers, Kinds, ServiceTypes, Threads, Binder
<1>6. ASSUME NEW s \in Services, setResponseFunctions(s) PROVE ServiceTypes'
  <2>1. todo' \in Seq({"deliver", "resend"}) /\ (todo' # << >> => "radio" \in Services)
    <3>1. <<"deliver", "deliver", "resend">> \in Seq({"deliver", "resend"})
      OBVIOUS
    <3>2. todo' = IF s = "radio" THEN <<"deliver", "deliver", "resend">> ELSE << >>
      BY Zenon, <1>6 DEF setResponseFunctions
    <3>3. CASE s = "radio"
      BY Zenon, <3>1, <3>2, <3>3
    <3>4. CASE s # "radio"
      BY <3>2, <3>4
    <3> QED BY Zenon, <3>3, <3>4
  <2>2. newcomer[s] \in Nat /\ counter[s] + 1 \in Nat
    BY DEF ServiceTypes
  <2> QED BY Zenon, <1>6, <2>1, <2>2 DEF setResponseFunctions, ServiceTypes, ThreadTypes
<1>7. ASSUME onNewCommandConnect PROVE ServiceTypes'
  <2>1. todo \in Seq({"deliver", "resend"}) /\ todo # << >> /\ "radio" \in Services
    BY Zenon, <1>7 DEF onNewCommandConnect, ServiceTypes
  <2>2. todo[1] \in {"deliver", "resend"} /\ Tail(todo) \in Seq({"deliver", "resend"})
    BY <2>1
  <2>3. CASE UNCHANGED thread
    BY Zenon, <1>7, <2>1, <2>2, <2>3 DEF onNewCommandConnect, ServiceTypes, ThreadTypes
  <2>4. CASE Begins(Binder, "radio", todo[1])
    BY Zenon, <1>3, <1>7, <2>1, <2>2, <2>4 DEF onNewCommandConnect, Kinds
  <2> QED BY Zenon, <1>7, <2>3, <2>4 DEF onNewCommandConnect
<1>8. ASSUME NEW t \in Threads, Lock(t) PROVE ServiceTypes'
  <2>1. thread[t] \in ThreadRecs /\ thread[t].pc # "idle" /\ Fits(t, thread[t])
    BY Zenon, <1>8 DEF Lock, At, ServiceTypes, ThreadTypes
  <2>2. thread' = [thread EXCEPT ![t] = [thread[t] EXCEPT !.pc = "call", !.seen = thread[t].seen]]
    BY Zenon, <1>8, <2>1 DEF Lock, MoveTo, ThreadRecs
  <2>3. ThreadTypes'
    BY Zenon, <2>1, <2>2, PcMoves DEF ServiceTypes, ThreadRecs, PcValues, Fits
  <2> QED BY <1>8, <2>1, <2>3 DEF Lock, ServiceTypes, Fits
<1>9. ASSUME NEW t \in Threads, Call(t) PROVE ServiceTypes'
  <2>1. thread[t] \in ThreadRecs /\ thread[t].pc # "idle" /\ Fits(t, thread[t])
    BY Zenon, <1>9 DEF Call, At, ServiceTypes, ThreadTypes
  <2>2. PICK pc \in {"failed", "unlock"} : thread' = [thread EXCEPT ![t].pc = pc]
    BY Zenon, <1>9 DEF Call, MoveTo
  <2>3. thread' = [thread EXCEPT ![t] = [thread[t] EXCEPT !.pc = pc, !.seen = thread[t].seen]]
    BY Zenon, <2>1, <2>2 DEF ThreadRecs
  <2>4. ThreadTypes'
    BY Zenon, <2>1, <2>3, PcMoves DEF ServiceTypes, ThreadRecs, PcValues, Fits
  <2> QED BY Zenon, <1>9, <2>1, <2>4 DEF Call, ServiceTypes, Fits
<1>10. ASSUME NEW t \in Threads, NoteCounter(t) PROVE ServiceTypes'
  <2>1. thread[t] \in ThreadRecs /\ thread[t].pc # "idle" /\ Fits(t, thread[t])
    BY Zenon, <1>10 DEF NoteCounter, At, ServiceTypes, ThreadTypes
  <2>2. thread' = [thread EXCEPT ![t] = [thread[t] EXCEPT !.pc = "wrlock", !.seen = counter[thread[t].service]]]
    BY Zenon, <1>10, <2>1 DEF NoteCounter, MoveTo, ThreadRecs
  <2>3. ThreadTypes'
    BY Zenon, <2>1, <2>2, PcMoves DEF ServiceTypes, ThreadRecs, PcValues, Fits
  <2> QED BY <1>10, <2>1, <2>3 DEF NoteCounter, ServiceTypes, Fits
<1>11. ASSUME NEW t \in Threads, ForgetCallbacks(t) PROVE ServiceTypes'
  <2>1. thread[t] \in ThreadRecs /\ thread[t].pc # "idle" /\ Fits(t, thread[t])
    BY Zenon, <1>11 DEF ForgetCallbacks, At, ServiceTypes, ThreadTypes
  <2>2. thread' = [thread EXCEPT ![t] = [thread[t] EXCEPT !.pc = "rdlock", !.seen = thread[t].seen]]
    BY ZenonT(30), <1>11, <2>1 DEF ForgetCallbacks, MoveTo, ThreadRecs
  <2>3. ThreadTypes'
    BY Zenon, <2>1, <2>2, PcMoves DEF ServiceTypes, ThreadRecs, PcValues, Fits
  <2>4. cb' \in [Services -> Nat] /\ counter' \in [Services -> Nat]
    <3>1. thread[t].service \in Services
      BY Zenon, <2>1 DEF Fits
    <3>2. cb \in [Services -> Nat] /\ counter \in [Services -> Nat] /\ counter[thread[t].service] + 1 \in Nat
      BY <3>1 DEF ServiceTypes
    <3>3. CASE UNCHANGED <<cb, counter>>
      BY Zenon, <3>2, <3>3
    <3>4. CASE /\ cb' = [cb EXCEPT ![thread[t].service] = 0]
               /\ counter' = [counter EXCEPT ![thread[t].service] = @ + 1]
      BY Zenon, <3>2, <3>4
    <3> QED BY Zenon, <1>11, <3>3, <3>4 DEF ForgetCallbacks
  <2> QED BY Zenon, <1>11, <2>3, <2>4 DEF ForgetCallbacks, ServiceTypes
<1>12. ASSUME NEW t \in Threads, Relock(t) PROVE ServiceTypes'
  <2>1. thread[t] \in ThreadRecs /\ thread[t].pc # "idle" /\ Fits(t, thread[t])
    BY Zenon, <1>12 DEF Relock, At, ServiceTypes, ThreadTypes
  <2>2. thread' = [thread EXCEPT ![t] = [thread[t] EXCEPT !.pc = "unlock", !.seen = thread[t].seen]]
    BY Zenon, <1>12, <2>1 DEF Relock, MoveTo, ThreadRecs
  <2>3. ThreadTypes'
    BY Zenon, <2>1, <2>2, PcMoves DEF ServiceTypes, ThreadRecs, PcValues, Fits
  <2> QED BY <1>12, <2>1, <2>3 DEF Relock, ServiceTypes, Fits
<1>13. ASSUME NEW t \in Threads, Unlock(t) PROVE ServiceTypes'
  <2>1. IdleThread \in ThreadRecs /\ Fits(t, IdleThread)
    BY Zenon DEF IdleThread, ThreadRecs, Fits, Kinds, PcValues
  <2>2. ThreadTypes'
    BY Zenon, <1>13, <2>1, ThreadMoves DEF Unlock, ServiceTypes
  <2> QED BY <1>13, <2>2 DEF Unlock, ServiceTypes
<1>14. CASE UNCHANGED serviceVars
  BY Zenon, <1>14 DEF serviceVars, ServiceTypes, ThreadTypes
<1> QED BY Zenon, <1>1, <1>2, <1>4, <1>5, <1>6, <1>7, <1>8, <1>9, <1>10, <1>11, <1>12, <1>13, <1>14
        DEF ServiceNext, ThreadStep

\* Every step keeps the generations: only ClientStarts makes a client, and
\* setResponseFunctions takes the newest.
LEMMA GenerationsStep == ServiceInv /\ [ServiceNext]_serviceVars => Generations'
<1> SUFFICES ASSUME ServiceInv, [ServiceNext]_serviceVars PROVE Generations'
  BY Zenon
<1> USE DEF ServiceInv
<1>1. ASSUME UNCHANGED <<cb, born, newcomer>> PROVE Generations'
  BY Zenon, <1>1 DEF Generations
<1>2. ASSUME NEW s \in Services, ClientStarts(s) PROVE Generations'
  <2>1. /\ born' = [born EXCEPT ![s] = @ + 1] /\ UNCHANGED cb
        /\ newcomer' = [newcomer EXCEPT ![s] = born[s] + 1]
    BY Zenon, <1>2, StartEffect
  <2> QED BY <2>1 DEF Generations, ServiceTypes
<1>3. ASSUME NEW s \in Services, setResponseFunctions(s) PROVE Generations'
  BY <1>3 DEF setResponseFunctions, Generations, ServiceTypes
<1>4. ASSUME NEW t \in Threads, ForgetCallbacks(t) PROVE Generations'
  <2>1. UNCHANGED <<born, newcomer>>
    BY Zenon, <1>4 DEF ForgetCallbacks
  <2>2. \A s \in Services : cb'[s] = cb[s] \/ cb'[s] = 0
    BY Zenon, <1>4 DEF ForgetCallbacks, ServiceTypes
  <2>3. \A s \in Services : born[s] \in Nat /\ cb[s] <= born[s] /\ newcomer[s] <= born[s]
    BY Zenon DEF Generations, ServiceTypes
  <2> QED BY <2>1, <2>2, <2>3 DEF Generations
<1> QED
  BY Zenon, <1>1, <1>2, <1>3, <1>4 DEF ServiceNext, ThreadStep, serviceVars, ClientDies,
     RequestRefused,
     VendorDelivers,
     onNewCommandConnect, Lock, Call, NoteCounter, Relock, Unlock

\* A step of one thread changes the number of threads that hold the lock for
\* reading by that thread.
LEMMA CountStep ==
  ASSUME NEW t \in Threads,
         \A u \in Threads \ {t} : thread'[u] = thread[u] /\ (writer' = u <=> writer = u)
  PROVE  /\ Cardinality(ReadHolders) \in Nat
         /\ (t \in ReadHolders <=> t \in ReadHolders') => Cardinality(ReadHolders') = Cardinality(ReadHolders)
         /\ t \in ReadHolders /\ t \notin ReadHolders' =>
              Cardinality(ReadHolders') = Cardinality(ReadHolders) - 1
         /\ t \notin ReadHolders /\ t \in ReadHolders' =>
              Cardinality(ReadHolders') = Cardinality(ReadHolders) + 1
<1>1. IsFiniteSet(ReadHolders)
  BY Zenon, ThreadFacts, FS_Subset DEF ReadHolders
<1>2. Cardinality(ReadHolders) \in Nat
  BY Zenon, <1>1, FS_CardinalityType
<1>3. \A u \in Threads \ {t} : u \in ReadHolders <=> u \in ReadHolders'
  BY Zenon DEF ReadHolders
<1>4. ReadHolders \subseteq Threads /\ ReadHolders' \subseteq Threads
  BY Zenon DEF ReadHolders
<1>5. CASE t \in ReadHolders <=> t \in ReadHolders'
  <2>1. ReadHolders' = ReadHolders
    BY <1>3, <1>4, <1>5
  <2>2. Cardinality(ReadHolders') = Cardinality(ReadHolders)
    BY Zenon, <2>1
  <2> QED BY Zenon, <2>2, <1>2, <1>5
<1>6. CASE t \in ReadHolders /\ t \notin ReadHolders'
  <2>1. ReadHolders' = ReadHolders \ {t}
    BY Zenon, <1>3, <1>4, <1>6
  <2> QED BY Zenon, <1>1, <1>2, <1>6, <2>1, FS_RemoveElement
<1>7. CASE t \notin ReadHolders /\ t \in ReadHolders'
  <2>1. ReadHolders' = ReadHolders \cup {t}
    BY Zenon, <1>3, <1>4, <1>7
  <2> QED BY Zenon, <1>1, <1>2, <1>7, <2>1, FS_AddElement
<1> QED BY Zenon, <1>5, <1>6, <1>7

\* The terms of ReadersCounted are numbers.
LEMMA CountTypes == Borrowed \in Nat /\ Cardinality(ReadHolders) \in Nat
<1>1. IsFiniteSet(ReadHolders)
  BY Zenon, ThreadFacts, FS_Subset DEF ReadHolders
<1> QED BY Zenon, <1>1, FS_CardinalityType DEF Borrowed

\* Every step keeps the lock in agreement with the threads.
LEMMA LockStep == ServiceInv /\ [ServiceNext]_serviceVars => LockHeld'
<1> SUFFICES ASSUME ServiceInv, [ServiceNext]_serviceVars PROVE LockHeld'
  BY Zenon
<1> USE ThreadFacts DEF ServiceInv
<1>1. ASSUME UNCHANGED <<readers, writer, thread>> PROVE LockHeld'
  BY Zenon, <1>1 DEF LockHeld, ReadersCounted, WriterKnown, ReadHolders, Borrowed
<1>2. ASSUME NEW t \in Threads, NEW s, NEW kind, At(t, "idle"), Begins(t, s, kind),
             UNCHANGED <<readers, writer>>
      PROVE  LockHeld'
  <2>1. /\ \A u \in Threads \ {t} : thread'[u] = thread[u]
        /\ thread'[t].kind = kind /\ thread'[t].pc = IF kind = "refusal" THEN "call" ELSE "lock"
    BY Zenon, <1>2 DEF Begins, ServiceTypes, ThreadTypes
  <2>2. thread[t].pc = "idle"
    BY Zenon, <1>2 DEF At
  <2>3. t \notin ReadHolders /\ t \notin ReadHolders' /\ Borrowed' = Borrowed
    BY Zenon, <2>1, <2>2 DEF ReadHolders, Borrowed
  <2>4. Cardinality(ReadHolders') = Cardinality(ReadHolders)
    BY Zenon, <1>2, <2>1, <2>3, CountStep
  <2>5. writer # t
    BY Zenon, <2>2 DEF LockHeld, WriterKnown
  <2>6. ReadersCounted'
    BY Zenon, <1>2, <2>1, <2>2, <2>3, <2>4, <2>5, CountTypes DEF LockHeld, ReadersCounted, ServiceTypes
  <2>7. WriterKnown'
    BY Zenon, <1>2, <2>1, <2>2, <2>3, <2>4, <2>5 DEF LockHeld, WriterKnown, ServiceTypes
  <2> QED BY Zenon, <2>6, <2>7 DEF LockHeld
<1>3. ASSUME NEW s \in Services, RequestRefused(s) PROVE LockHeld'
  BY Zenon, <1>2, <1>3 DEF RequestRefused
<1>4. ASSUME NEW s \in Services, NEW t \in Vendor, NEW kind \in Kinds, VendorDelivers(t, s, kind)
      PROVE  LockHeld'
  BY Zenon, <1>2, <1>4 DEF VendorDelivers, Threads
<1>5. ASSUME onNewCommandConnect PROVE LockHeld'
  BY Zenon, <1>1, <1>2, <1>5 DEF onNewCommandConnect
<1>6. ASSUME NEW t \in Threads, Lock(t) PROVE LockHeld'
  <2>1. /\ \A u \in Threads \ {t} : thread'[u] = thread[u]
        /\ thread[t].pc = "lock" /\ thread'[t].pc = "call" /\ thread'[t].kind = thread[t].kind
    BY <1>6 DEF Lock, At, ServiceTypes, ThreadTypes, ThreadRecs
  <2>2. t \notin ReadHolders /\ Borrowed' = Borrowed /\ thread[t].kind # "refusal"
    BY Zenon, <2>1 DEF ReadHolders, Borrowed, ServiceTypes, ThreadTypes, Fits
  <2>3. CASE thread[t].kind = "nitz"
    <3>1. writer = NoThread /\ writer' = t /\ readers' = readers
      BY Zenon, <1>6, <2>3 DEF Lock, Free
    <3>2. t \notin ReadHolders'
      BY Zenon, <3>1 DEF ReadHolders
    <3>3. Cardinality(ReadHolders') = Cardinality(ReadHolders)
      BY Zenon, <2>1, <2>2, <3>1, <3>2, CountStep
    <3>4. ReadersCounted'
      BY Zenon, <2>1, <2>2, <2>3, <3>1, <3>3, CountTypes DEF LockHeld, ReadersCounted, ServiceTypes
    <3>5. WriterKnown'
      BY Zenon, <2>1, <2>2, <2>3, <3>1, <3>3 DEF LockHeld, WriterKnown, ServiceTypes
    <3> QED BY Zenon, <3>4, <3>5 DEF LockHeld
  <2>4. CASE thread[t].kind # "nitz"
    <3>1. writer = NoThread /\ writer' = NoThread /\ readers' = readers + 1
      BY Zenon, <1>6, <2>4 DEF Lock
    <3>2. t \in ReadHolders'
      BY Zenon, <2>1, <2>2, <3>1 DEF ReadHolders
    <3>3. Cardinality(ReadHolders') = Cardinality(ReadHolders) + 1
      BY Zenon, <2>1, <2>2, <3>1, <3>2, CountStep
    <3>4. ReadersCounted'
      BY <2>1, <2>2, <2>4, <3>1, <3>3, CountTypes DEF LockHeld, ReadersCounted, ServiceTypes
    <3>5. WriterKnown'
      BY Zenon, <2>1, <2>2, <2>4, <3>1, <3>3 DEF LockHeld, WriterKnown, ServiceTypes
    <3> QED BY Zenon, <3>4, <3>5 DEF LockHeld
  <2> QED BY Zenon, <2>3, <2>4
<1>7. ASSUME NEW t \in Threads, Call(t) PROVE LockHeld'
  <2>1. /\ \A u \in Threads \ {t} : thread'[u] = thread[u]
        /\ thread[t].pc = "call" /\ thread'[t].pc \in {"failed", "unlock"}
        /\ thread'[t].kind = thread[t].kind
        /\ UNCHANGED <<readers, writer>>
    BY Zenon, <1>7 DEF Call, MoveTo, At, ServiceTypes, ThreadTypes, ThreadRecs
  <2>2. (t \in ReadHolders <=> t \in ReadHolders') /\ Borrowed' = Borrowed
    BY Zenon, <2>1 DEF ReadHolders, Borrowed
  <2>3. Cardinality(ReadHolders') = Cardinality(ReadHolders)
    BY Zenon, <2>1, <2>2, CountStep
  <2>4. ReadersCounted'
    BY Zenon, <2>1, <2>2, <2>3, CountTypes DEF LockHeld, ReadersCounted, ServiceTypes
  <2>5. WriterKnown'
    BY ZenonT(30), <2>1, <2>2, <2>3 DEF LockHeld, WriterKnown, ServiceTypes
  <2> QED BY Zenon, <2>4, <2>5 DEF LockHeld
<1>8. ASSUME NEW t \in Threads, NoteCounter(t) PROVE LockHeld'
  <2>1. /\ \A u \in Threads \ {t} : thread'[u] = thread[u]
        /\ thread[t].pc = "failed" /\ thread'[t].pc = "wrlock" /\ thread'[t].kind = thread[t].kind
    BY Zenon, <1>8 DEF NoteCounter, At, ServiceTypes, ThreadTypes, ThreadRecs
  <2>2. t \notin ReadHolders'
    BY Zenon, <2>1 DEF ReadHolders
  <2>3. CASE writer = t
    <3>1. writer' = NoThread /\ readers' = readers
      BY Zenon, <1>8, <2>3 DEF NoteCounter
    <3>2. t \notin ReadHolders /\ thread[t].kind = "nitz" /\ Borrowed' = Borrowed
      BY Zenon, <2>1, <2>3 DEF ReadHolders, LockHeld, WriterKnown, Borrowed
    <3>3. Cardinality(ReadHolders') = Cardinality(ReadHolders)
      BY Zenon, <2>1, <2>2, <2>3, <3>1, <3>2, CountStep
    <3>4. ReadersCounted'
      BY Zenon, <2>1, <2>3, <3>1, <3>2, <3>3, CountTypes DEF LockHeld, ReadersCounted, ServiceTypes
    <3>5. WriterKnown'
      BY Zenon, <2>1, <2>3, <3>1, <3>2, <3>3 DEF LockHeld, WriterKnown, ServiceTypes
    <3> QED BY Zenon, <3>4, <3>5 DEF LockHeld
  <2>4. CASE writer # t /\ thread[t].kind = "refusal"
    <3>1. writer' = writer /\ readers > 0 /\ readers' = readers - 1
      BY Zenon, <1>8, <2>4 DEF NoteCounter
    <3>2. t = Binder
      BY Zenon, <2>1, <2>4 DEF ServiceTypes, ThreadTypes, Fits
    <3>3. t \notin ReadHolders /\ Borrowed = 0 /\ Borrowed' = 1
      BY Zenon, <2>1, <2>4, <3>2 DEF ReadHolders, Borrowed
    <3>4. Cardinality(ReadHolders') = Cardinality(ReadHolders)
      BY Zenon, <2>1, <2>2, <3>1, <3>3, CountStep
    <3>5. ReadersCounted'
      BY <2>1, <2>4, <3>1, <3>3, <3>4, CountTypes DEF LockHeld, ReadersCounted, ServiceTypes
    <3>6. WriterKnown'
      BY Zenon, <2>1, <2>4, <3>1, <3>3, <3>4 DEF LockHeld, WriterKnown, ServiceTypes
    <3> QED BY Zenon, <3>5, <3>6 DEF LockHeld
  <2>5. CASE writer # t /\ thread[t].kind # "refusal"
    <3>1. writer' = writer /\ readers > 0 /\ readers' = readers - 1
      BY Zenon, <1>8, <2>5 DEF NoteCounter
    <3>2. t \in ReadHolders /\ Borrowed' = Borrowed
      BY Zenon, <2>1, <2>5 DEF ReadHolders, Borrowed
    <3>3. Cardinality(ReadHolders') = Cardinality(ReadHolders) - 1
      BY Zenon, <2>1, <2>2, <3>1, <3>2, CountStep
    <3>4. Cardinality(ReadHolders) \in Nat
      BY Zenon, <2>1, <3>1, CountStep
    <3>5. ReadersCounted'
      BY <2>1, <2>5, <3>1, <3>2, <3>3, <3>4, CountTypes DEF LockHeld, ReadersCounted, ServiceTypes
    <3>6. WriterKnown'
      BY Zenon, <2>1, <2>5, <3>1, <3>2, <3>3, <3>4 DEF LockHeld, WriterKnown, ServiceTypes
    <3> QED BY Zenon, <3>5, <3>6 DEF LockHeld
  <2> QED BY Zenon, <2>3, <2>4, <2>5
<1>9. ASSUME NEW t \in Threads, ForgetCallbacks(t) PROVE LockHeld'
  <2>1. /\ \A u \in Threads \ {t} : thread'[u] = thread[u]
        /\ thread[t].pc = "wrlock" /\ thread'[t].pc = "rdlock" /\ thread'[t].kind = thread[t].kind
        /\ UNCHANGED <<readers, writer>>
    BY Zenon, <1>9 DEF ForgetCallbacks, MoveTo, At, ServiceTypes, ThreadTypes, ThreadRecs
  <2>2. t \notin ReadHolders /\ t \notin ReadHolders' /\ Borrowed' = Borrowed
    BY Zenon, <2>1 DEF ReadHolders, Borrowed
  <2>3. Cardinality(ReadHolders') = Cardinality(ReadHolders)
    BY Zenon, <2>1, <2>2, CountStep
  <2>4. ReadersCounted'
    BY Zenon, <2>1, <2>2, <2>3, CountTypes DEF LockHeld, ReadersCounted, ServiceTypes
  <2>5. WriterKnown'
    BY Zenon, <2>1, <2>2, <2>3 DEF LockHeld, WriterKnown, ServiceTypes
  <2> QED BY Zenon, <2>4, <2>5 DEF LockHeld
<1>10. ASSUME NEW t \in Threads, Relock(t) PROVE LockHeld'
  <2>1. /\ \A u \in Threads \ {t} : thread'[u] = thread[u]
        /\ thread[t].pc = "rdlock" /\ thread'[t].pc = "unlock" /\ thread'[t].kind = thread[t].kind
        /\ writer = NoThread /\ writer' = NoThread /\ readers' = readers + 1
    BY Zenon, <1>10 DEF Relock, At, ServiceTypes, ThreadTypes, ThreadRecs
  <2>2. t \notin ReadHolders
    BY Zenon, <2>1 DEF ReadHolders
  <2>3. CASE thread[t].kind = "refusal"
    <3>1. t = Binder
      BY ZenonT(30), <2>1, <2>3 DEF ServiceTypes, ThreadTypes, Fits
    <3>2. t \notin ReadHolders' /\ Borrowed = 1 /\ Borrowed' = 0
      BY Zenon, <2>1, <2>3, <3>1 DEF ReadHolders, Borrowed
    <3>3. Cardinality(ReadHolders') = Cardinality(ReadHolders)
      BY Zenon, <2>1, <2>2, <3>2, CountStep
    <3>4. ReadersCounted'
      BY <2>1, <2>3, <3>2, <3>3, CountTypes DEF LockHeld, ReadersCounted, ServiceTypes
    <3>5. WriterKnown'
      BY Zenon, <2>1, <2>3, <3>2, <3>3 DEF LockHeld, WriterKnown, ServiceTypes
    <3> QED BY Zenon, <3>4, <3>5 DEF LockHeld
  <2>4. CASE thread[t].kind # "refusal"
    <3>1. t \in ReadHolders' /\ Borrowed' = Borrowed
      BY Zenon, <2>1, <2>4 DEF ReadHolders, Borrowed
    <3>2. Cardinality(ReadHolders') = Cardinality(ReadHolders) + 1
      BY Zenon, <2>1, <2>2, <3>1, CountStep
    <3>3. ReadersCounted'
      BY <2>1, <2>4, <3>1, <3>2, CountTypes DEF LockHeld, ReadersCounted, ServiceTypes
    <3>4. WriterKnown'
      BY Zenon, <2>1, <2>4, <3>1, <3>2 DEF LockHeld, WriterKnown, ServiceTypes
    <3> QED BY Zenon, <3>3, <3>4 DEF LockHeld
  <2> QED BY Zenon, <2>3, <2>4
<1>11. ASSUME NEW t \in Threads, Unlock(t) PROVE LockHeld'
  <2>1. /\ \A u \in Threads \ {t} : thread'[u] = thread[u]
        /\ thread[t].pc = "unlock" /\ thread'[t] = IdleThread
    BY Zenon, <1>11 DEF Unlock, At, ServiceTypes, ThreadTypes
  <2>2. t \notin ReadHolders' /\ thread'[t].pc = "idle" /\ Borrowed' = Borrowed
    BY <2>1 DEF ReadHolders, IdleThread, Borrowed
  <2>3. CASE thread[t].kind = "refusal"
    <3>1. UNCHANGED <<readers, writer>>
      BY Zenon, <1>11, <2>3 DEF Unlock
    <3>2. t \notin ReadHolders
      BY Zenon, <2>3 DEF ReadHolders
    <3>3. Cardinality(ReadHolders') = Cardinality(ReadHolders)
      BY Zenon, <2>1, <2>2, <3>1, <3>2, CountStep
    <3>4. writer # t
      BY Zenon, <2>3 DEF LockHeld, WriterKnown
    <3>5. ReadersCounted'
      BY Zenon, <2>1, <2>2, <3>1, <3>3, <3>4, CountTypes DEF LockHeld, ReadersCounted, ServiceTypes
    <3>6. WriterKnown'
      BY Zenon, <2>1, <2>2, <3>1, <3>3, <3>4 DEF LockHeld, WriterKnown, ServiceTypes
    <3> QED BY Zenon, <3>5, <3>6 DEF LockHeld
  <2>4. CASE thread[t].kind # "refusal" /\ writer = t
    <3>1. writer' = NoThread /\ readers' = readers
      BY Zenon, <1>11, <2>4 DEF Unlock
    <3>2. t \notin ReadHolders
      BY Zenon, <2>4 DEF ReadHolders
    <3>3. Cardinality(ReadHolders') = Cardinality(ReadHolders)
      BY Zenon, <2>1, <2>2, <2>4, <3>1, <3>2, CountStep
    <3>4. ReadersCounted'
      BY Zenon, <2>1, <2>2, <2>4, <3>1, <3>3, CountTypes DEF LockHeld, ReadersCounted, ServiceTypes
    <3>5. WriterKnown'
      BY Zenon, <2>1, <2>2, <2>4, <3>1, <3>3 DEF LockHeld, WriterKnown, ServiceTypes
    <3> QED BY Zenon, <3>4, <3>5 DEF LockHeld
  <2>5. CASE thread[t].kind # "refusal" /\ writer # t
    <3>1. writer' = writer /\ readers > 0 /\ readers' = readers - 1
      BY Zenon, <1>11, <2>5 DEF Unlock
    <3>2. t \in ReadHolders
      BY Zenon, <2>1, <2>5 DEF ReadHolders
    <3>3. Cardinality(ReadHolders') = Cardinality(ReadHolders) - 1
      BY Zenon, <2>1, <2>2, <3>1, <3>2, CountStep
    <3>4. Cardinality(ReadHolders) \in Nat
      BY Zenon, <2>1, <3>1, CountStep
    <3>5. ReadersCounted'
      BY SMTT(30), <2>1, <2>2, <2>5, <3>1, <3>3, <3>4, CountTypes DEF LockHeld, ReadersCounted,
         ServiceTypes
    <3>6. WriterKnown'
      BY Zenon, <2>1, <2>2, <2>5, <3>1, <3>3, <3>4 DEF LockHeld, WriterKnown, ServiceTypes
    <3> QED BY Zenon, <3>5, <3>6 DEF LockHeld
  <2> QED BY Zenon, <2>3, <2>4, <2>5
<1>12. ASSUME NEW s \in Services, ClientStarts(s) PROVE LockHeld'
  BY Zenon, <1>1, <1>12, StartEffect
<1> QED
  BY Zenon, <1>1, <1>3, <1>4, <1>5, <1>6, <1>7, <1>8, <1>9, <1>10, <1>11, <1>12
  DEF ServiceNext, ThreadStep, serviceVars, ClientDies, setResponseFunctions

\* While the binder thread is idle and the lock free, no thread is between a
\* failed call and the note it takes of the counter: setResponseFunctions, on
\* the binder thread under the write lock, never comes there.
LEMMA FreeMeansNoFailure ==
  ASSUME ServiceInv, At(Binder, "idle"), Free, NEW t \in Threads
  PROVE  thread[t].pc # "failed"
<1> SUFFICES ASSUME thread[t].pc = "failed" PROVE FALSE
  BY Zenon
<1> USE ThreadFacts DEF ServiceInv
<1>1. t # Binder /\ thread[t].kind \in {"deliver", "nitz"}
  BY Zenon DEF At, ServiceTypes, ThreadTypes, Fits
<1>2. readers = 0 /\ writer = NoThread /\ Borrowed = 0
  BY Zenon DEF Free, Borrowed, At
<1>3. thread[t].kind = "deliver"
  BY Zenon, <1>1, <1>2 DEF LockHeld, WriterKnown
<1>4. t \in ReadHolders
  BY Zenon, <1>2, <1>3 DEF ReadHolders
<1>5. IsFiniteSet(ReadHolders) /\ Cardinality(ReadHolders) = 0
  BY <1>2, FS_Subset DEF LockHeld, ReadersCounted, ReadHolders
<1> QED BY Zenon, <1>4, <1>5, FS_EmptySet

\* Every step keeps what a thread in checkReturnStatus knows of the callback.
LEMMA FailureStep == ServiceInv /\ [ServiceNext]_serviceVars => FailureNoted'
<1> SUFFICES ASSUME ServiceInv, [ServiceNext]_serviceVars, NEW t \in Threads PROVE Noted(t)'
  BY Zenon DEF FailureNoted
<1> USE ThreadFacts DEF ServiceInv
<1>1. Noted(t) /\ thread[t] \in ThreadRecs /\ Fits(t, thread[t])
  BY Zenon DEF FailureNoted, ServiceTypes, ThreadTypes
<1>2. ASSUME thread'[t] = thread[t] \/ thread'[t].pc \notin {"failed", "wrlock"},
             UNCHANGED <<cb, counter, alive>>
      PROVE  Noted(t)'
  BY Zenon, <1>1, <1>2 DEF Noted, DeadCallback
<1>3. ASSUME NEW s \in Services, ClientDies(s) PROVE Noted(t)'
  <2>1. /\ UNCHANGED <<thread, cb, counter>> /\ alive' = [alive EXCEPT ![s] = 0]
    BY Zenon, <1>3 DEF ClientDies
  <2> QED BY Zenon, <1>1, <2>1 DEF Noted, DeadCallback, Fits, ServiceTypes
<1>4. ASSUME NEW s \in Services, ClientStarts(s) PROVE Noted(t)'
  <2>1. /\ UNCHANGED <<thread, cb, counter>> /\ alive' = [alive EXCEPT ![s] = born[s] + 1]
    BY Zenon, <1>4, StartEffect
  <2>2. cb[s] # born[s] + 1
    BY DEF Generations, ServiceTypes
  <2> QED BY Zenon, <1>1, <2>1, <2>2 DEF Noted, DeadCallback, Fits, ServiceTypes
<1>5. ASSUME NEW u \in Threads, NEW s, NEW kind, Begins(u, s, kind), UNCHANGED <<cb, counter, alive>>
      PROVE  Noted(t)'
  <2>1. thread'[t] = thread[t] \/ thread'[t].pc \in {"call", "lock"}
    BY Zenon, <1>5 DEF Begins, ServiceTypes, ThreadTypes
  <2> QED BY Zenon, <1>2, <1>5, <2>1
<1>6. ASSUME NEW s \in Services, RequestRefused(s) PROVE Noted(t)'
  BY Zenon, <1>5, <1>6 DEF RequestRefused
<1>7. ASSUME NEW s \in Services, NEW u \in Vendor, NEW kind \in Kinds, VendorDelivers(u, s, kind)
      PROVE  Noted(t)'
  BY Zenon, <1>5, <1>7 DEF VendorDelivers, Threads
<1>8. ASSUME onNewCommandConnect PROVE Noted(t)'
  BY Zenon, <1>2, <1>5, <1>8 DEF onNewCommandConnect
<1>9. ASSUME NEW s \in Services, setResponseFunctions(s) PROVE Noted(t)'
  <2>1. thread[t].pc # "failed"
    BY Zenon, <1>9, FreeMeansNoFailure DEF setResponseFunctions
  <2>2. counter' = [counter EXCEPT ![s] = @ + 1] /\ UNCHANGED <<thread, alive>>
        /\ cb' = [cb EXCEPT ![s] = newcomer[s]]
    BY Zenon, <1>9 DEF setResponseFunctions
  <2>3. CASE thread[t].service = s
    BY SMTT(30), <1>1, <2>1, <2>2, <2>3 DEF Noted, ServiceTypes, ThreadRecs
  <2>4. CASE thread[t].service # s
    BY Zenon, <1>1, <2>1, <2>2, <2>4 DEF Noted, DeadCallback, ServiceTypes, Fits
  <2> QED BY Zenon, <2>3, <2>4
<1>10. ASSUME NEW u \in Threads, Lock(u) PROVE Noted(t)'
  <2>1. thread'[t] = thread[t] \/ thread'[t].pc = "call"
    BY <1>10 DEF Lock, ServiceTypes, ThreadTypes, ThreadRecs
  <2> QED BY Zenon, <1>2, <1>10, <2>1 DEF Lock
<1>11. ASSUME NEW u \in Threads, Call(u) PROVE Noted(t)'
  <2>1. UNCHANGED <<cb, counter, alive>>
    BY Zenon, <1>11 DEF Call
  <2>2. CASE u # t
    <3>1. thread'[t] = thread[t]
      BY Zenon, <1>11, <2>2 DEF Call, MoveTo, ServiceTypes, ThreadTypes
    <3> QED BY Zenon, <1>2, <2>1, <3>1
  <2>3. CASE u = t
    <3>1. thread'[t].pc = "unlock" \/ (thread'[t].pc = "failed" /\ DeadCallback(thread[t].service))
      BY Zenon, <1>11, <2>3 DEF Call, MoveTo, ServiceTypes, ThreadTypes, ThreadRecs, DeadCallback
    <3>2. thread'[t].service = thread[t].service
      BY <1>11, <2>3 DEF Call, MoveTo, ServiceTypes, ThreadTypes, ThreadRecs
    <3> QED BY <2>1, <3>1, <3>2 DEF Noted, DeadCallback
  <2> QED BY Zenon, <2>2, <2>3
<1>12. ASSUME NEW u \in Threads, NoteCounter(u) PROVE Noted(t)'
  <2>1. UNCHANGED <<cb, counter, alive>>
    BY Zenon, <1>12 DEF NoteCounter
  <2>2. CASE u # t
    <3>1. thread'[t] = thread[t]
      BY Zenon, <1>12, <2>2 DEF NoteCounter, ServiceTypes, ThreadTypes
    <3> QED BY Zenon, <1>2, <2>1, <3>1
  <2>3. CASE u = t
    <3>1. /\ thread[t].pc = "failed" /\ thread'[t].pc = "wrlock"
          /\ thread'[t].service = thread[t].service /\ thread'[t].seen = counter[thread[t].service]
      BY SMTT(30), <1>12, <2>3 DEF NoteCounter, At, ServiceTypes, ThreadTypes, ThreadRecs
    <3>2. counter[thread[t].service] \in Nat
      BY Zenon, <1>1, <3>1 DEF Fits, ServiceTypes
    <3> QED BY <1>1, <2>1, <3>1, <3>2 DEF Noted, DeadCallback
  <2> QED BY Zenon, <2>2, <2>3
<1>13. ASSUME NEW u \in Threads, ForgetCallbacks(u) PROVE Noted(t)'
  <2>1. UNCHANGED alive /\ thread[u].pc = "wrlock" /\ thread[u].service \in Services
    BY Zenon, <1>13 DEF ForgetCallbacks, At, ServiceTypes, ThreadTypes, Fits
  <2>2. thread'[t] = thread[t] \/ thread'[t].pc = "rdlock"
    BY Zenon, <1>13 DEF ForgetCallbacks, MoveTo, ServiceTypes, ThreadTypes, ThreadRecs
  <2>3. CASE UNCHANGED <<cb, counter>>
    BY Zenon, <1>2, <2>1, <2>2, <2>3
  <2>4. CASE /\ cb' = [cb EXCEPT ![thread[u].service] = 0]
             /\ counter' = [counter EXCEPT ![thread[u].service] = @ + 1]
    <3>1. CASE thread[t].service = thread[u].service
      BY SMTT(30), <1>1, <2>1, <2>2, <2>4, <3>1 DEF Noted, DeadCallback, ServiceTypes, ThreadRecs
    <3>2. CASE thread[t].service # thread[u].service
      BY Zenon, <1>1, <2>1, <2>2, <2>4, <3>2 DEF Noted, DeadCallback, ServiceTypes, Fits
    <3> QED BY Zenon, <3>1, <3>2
  <2> QED BY Zenon, <1>13, <2>3, <2>4 DEF ForgetCallbacks
<1>14. ASSUME NEW u \in Threads, Relock(u) PROVE Noted(t)'
  <2>1. thread'[t] = thread[t] \/ thread'[t].pc = "unlock"
    BY Zenon, <1>14 DEF Relock, ServiceTypes, ThreadTypes, ThreadRecs
  <2> QED BY Zenon, <1>2, <1>14, <2>1 DEF Relock
<1>15. ASSUME NEW u \in Threads, Unlock(u) PROVE Noted(t)'
  <2>1. thread'[t] = thread[t] \/ thread'[t].pc = "idle"
    BY Zenon, <1>15 DEF Unlock, ServiceTypes, ThreadTypes, IdleThread
  <2> QED BY Zenon, <1>2, <1>15, <2>1 DEF Unlock
<1>16. CASE UNCHANGED serviceVars
  BY Zenon, <1>2, <1>16 DEF serviceVars
<1> QED
  BY Zenon, <1>3, <1>4, <1>6, <1>7, <1>8, <1>9, <1>10, <1>11, <1>12, <1>13, <1>14, <1>15, <1>16
  DEF ServiceNext, ThreadStep

\* For any set of vendor threads and any bounds: the lock's count of readers,
\* its writer and what checkReturnStatus has noted agree with where the
\* threads are, through refused requests, deaths and starts of clients.
THEOREM ServiceInvariant == ServiceSpec => []ServiceInv
<1>1. ServiceInv /\ [ServiceNext]_serviceVars => ServiceInv'
  BY SMTT(30), TypesStep, GenerationsStep, LockStep, FailureStep DEF ServiceInv
<1> QED BY <1>1, ServiceInitInv, PTL DEF ServiceSpec

\* A step never clears the callback of a running client.
LEMMA KeptStep ==
  ASSUME ServiceInv, ServiceInv', [ServiceNext]_serviceVars,
         NEW s \in Services, cb[s] # 0, cb[s] = alive[s]
  PROVE  cb'[s] # 0
<1>1. ASSUME UNCHANGED cb PROVE cb'[s] # 0
  BY Zenon, <1>1
<1>2. ASSUME NEW r \in Services, ClientStarts(r) PROVE cb'[s] # 0
  BY Zenon, <1>2, StartEffect
<1>3. ASSUME NEW r \in Services, setResponseFunctions(r) PROVE cb'[s] # 0
  BY Zenon, <1>3 DEF setResponseFunctions, ServiceInv, ServiceTypes
<1>4. ASSUME NEW t \in Threads, ForgetCallbacks(t) PROVE cb'[s] # 0
  <2>1. CASE UNCHANGED cb
    BY Zenon, <2>1
  <2>2. CASE counter[thread[t].service] = thread[t].seen /\ cb' = [cb EXCEPT ![thread[t].service] = 0]
    <3>1. DeadCallback(thread[t].service)
      BY Zenon, <1>4, <2>2 DEF ForgetCallbacks, At, ServiceInv, FailureNoted, Noted
    <3>2. thread[t].service # s
      BY Zenon, <3>1 DEF DeadCallback
    <3> QED BY Zenon, <2>2, <3>2 DEF ServiceInv, ServiceTypes
  <2> QED BY Zenon, <1>4, <2>1, <2>2 DEF ForgetCallbacks
<1> QED
  BY ZenonT(30), <1>1, <1>2, <1>3, <1>4 DEF ServiceNext, ThreadStep, serviceVars, ClientDies,
     RequestRefused,
     VendorDelivers,
     onNewCommandConnect, Lock, Call, NoteCounter, Relock, Unlock

\* For any set of vendor threads and any bounds: checkReturnStatus clears the
\* callbacks of clients that are gone and never those of a client that runs,
\* although the lock is given up between the failed call and the clearing
\* (ril_service.cpp).
THEOREM RunningClientKeepsCallbacks == ServiceSpec => LiveCallbackKept
<1>1. ServiceInv /\ ServiceInv' /\ [ServiceNext]_serviceVars =>
        [\A s \in Services : cb[s] # 0 /\ cb[s] = alive[s] => cb'[s] # 0]_serviceVars
  BY KeptStep
<1> QED BY <1>1, ServiceInvariant, PTL DEF ServiceSpec, LiveCallbackKept

------------------------------------------------------------------------------
(* The event loop and the wake lock. *)

\* The length and the elements of a sequence.
LEMMA SeqLen ==
  ASSUME NEW S, NEW s \in Seq(S)
  PROVE  /\ Len(s) \in Nat /\ DOMAIN s = 1 .. Len(s)
         /\ s \in [1 .. Len(s) -> S] /\ \A i \in 1 .. Len(s) : s[i] \in S
OBVIOUS

\* A part of a sequence.
LEMMA SeqPart ==
  ASSUME NEW S, NEW s \in Seq(S), NEW m \in 1 .. Len(s) + 1, NEW n \in m - 1 .. Len(s)
  PROVE  /\ SubSeq(s, m, n) \in Seq(S) /\ Len(SubSeq(s, m, n)) = n - m + 1
         /\ \A i \in 1 .. n - m + 1 : SubSeq(s, m, n)[i] = s[m + i - 1]
OBVIOUS

\* One sequence behind another.
LEMMA SeqJoin ==
  ASSUME NEW S, NEW s \in Seq(S), NEW t \in Seq(S)
  PROVE  /\ s \o t \in Seq(S) /\ Len(s \o t) = Len(s) + Len(t)
         /\ \A i \in 1 .. Len(s) + Len(t) : (s \o t)[i] = IF i <= Len(s) THEN s[i] ELSE t[i - Len(s)]
OBVIOUS

\* The first of a sequence, and the others.
LEMMA SeqRest ==
  ASSUME NEW S, NEW s \in Seq(S), s # << >>
  PROVE  /\ Head(s) \in S /\ Tail(s) \in Seq(S) /\ Len(Tail(s)) = Len(s) - 1
         /\ \A i \in 1 .. Len(Tail(s)) : Tail(s)[i] = s[i + 1]
OBVIOUS

\* A timer in the list.
Timers == [id : 1..MaxTimers, left : -1..WAKE_TIMEOUT]

\* The places of the loop.
LoopStates == [pc : {"start", "calc", "select", "fire", "timeout", "forget", "free"},
               tv : Int, firing : Nat, param : BOOLEAN]

\* The places of a vendor thread.
UserStates == [pc : {"idle", "grabbed", "delivering"}, timer : Nat, seen : Nat]

\* The types; timers are numbered from 1 on as they are armed.
EventTypes ==
  /\ rilVersion \in {12, 13} /\ made \in Nat /\ made <= MaxTimers
  /\ timer_list \in Seq(Timers) /\ pending \in Seq(Nat)
  /\ cancelled \subseteq 1..made /\ last \in 0..made /\ count \in 0..made
  /\ held \in BOOLEAN
  /\ loop \in LoopStates /\ user \in [VendorThreads -> UserStates]

\* The loop looks for expired timers only when it has fired the earlier ones.
NothingPending == loop.pc \in {"start", "calc", "select"} => pending = << >>

\* A timer that is armed, or fires without a mark.
Live(id) == id \in Armed \/ (LoopAt("timeout") /\ loop.firing = id /\ ~loop.param)

\* A thread that has taken the lock and not yet remembered its timer: the
\* mutex keeps the timer from releasing the lock, and nobody else knows it.
GrabbedInv ==
  \A t \in VendorThreads :
    /\ user[t].pc = "grabbed" =>
         /\ rilVersion = 13 /\ mutex = t
         /\ user[t].timer \in 1..made /\ user[t].timer \notin cancelled
         /\ user[t].seen \in 0..made /\ user[t].seen # user[t].timer /\ last # user[t].timer
         /\ Live(user[t].timer)
    /\ user[t].pc = "delivering" => rilVersion = 12

\* What keeps a held lock from being held for ever.
HeldInv ==
  held => \/ \E id \in Armed \ {0} : id \notin cancelled
          \/ LoopAt("timeout") /\ ~loop.param
          \/ \E t \in VendorThreads : user[t].pc = "delivering"

\* The inductive invariant.
EventsInv == EventTypes /\ NothingPending /\ GrabbedInv /\ HeldInv

\* The head of the list ends within the list.
LEMMA DueBeforeInList ==
  ASSUME timer_list \in Seq(Timers), NEW left \in Int
  PROVE  DueBefore(left) \in 0..Len(timer_list)
<1> DEFINE H == {i \in DOMAIN timer_list : \A j \in 1..i : timer_list[j].left < left}
           n == Len(timer_list)
<1>1. n \in Nat /\ H \subseteq 1..n
  BY Zenon, SeqLen
<1>3. DueBefore(left) = Cardinality(H)
  BY Zenon DEF DueBefore
<1> HIDE DEF H, n
<1>2. IsFiniteSet(1..n) /\ Cardinality(1..n) = n
  BY <1>1, FS_Interval
<1>4. IsFiniteSet(H) /\ Cardinality(H) <= n
  BY ZenonT(30), <1>1, <1>2, FS_Subset
<1>5. Cardinality(H) \in Nat
  BY Zenon, <1>4, FS_CardinalityType
<1> QED BY <1>1, <1>3, <1>4, <1>5 DEF n

\* Arming a timer adds it to the list and takes none out.
LEMMA TimerAdded ==
  ASSUME timer_list \in Seq(Timers), pending \in Seq(Nat), NEW id \in 1..MaxTimers,
         ril_timer_add(id, WAKE_TIMEOUT), pending' = pending
  PROVE  /\ timer_list' \in Seq(Timers)
         /\ id \in Armed' /\ Armed \subseteq Armed'
<1> DEFINE k == DueBefore(WAKE_TIMEOUT)
           ev == [id |-> id, left |-> WAKE_TIMEOUT]
           a == SubSeq(timer_list, 1, k)
           b == SubSeq(timer_list, k + 1, Len(timer_list))
<1>1. k \in 0..Len(timer_list) /\ Len(timer_list) \in Nat
  BY DueBeforeInList, LoopAssumption, SeqLen
<1>2. timer_list' = a \o <<ev>> \o b
  BY Zenon DEF ril_timer_add
<1>3. ev \in Timers
  BY LoopAssumption DEF Timers
<1> HIDE DEF k, ev
<1>4. /\ a \in Seq(Timers) /\ Len(a) = k /\ \A i \in 1..k : a[i] = timer_list[i]
      /\ b \in Seq(Timers) /\ Len(b) = Len(timer_list) - k
      /\ \A i \in 1..Len(timer_list) - k : b[i] = timer_list[k + i]
  BY <1>1, SeqPart, SeqLen
<1> HIDE DEF a, b
<1> DEFINE c == a \o <<ev>>
<1>5. /\ c \in Seq(Timers) /\ Len(c) = k + 1 /\ c[k + 1] = ev
      /\ \A i \in 1..k : c[i] = timer_list[i]
  BY <1>1, <1>3, <1>4
<1>6. timer_list' = c \o b
  BY Zenon, <1>2
<1> HIDE DEF c
<1>7. /\ timer_list' \in Seq(Timers) /\ Len(timer_list') = Len(timer_list) + 1
      /\ \A i \in 1..Len(timer_list) + 1 :
           timer_list'[i] = IF i <= k + 1 THEN c[i] ELSE b[i - (k + 1)]
  <2>1. Len(c) + Len(b) = Len(timer_list) + 1
    BY <1>1, <1>4, <1>5
  <2>2. /\ c \o b \in Seq(Timers) /\ Len(c \o b) = Len(c) + Len(b)
        /\ \A i \in 1..Len(c) + Len(b) : (c \o b)[i] = IF i <= Len(c) THEN c[i] ELSE b[i - Len(c)]
    <3>1. c \in Seq(Timers) /\ b \in Seq(Timers)
      BY Zenon, <1>4, <1>5
    <3> QED BY Zenon, <3>1, SeqJoin
  <2> QED BY Zenon, <2>1, <2>2, <1>5, <1>6
<1>8. DOMAIN timer_list' = 1..Len(timer_list) + 1 /\ DOMAIN timer_list = 1..Len(timer_list)
  BY Zenon, <1>7, SeqLen
<1>9. k + 1 \in 1..Len(timer_list) + 1 /\ timer_list'[k + 1].id = id
  BY <1>1, <1>5, <1>7 DEF ev
<1>10. ASSUME NEW i \in 1..Len(timer_list)
       PROVE  \E j \in 1..Len(timer_list) + 1 : timer_list'[j] = timer_list[i]
  <2>1. CASE i <= k
    <3>1. i \in 1..k /\ i \in 1..Len(timer_list) + 1 /\ i <= k + 1
      BY <2>1, <1>1
    <3>2. timer_list'[i] = c[i] /\ c[i] = timer_list[i]
      BY Zenon, <3>1, <1>5, <1>7
    <3> QED BY Zenon, <3>1, <3>2
  <2>2. CASE i > k
    <3>1. i + 1 \in 1..Len(timer_list) + 1 /\ ~(i + 1 <= k + 1) /\ i + 1 - (k + 1) = i - k
      BY <2>2, <1>1
    <3>2. i - k \in 1..Len(timer_list) - k /\ k + (i - k) = i
      BY <2>2, <1>1
    <3>3. timer_list'[i + 1] = b[i - k]
      <4> DEFINE j == i + 1
      <4>1. j \in 1..Len(timer_list) + 1 /\ ~(j <= k + 1) /\ j - (k + 1) = i - k
        BY <3>1, <1>1
      <4> HIDE DEF j
      <4>2. timer_list'[j] = b[j - (k + 1)]
        BY Zenon, <4>1, <1>7
      <4> QED BY Zenon, <4>1, <4>2 DEF j
    <3>4. b[i - k] = timer_list[i]
      BY Zenon, <3>2, <1>4
    <3> QED BY Zenon, <3>1, <3>3, <3>4
  <2> QED BY <2>1, <2>2, <1>1
<1>11. \A x \in {timer_list[i].id : i \in DOMAIN timer_list} :
          \E j \in DOMAIN timer_list' : timer_list'[j].id = x
  BY Zenon, <1>8, <1>10
<1> QED BY Zenon, <1>7, <1>8, <1>9, <1>11 DEF Armed

\* The expired timers move from the list to pending_list.
LEMMA ReadiesMoved ==
  ASSUME timer_list \in Seq(Timers), pending = << >>, ProcessReadies
  PROVE  /\ timer_list' \in Seq(Timers) /\ pending' \in Seq(Nat)
         /\ Armed \subseteq Armed'
<1> DEFINE k == DueBefore(0)
           a == [i \in 1..k |-> timer_list[i].id]
           z == IF pipe = 1 THEN <<0>> ELSE << >>
<1>1. k \in 0..Len(timer_list) /\ Len(timer_list) \in Nat /\ k \in Nat
  BY DueBeforeInList, SeqLen
<1>2. timer_list' = SubSeq(timer_list, k + 1, Len(timer_list)) /\ pending' = a \o z
  BY Zenon DEF ProcessReadies
<1> HIDE DEF k
<1>3. /\ timer_list' \in Seq(Timers) /\ Len(timer_list') = Len(timer_list) - k
      /\ \A i \in 1..Len(timer_list) - k : timer_list'[i] = timer_list[k + i]
  BY <1>1, <1>2, SeqPart, SeqLen
<1>4. a \in Seq(Nat) /\ Len(a) = k /\ \A i \in 1..k : a[i] = timer_list[i].id
  <2>1. \A i \in 1..k : timer_list[i].id \in Nat
    <3>1. \A i \in 1..k : i \in 1..Len(timer_list)
      BY <1>1
    <3>2. \A i \in 1..k : timer_list[i] \in Timers
      BY Zenon, <3>1, SeqLen
    <3> QED BY <3>2, LoopAssumption DEF Timers
  <2> QED BY <1>1, <2>1
<1>5. z \in Seq(Nat)
  OBVIOUS
<1> HIDE DEF a, z
<1>6. /\ pending' \in Seq(Nat) /\ Len(pending') = k + Len(z) /\ Len(z) \in Nat
      /\ \A i \in 1..k : pending'[i] = timer_list[i].id
  <2>1. Len(z) \in Nat /\ \A i \in 1..k : i \in 1..Len(a) + Len(z) /\ i <= Len(a)
    BY <1>1, <1>4, <1>5, SeqLen
  <2>2. a \in Seq(Nat) /\ z \in Seq(Nat) /\ Len(a) = k /\ pending' = a \o z
    BY Zenon, <1>2, <1>4, <1>5
  <2>3. /\ pending' \in Seq(Nat) /\ Len(pending') = Len(a) + Len(z)
        /\ \A i \in 1..Len(a) + Len(z) : pending'[i] = IF i <= Len(a) THEN a[i] ELSE z[i - Len(a)]
    BY Zenon, <2>2, SeqJoin
  <2> QED BY Zenon, <2>1, <2>2, <2>3, <1>4
<1>7. ASSUME NEW i \in 1..Len(timer_list) PROVE timer_list[i].id \in Armed'
  <2>1. CASE i <= k
    <3>1. i \in 1..k /\ i \in 1..Len(pending')
      BY <2>1, <1>1, <1>6
    <3>2. i \in DOMAIN pending'
      BY Zenon, <3>1, <1>6, SeqLen
    <3> QED BY Zenon, <3>1, <3>2, <1>6 DEF Armed, Range
  <2>2. CASE i > k
    <3>1. i - k \in 1..Len(timer_list) - k /\ k + (i - k) = i
      BY <2>2, <1>1
    <3>2. i - k \in DOMAIN timer_list'
      BY Zenon, <3>1, <1>3, SeqLen
    <3> QED BY Zenon, <3>1, <3>2, <1>3 DEF Armed
  <2> QED BY <2>1, <2>2, <1>1
<1>8. DOMAIN timer_list = 1..Len(timer_list)
  BY Zenon, SeqLen
<1>9. \A x \in Armed : \E i \in DOMAIN timer_list : x = timer_list[i].id
  BY DEF Armed, Range
<1> QED BY Zenon, <1>3, <1>6, <1>7, <1>8, <1>9

\* firePending takes the first of pending_list.
LEMMA HeadTaken ==
  ASSUME pending \in Seq(Nat), pending # << >>, pending' = Tail(pending), timer_list' = timer_list
  PROVE  /\ pending' \in Seq(Nat) /\ Head(pending) \in Nat
         /\ Armed \subseteq Armed' \cup {Head(pending)}
<1>1. /\ Head(pending) \in Nat /\ pending' \in Seq(Nat) /\ Len(pending') = Len(pending) - 1
      /\ \A i \in 1..Len(pending') : pending'[i] = pending[i + 1]
  BY Zenon, SeqRest
<1>2. Len(pending) \in Nat /\ DOMAIN pending = 1..Len(pending) /\ DOMAIN pending' = 1..Len(pending')
  BY Zenon, <1>1, SeqLen
<1>3. Head(pending) = pending[1]
  OBVIOUS
<1>4. ASSUME NEW i \in 1..Len(pending) PROVE pending[i] \in Range(pending') \cup {Head(pending)}
  <2>1. CASE i = 1
    BY Zenon, <2>1, <1>3
  <2>2. CASE i # 1
    <3>1. i - 1 \in 1..Len(pending') /\ (i - 1) + 1 = i
      BY <2>2, <1>1, <1>2
    <3>2. pending'[i - 1] = pending[i]
      BY Zenon, <3>1, <1>1
    <3> QED BY Zenon, <3>1, <3>2, <1>2 DEF Range
  <2> QED BY Zenon, <2>1, <2>2
<1>5. Range(pending) \subseteq Range(pending') \cup {Head(pending)}
  BY Zenon, <1>2, <1>4 DEF Range
<1>6. {timer_list'[i].id : i \in DOMAIN timer_list'} = {timer_list[i].id : i \in DOMAIN timer_list}
  BY Zenon
<1> QED BY <1>1, <1>5, <1>6, Zenon DEF Armed

\* Time does not arm or disarm a timer.
LEMMA TimePasses ==
  ASSUME timer_list \in Seq(Timers), Tick
  PROVE  timer_list' \in Seq(Timers) /\ Armed' = Armed
<1>1. Len(timer_list) \in Nat /\ DOMAIN timer_list = 1..Len(timer_list)
  BY Zenon, SeqLen
<1>2. /\ timer_list' = [i \in DOMAIN timer_list |->
                          [timer_list[i] EXCEPT !.left = IF @ >= 0 THEN @ - 1 ELSE @]]
      /\ pending' = pending
  BY Zenon DEF Tick
<1>3. ASSUME NEW i \in 1..Len(timer_list)
      PROVE  timer_list'[i] \in Timers /\ timer_list'[i].id = timer_list[i].id
  <2>1. timer_list[i] \in Timers
    BY Zenon, SeqLen
  <2>2. timer_list'[i] = [timer_list[i] EXCEPT !.left = IF @ >= 0 THEN @ - 1 ELSE @]
    BY Zenon, <1>1, <1>2
  <2> DEFINE r == timer_list[i]
             l == IF r.left >= 0 THEN r.left - 1 ELSE r.left
  <2>3. timer_list'[i] = [r EXCEPT !.left = l]
    BY Zenon, <2>2
  <2> HIDE DEF r
  <2>4. r \in Timers /\ l \in -1..WAKE_TIMEOUT
    BY <2>1, LoopAssumption DEF Timers, r
  <2> HIDE DEF l
  <2> QED BY Zenon, <2>3, <2>4 DEF Timers, r
<1>4. DOMAIN timer_list' = 1..Len(timer_list)
  BY Zenon, <1>1, <1>2
<1>5. timer_list' \in Seq(Timers)
  BY <1>1, <1>2, <1>3
<1>6. {timer_list'[i].id : i \in DOMAIN timer_list'} = {timer_list[i].id : i \in DOMAIN timer_list}
  BY Zenon, <1>1, <1>3, <1>4
<1> QED BY <1>2, <1>5, <1>6, Zenon DEF Armed

\* The threads' side when they do not move.
LEMMA GrabbedKept ==
  ASSUME GrabbedInv, EventTypes, UNCHANGED <<rilVersion, cancelled, mutex, user, made>>,
         last' \in {0, last},
         \A t \in VendorThreads : user[t].pc = "grabbed" => Live(user[t].timer)'
  PROVE  GrabbedInv'
<1>1. ASSUME NEW t \in VendorThreads, user[t].pc = "grabbed"
      PROVE  last' # user[t].timer
  BY <1>1 DEF GrabbedInv, EventTypes
<1> QED BY Zenon, <1>1 DEF GrabbedInv

\* The loop moves on from a place other than the timeout's callback.
LEMMA LoopMoves ==
  ASSUME EventsInv, ~LoopAt("timeout"), Armed \ {0} \subseteq Armed',
         UNCHANGED <<rilVersion, cancelled, held, mutex, user, made>>, last' \in {0, last}
  PROVE  GrabbedInv' /\ HeldInv'
<1>1. ASSUME NEW t \in VendorThreads, user[t].pc = "grabbed"
      PROVE  Live(user[t].timer)'
  <2>1. user[t].timer \in Armed /\ user[t].timer \in 1..made /\ made \in Nat
    BY Zenon, <1>1 DEF EventsInv, EventTypes, GrabbedInv, Live
  <2>2. user'[t].timer \in Armed'
    BY <2>1
  <2> QED BY Zenon, <2>2 DEF Live
<1>2. GrabbedInv'
  BY Zenon, <1>1, GrabbedKept DEF EventsInv
<1>3. HeldInv'
  BY Zenon DEF EventsInv, HeldInv
<1> QED BY Zenon, <1>2, <1>3

\* eventLoop makes its pipe.
LEMMA StartLoopInv == ASSUME EventsInv, StartLoop PROVE EventsInv'
<1>1. /\ UNCHANGED <<rilVersion, timer_list, pending, cancelled, held, count, last, mutex, user, made>>
      /\ LoopAt("start") /\ loop' = [loop EXCEPT !.pc = "calc"]
  BY Zenon DEF StartLoop
<1>2. EventTypes' /\ NothingPending'
  BY Zenon, <1>1 DEF EventsInv, EventTypes, LoopStates, NothingPending, LoopAt
<1>3. Armed' = Armed
  BY Zenon, <1>1 DEF Armed
<1> QED BY Zenon, <1>1, <1>2, <1>3, LoopMoves DEF EventsInv, LoopAt

\* calcNextTimeout.
LEMMA CalcInv == ASSUME EventsInv, CalcNextTimeout PROVE EventsInv'
<1>1. /\ UNCHANGED <<rilVersion, timer_list, pending, cancelled, held, count, last, mutex, user, made>>
      /\ LoopAt("calc")
  BY Zenon DEF CalcNextTimeout
<1> DEFINE tv == IF timer_list = << >> THEN Forever
                 ELSE IF timer_list[1].left > 0 THEN timer_list[1].left ELSE 0
<1>5. loop' = [loop EXCEPT !.pc = "select", !.tv = tv]
  BY Zenon DEF CalcNextTimeout
<1>2. tv \in Int
  <2>1. CASE timer_list = << >>
    BY <2>1 DEF Forever
  <2>2. CASE timer_list # << >>
    <3>1. timer_list[1] \in Timers
      BY <2>2, SeqLen DEF EventsInv, EventTypes
    <3>2. timer_list[1].left \in Int
      BY <3>1, LoopAssumption DEF Timers
    <3> QED BY <2>2, <3>2
  <2> QED BY Zenon, <2>1, <2>2
<1> HIDE DEF tv
<1>3. EventTypes' /\ NothingPending'
  BY Zenon, <1>1, <1>2, <1>5 DEF EventsInv, EventTypes, LoopStates, NothingPending, LoopAt
<1>4. Armed' = Armed
  BY Zenon, <1>1 DEF Armed
<1> QED BY Zenon, <1>1, <1>3, <1>4, LoopMoves DEF EventsInv, LoopAt

\* processTimeouts and processReadReadies: pending_list is empty before.
LEMMA ReadiesInv == ASSUME EventsInv, ProcessReadies PROVE EventsInv'
<1>1. /\ UNCHANGED <<rilVersion, cancelled, held, count, last, mutex, user, made>>
      /\ LoopAt("select") /\ loop' = [loop EXCEPT !.pc = "fire", !.tv = Forever]
  BY Zenon DEF ProcessReadies
<1>2. pending = << >> /\ timer_list \in Seq(Timers)
  BY Zenon, <1>1 DEF EventsInv, NothingPending, EventTypes, LoopAt
<1>3. timer_list' \in Seq(Timers) /\ pending' \in Seq(Nat) /\ Armed \subseteq Armed'
  BY Zenon, <1>2, ReadiesMoved
<1>4. EventTypes' /\ NothingPending'
  <2>1. Forever \in Int
    BY DEF Forever
  <2>2. loop' \in LoopStates /\ loop'.pc = "fire"
    BY Zenon, <1>1, <2>1 DEF EventsInv, EventTypes, LoopStates
  <2> QED BY Zenon, <1>1, <1>3, <2>2 DEF EventsInv, EventTypes, NothingPending
<1> QED BY Zenon, <1>1, <1>3, <1>4, LoopMoves DEF EventsInv, LoopAt

\* userTimerCallback ends.
LEMMA ForgetInv == ASSUME EventsInv, ForgetTimer PROVE EventsInv'
<1>1. /\ UNCHANGED <<rilVersion, timer_list, pending, cancelled, held, count, mutex, user, made>>
      /\ last' \in {0, last} /\ (LoopAt("forget") \/ LoopAt("free"))
      /\ loop' = [loop EXCEPT !.pc = "fire", !.firing = 0, !.param = FALSE]
  BY Zenon DEF ForgetTimer
<1>2. EventTypes' /\ NothingPending'
  <2>1. loop' \in LoopStates /\ loop'.pc = "fire"
    BY Zenon, <1>1 DEF EventsInv, EventTypes, LoopStates
  <2>2. last' \in 0..made
    BY <1>1 DEF EventsInv, EventTypes
  <2> QED BY Zenon, <1>1, <2>1, <2>2 DEF EventsInv, EventTypes, NothingPending
<1>3. Armed' = Armed
  BY Zenon, <1>1 DEF Armed
<1> QED BY Zenon, <1>1, <1>2, <1>3, LoopMoves DEF EventsInv, LoopAt

\* firePending: a timer that leaves the list is one that fires.
LEMMA FireInv == ASSUME EventsInv, FirePending PROVE EventsInv'
<1>1. /\ UNCHANGED <<rilVersion, timer_list, cancelled, held, count, last, mutex, user, made>>
      /\ LoopAt("fire")
  BY Zenon DEF FirePending
<1>2. CASE pending = << >>
  <2>1. loop' = [loop EXCEPT !.pc = "calc"] /\ pending' = pending
    BY Zenon, <1>2 DEF FirePending
  <2>2. EventTypes' /\ NothingPending'
    BY Zenon, <1>1, <1>2, <2>1 DEF EventsInv, EventTypes, LoopStates, NothingPending
  <2>3. Armed' = Armed
    BY Zenon, <1>1, <2>1 DEF Armed
  <2> QED BY Zenon, <1>1, <2>2, <2>3, LoopMoves DEF EventsInv, LoopAt
<1>3. CASE pending # << >>
  <2> DEFINE id == Head(pending)
  <2>1. pending' = Tail(pending)
    BY Zenon, <1>3 DEF FirePending
  <2>2. pending' \in Seq(Nat) /\ id \in Nat /\ Armed \subseteq Armed' \cup {id}
    BY Zenon, <1>1, <1>3, <2>1, HeadTaken DEF EventsInv, EventTypes
  <2>3. CASE id = 0
    <3>1. loop' = loop
      BY Zenon, <1>3, <2>3 DEF FirePending
    <3>2. EventTypes' /\ NothingPending'
      BY Zenon, <1>1, <2>2, <3>1 DEF EventsInv, EventTypes, NothingPending, LoopAt
    <3>3. Armed \ {0} \subseteq Armed'
      BY Zenon, <2>2, <2>3
    <3> QED BY Zenon, <1>1, <3>2, <3>3, LoopMoves DEF EventsInv, LoopAt
  <2>4. CASE id # 0
    <3>1. loop' = [loop EXCEPT !.pc = "timeout", !.firing = id, !.param = id \in cancelled]
      BY Zenon, <1>3, <2>4 DEF FirePending
    <3> HIDE DEF id
    <3>2. /\ loop' \in LoopStates /\ loop'.pc = "timeout" /\ loop'.firing = id
          /\ loop'.param = (id \in cancelled)
      <4> DEFINE marked == id \in cancelled
      <4>1. marked \in BOOLEAN
        OBVIOUS
      <4>2. loop' = [loop EXCEPT !.pc = "timeout", !.firing = id, !.param = marked]
        BY Zenon, <3>1
      <4> HIDE DEF marked
      <4>3. /\ loop' \in LoopStates /\ loop'.pc = "timeout" /\ loop'.firing = id
            /\ loop'.param = marked
        BY Zenon, <2>2, <4>1, <4>2 DEF EventsInv, EventTypes, LoopStates
      <4> QED BY Zenon, <4>3 DEF marked
    <3>3. EventTypes' /\ NothingPending'
      BY Zenon, <1>1, <2>2, <3>2 DEF EventsInv, EventTypes, NothingPending
    <3>4. ASSUME NEW t \in VendorThreads, user[t].pc = "grabbed" PROVE Live(user[t].timer)'
      <4>1. user[t].timer \in Armed /\ user[t].timer \notin cancelled
        BY Zenon, <1>1, <3>4 DEF EventsInv, GrabbedInv, Live, LoopAt
      <4>2. user[t].timer \in Armed' \/ (user[t].timer = id /\ ~loop'.param)
        BY Zenon, <4>1, <2>2, <3>2
      <4> QED BY Zenon, <1>1, <4>2, <3>2 DEF Live, LoopAt
    <3>5. GrabbedInv'
      BY Zenon, <1>1, <3>4, GrabbedKept DEF EventsInv
    <3>6. HeldInv'
      BY Zenon, <1>1, <2>2, <3>2 DEF EventsInv, HeldInv, LoopAt
    <3> QED BY Zenon, <3>3, <3>5, <3>6 DEF EventsInv
  <2> QED BY Zenon, <2>3, <2>4
<1> QED BY Zenon, <1>2, <1>3

\* wakeTimeoutCallback releases the lock only when no thread has the mutex.
LEMMA TimeoutInv == ASSUME EventsInv, wakeTimeoutCallback PROVE EventsInv'
<1>1. /\ UNCHANGED <<rilVersion, timer_list, pending, cancelled, last, mutex, user, made>>
      /\ LoopAt("timeout") /\ \E pc \in {"forget", "free"} : loop' = [loop EXCEPT !.pc = pc]
  BY Zenon DEF wakeTimeoutCallback
<1>2. Armed' = Armed
  BY Zenon, <1>1 DEF Armed
<1>3. loop' \in LoopStates /\ ~LoopAt("timeout")' /\ NothingPending'
  BY Zenon, <1>1 DEF EventsInv, EventTypes, LoopStates, LoopAt, NothingPending
<1>4. CASE loop.param
  <2>1. UNCHANGED <<held, count>>
    BY Zenon, <1>4 DEF wakeTimeoutCallback
  <2>2. EventTypes'
    BY Zenon, <1>1, <1>3, <2>1 DEF EventsInv, EventTypes
  <2>3. \A t \in VendorThreads : user[t].pc = "grabbed" => Live(user[t].timer)'
    BY Zenon, <1>1, <1>2, <1>4 DEF EventsInv, GrabbedInv, Live
  <2>4. GrabbedInv'
    BY Zenon, <1>1, <2>3, GrabbedKept DEF EventsInv
  <2>5. HeldInv'
    BY Zenon, <1>1, <1>2, <1>4, <2>1 DEF EventsInv, HeldInv
  <2> QED BY Zenon, <1>3, <2>2, <2>4, <2>5 DEF EventsInv
<1>5. CASE ~loop.param
  <2>1. held' = FALSE /\ count' \in {0, count} /\ (rilVersion >= 13 => mutex = "none")
    BY Zenon, <1>5 DEF wakeTimeoutCallback
  <2>2. EventTypes'
    <3>1. count' \in 0..made
      BY <2>1 DEF EventsInv, EventTypes
    <3> QED BY Zenon, <1>1, <1>3, <2>1, <3>1 DEF EventsInv, EventTypes
  <2>3. \A t \in VendorThreads : user[t].pc # "grabbed"
    BY <2>1, LoopAssumption DEF EventsInv, GrabbedInv
  <2>4. GrabbedInv'
    BY Zenon, <1>1, <2>3, GrabbedKept DEF EventsInv
  <2>5. HeldInv'
    BY Zenon, <2>1 DEF HeldInv
  <2> QED BY Zenon, <1>3, <2>2, <2>4, <2>5 DEF EventsInv
<1> QED BY Zenon, <1>4, <1>5

\* Time passes.
LEMMA TickInv == ASSUME EventsInv, Tick PROVE EventsInv'
<1>1. UNCHANGED <<rilVersion, pending, cancelled, held, count, last, mutex, user, made>>
  BY Zenon DEF Tick
<1>2. timer_list' \in Seq(Timers) /\ Armed' = Armed
  BY Zenon, TimePasses DEF EventsInv, EventTypes
<1> DEFINE tv == IF loop.tv > 0 THEN loop.tv - 1 ELSE loop.tv
<1>3. loop' = [loop EXCEPT !.tv = tv] /\ tv \in Int
  BY DEF Tick, EventsInv, EventTypes, LoopStates
<1> HIDE DEF tv
<1>4. loop' \in LoopStates /\ loop'.pc = loop.pc /\ loop'.firing = loop.firing /\ loop'.param = loop.param
  BY Zenon, <1>3 DEF EventsInv, EventTypes, LoopStates
<1>5. EventTypes' /\ NothingPending'
  BY Zenon, <1>1, <1>2, <1>4 DEF EventsInv, EventTypes, NothingPending
<1>6. \A t \in VendorThreads : user[t].pc = "grabbed" => Live(user[t].timer)'
  BY Zenon, <1>1, <1>2, <1>4 DEF EventsInv, GrabbedInv, Live, LoopAt
<1>7. GrabbedInv'
  BY Zenon, <1>1, <1>6, GrabbedKept DEF EventsInv
<1>8. HeldInv'
  BY Zenon, <1>1, <1>2, <1>4 DEF EventsInv, HeldInv, LoopAt
<1> QED BY Zenon, <1>5, <1>7, <1>8 DEF EventsInv

\* Nobody is between taking the lock and remembering the timer while the mutex
\* is free, or before version 13.
LEMMA NobodyGrabbed ==
  ASSUME EventsInv, rilVersion >= 13 => mutex = "none"
  PROVE  \A t \in VendorThreads : user[t].pc # "grabbed"
BY LoopAssumption DEF EventsInv, GrabbedInv

\* releaseWakeLock.
LEMMA ReleaseInv == ASSUME EventsInv, ReleaseWakeLock PROVE EventsInv'
<1>1. UNCHANGED <<rilVersion, timer_list, pending, loop, last, mutex, user, made>>
  BY Zenon DEF ReleaseWakeLock
<1>2. \A t \in VendorThreads : user[t].pc # "grabbed"
  BY Zenon, NobodyGrabbed DEF ReleaseWakeLock
<1>3. GrabbedInv'
  BY Zenon, <1>1, <1>2 DEF EventsInv, GrabbedInv
<1>4. /\ (held' = FALSE \/ UNCHANGED <<held, cancelled>>) /\ held' \in BOOLEAN
      /\ cancelled' \subseteq cancelled \cup ({last} \ {0})
  BY Zenon DEF ReleaseWakeLock, Cancel, EventsInv, EventTypes
<1>5. count' \in 0..made
  BY DEF ReleaseWakeLock, EventsInv, EventTypes
<1>6. cancelled' \subseteq 1..made
  BY <1>4 DEF EventsInv, EventTypes
<1>7. EventTypes' /\ NothingPending'
  BY Zenon, <1>1, <1>4, <1>5, <1>6 DEF EventsInv, EventTypes, NothingPending
<1>8. Armed' = Armed
  BY Zenon, <1>1 DEF Armed
<1>9. HeldInv'
  BY Zenon, <1>1, <1>4, <1>8 DEF EventsInv, HeldInv, LoopAt
<1> QED BY Zenon, <1>3, <1>7, <1>9 DEF EventsInv

\* Arming the next timer.
LEMMA NextTimer ==
  ASSUME EventsInv, internalRequestTimedCallback(made + 1), pending' = pending
  PROVE  /\ made' = made + 1 /\ made' \in Nat /\ made' <= MaxTimers
         /\ timer_list' \in Seq(Timers)
         /\ made + 1 \in Armed' /\ Armed \subseteq Armed'
         /\ made + 1 \notin cancelled /\ made + 1 \notin 0..made /\ 0..made \subseteq 0..made'
<1>1. /\ made < MaxTimers /\ made' = made + 1 /\ ril_timer_add(made + 1, WAKE_TIMEOUT)
      /\ made \in Nat /\ MaxTimers \in Nat
  BY Zenon, LoopAssumption DEF internalRequestTimedCallback, EventsInv, EventTypes
<1>2. made + 1 \in 1..MaxTimers
  BY <1>1
<1>3. timer_list' \in Seq(Timers) /\ made + 1 \in Armed' /\ Armed \subseteq Armed'
  BY Zenon, <1>1, <1>2, TimerAdded DEF EventsInv, EventTypes
<1>4. made + 1 \notin cancelled
  BY <1>1 DEF EventsInv, EventTypes
<1> QED BY <1>1, <1>3, <1>4

\* grabPartialWakeLock.
LEMMA GrabInv ==
  ASSUME EventsInv, NEW t \in VendorThreads, GrabPartialWakeLock(t) PROVE EventsInv'
<1>1. UNCHANGED <<rilVersion, pending, cancelled, loop, last>> /\ mutex = "none" /\ rilVersion >= 13
  BY Zenon DEF GrabPartialWakeLock
<1>2. \A u \in VendorThreads : user[u].pc # "grabbed" /\ user[u].pc # "delivering"
  BY <1>1, NobodyGrabbed DEF EventsInv, GrabbedInv
<1>3. rilVersion = 13
  BY <1>1 DEF EventsInv, EventTypes
<1>4. CASE /\ internalRequestTimedCallback(made + 1)
           /\ mutex' = t /\ held' = TRUE /\ count' = count + 1
           /\ user' = [user EXCEPT ![t] = [pc |-> "grabbed", timer |-> made + 1, seen |-> last]]
  <2>1. /\ made' = made + 1 /\ made' \in Nat /\ made' <= MaxTimers
        /\ timer_list' \in Seq(Timers)
        /\ made + 1 \in Armed' /\ Armed \subseteq Armed'
        /\ made + 1 \notin cancelled /\ made + 1 \notin 0..made /\ 0..made \subseteq 0..made'
    BY Zenon, <1>1, <1>4, NextTimer
  <2>2. last \in 0..made /\ made \in Nat /\ count \in 0..made /\ cancelled \subseteq 1..made
    BY Zenon DEF EventsInv, EventTypes
  <2>3. user' \in [VendorThreads -> UserStates]
    BY <1>4, <2>2 DEF EventsInv, EventTypes, UserStates
  <2>4. count' \in 0..made' /\ cancelled' \subseteq 1..made' /\ last' \in 0..made'
    BY <1>1, <1>4, <2>1, <2>2
  <2>5. EventTypes' /\ NothingPending'
    BY Zenon, <1>1, <1>4, <2>1, <2>3, <2>4 DEF EventsInv, EventTypes, NothingPending
  <2>6. \A u \in VendorThreads : user'[u].pc # "delivering" /\ (user'[u].pc = "grabbed" => u = t)
    BY Zenon, <1>2, <1>4 DEF EventsInv, EventTypes
  <2>7. /\ user'[t] = [pc |-> "grabbed", timer |-> made + 1, seen |-> last]
        /\ made + 1 \in 1..made' /\ last # made + 1
    BY <1>4, <2>1, <2>2 DEF EventsInv, EventTypes
  <2>8. Live(user[t].timer)'
    BY <2>1, <2>7 DEF Live
  <2>9. GrabbedInv'
    <3>1. /\ user'[t].pc = "grabbed" /\ user'[t].timer = made + 1 /\ user'[t].seen = last
      BY <2>7
    <3>2. /\ rilVersion' = 13 /\ mutex' = t
          /\ user'[t].timer \in 1..made' /\ user'[t].timer \notin cancelled'
          /\ user'[t].seen \in 0..made' /\ user'[t].seen # user'[t].timer /\ last' # user'[t].timer
      BY <1>1, <1>3, <1>4, <2>1, <2>2, <2>7, <3>1
    <3> QED BY Zenon, <2>6, <2>8, <3>2 DEF GrabbedInv
  <2>10. HeldInv'
    <3>1. made + 1 \in Armed' \ {0} /\ made + 1 \notin cancelled'
      BY <1>1, <2>1, <2>2
    <3> QED BY Zenon, <3>1 DEF HeldInv
  <2> QED BY Zenon, <2>5, <2>9, <2>10 DEF EventsInv
<1>5. CASE held' = FALSE /\ UNCHANGED <<made, timer_list, pipe, mutex, count, user>>
  <2>1. EventTypes' /\ NothingPending'
    BY Zenon, <1>1, <1>5 DEF EventsInv, EventTypes, NothingPending
  <2>2. GrabbedInv'
    BY Zenon, <1>1, <1>2, <1>5 DEF EventsInv, GrabbedInv
  <2>3. HeldInv'
    BY Zenon, <1>5 DEF HeldInv
  <2> QED BY Zenon, <2>1, <2>2, <2>3 DEF EventsInv
<1> QED BY Zenon, <1>4, <1>5 DEF GrabPartialWakeLock

\* grabPartialWakeLock marks the timer before and remembers its own. The mutex
\* has kept that one from firing to the end.
LEMMA RememberInv ==
  ASSUME EventsInv, NEW t \in VendorThreads, RememberTimer(t) PROVE EventsInv'
<1> DEFINE id == user[t].timer
<1>1. /\ UNCHANGED <<rilVersion, timer_list, pending, loop, held, count, made>>
      /\ user[t].pc = "grabbed" /\ last' = id
      /\ cancelled' = cancelled \cup ({user[t].seen} \ {0})
      /\ user' = [user EXCEPT ![t] = [pc |-> "idle", timer |-> 0, seen |-> 0]]
  BY Zenon DEF RememberTimer, Cancel
<1>2. /\ rilVersion = 13 /\ mutex = t /\ id \in 1..made /\ id \notin cancelled
      /\ user[t].seen \in 0..made /\ user[t].seen # id /\ Live(id)
      /\ made \in Nat
  BY Zenon, <1>1 DEF EventsInv, GrabbedInv, EventTypes
<1>3. \A u \in VendorThreads : user'[u].pc # "grabbed" /\ user'[u].pc # "delivering"
  BY <1>1, <1>2 DEF EventsInv, GrabbedInv, EventTypes
<1>4. GrabbedInv'
  BY Zenon, <1>3 DEF GrabbedInv
<1>5. user' \in [VendorThreads -> UserStates]
  BY Zenon, <1>1 DEF EventsInv, EventTypes, UserStates
<1>6. cancelled' \subseteq 1..made' /\ last' \in 0..made'
  <2>1. cancelled \subseteq 1..made
    BY Zenon DEF EventsInv, EventTypes
  <2> HIDE DEF id
  <2>2. last' \in 0..made'
    BY <1>1, <1>2
  <2>3. user[t].seen # 0 => user[t].seen \in 1..made
    BY <1>2
  <2> QED BY Zenon, <1>1, <2>1, <2>2, <2>3
<1>7. EventTypes' /\ NothingPending'
  BY Zenon, <1>1, <1>5, <1>6 DEF EventsInv, EventTypes, NothingPending
<1>8. Armed' = Armed
  BY Zenon, <1>1 DEF Armed
<1>9. id \notin cancelled' /\ id # 0
  BY <1>1, <1>2
<1>10. HeldInv'
  BY Zenon, <1>1, <1>2, <1>8, <1>9 DEF HeldInv, Live, LoopAt
<1> QED BY Zenon, <1>4, <1>7, <1>10 DEF EventsInv

\* An indication before version 13 takes the lock.
LEMMA WakeInv ==
  ASSUME EventsInv, NEW t \in VendorThreads, WakeForIndication(t) PROVE EventsInv'
<1>1. /\ UNCHANGED <<rilVersion, timer_list, pending, cancelled, loop, count, last, mutex, made>>
      /\ rilVersion < 13 /\ held' = TRUE /\ user' = [user EXCEPT ![t].pc = "delivering"]
  BY Zenon DEF WakeForIndication
<1>2. /\ user' \in [VendorThreads -> UserStates] /\ user'[t].pc = "delivering"
      /\ \A u \in VendorThreads : u # t => user'[u] = user[u]
  BY ZenonT(30), <1>1 DEF EventsInv, EventTypes, UserStates
<1>3. EventTypes' /\ NothingPending'
  BY Zenon, <1>1, <1>2 DEF EventsInv, EventTypes, NothingPending
<1>4. rilVersion = 12 /\ \A u \in VendorThreads : user[u].pc # "grabbed"
  BY <1>1 DEF EventsInv, EventTypes, GrabbedInv
<1>5. \A u \in VendorThreads : user'[u].pc # "grabbed"
  BY Zenon, <1>2, <1>4
<1>6. GrabbedInv'
  BY Zenon, <1>1, <1>4, <1>5 DEF GrabbedInv
<1>7. HeldInv'
  BY Zenon, <1>2 DEF HeldInv
<1> QED BY Zenon, <1>3, <1>6, <1>7 DEF EventsInv

\* Once delivered, an indication arms its timer or gives the lock back.
LEMMA ScheduleInv ==
  ASSUME EventsInv, NEW t \in VendorThreads, ScheduleTimeout(t) PROVE EventsInv'
<1>1. /\ UNCHANGED <<rilVersion, pending, loop, count, mutex>>
      /\ user[t].pc = "delivering" /\ user' = [user EXCEPT ![t].pc = "idle"]
  BY Zenon DEF ScheduleTimeout
<1>2. rilVersion = 12 /\ \A u \in VendorThreads : user[u].pc # "grabbed"
  BY <1>1 DEF EventsInv, EventTypes, GrabbedInv
<1>3. /\ user' \in [VendorThreads -> UserStates]
      /\ \A u \in VendorThreads : user'[u].pc # "grabbed"
  BY Zenon, <1>1, <1>2 DEF EventsInv, EventTypes, UserStates
<1>4. GrabbedInv'
  BY Zenon, <1>1, <1>2, <1>3 DEF GrabbedInv
<1>5. CASE internalRequestTimedCallback(made + 1) /\ Cancel(last) /\ last' = made + 1 /\ held' = held
  <2>1. /\ made' = made + 1 /\ made' \in Nat /\ made' <= MaxTimers
        /\ timer_list' \in Seq(Timers)
        /\ made + 1 \in Armed' /\ Armed \subseteq Armed'
        /\ made + 1 \notin cancelled /\ made + 1 \notin 0..made /\ 0..made \subseteq 0..made'
    BY Zenon, <1>1, <1>5, NextTimer
  <2>2. /\ last \in 0..made /\ made \in Nat /\ count \in 0..made /\ cancelled \subseteq 1..made
        /\ cancelled' = cancelled \cup ({last} \ {0})
    BY Zenon, <1>5 DEF EventsInv, EventTypes, Cancel
  <2>3. count' \in 0..made' /\ cancelled' \subseteq 1..made' /\ last' \in 0..made'
    BY <1>1, <1>5, <2>1, <2>2
  <2>4. EventTypes' /\ NothingPending'
    BY Zenon, <1>1, <1>3, <1>5, <2>1, <2>3 DEF EventsInv, EventTypes, NothingPending
  <2>5. made + 1 \in Armed' \ {0} /\ made + 1 \notin cancelled'
    BY <2>1, <2>2
  <2> QED BY Zenon, <1>4, <2>4, <2>5 DEF EventsInv, HeldInv
<1>6. CASE held' = FALSE /\ UNCHANGED <<timer_list, pipe, made, cancelled, last>>
  <2>1. EventTypes' /\ NothingPending'
    BY Zenon, <1>1, <1>3, <1>6 DEF EventsInv, EventTypes, NothingPending
  <2> QED BY Zenon, <1>4, <1>6, <2>1 DEF EventsInv, HeldInv
<1> QED BY Zenon, <1>5, <1>6 DEF ScheduleTimeout

\* The invariant holds at the start.
LEMMA EventsStart == EventsInit => EventsInv
<1> SUFFICES ASSUME EventsInit PROVE EventsInv
  BY Zenon
<1>1. EventTypes
  <2>1. loop \in LoopStates
    BY DEF EventsInit, LoopStates, Forever
  <2>2. user \in [VendorThreads -> UserStates]
    BY Zenon DEF EventsInit, UserStates
  <2>3. /\ rilVersion \in {12, 13} /\ made = 0 /\ timer_list = << >> /\ pending = << >>
        /\ cancelled = {} /\ last = 0 /\ count = 0 /\ held = FALSE
    BY Zenon DEF EventsInit
  <2>4. made \in Nat /\ made <= MaxTimers /\ last \in 0..made /\ count \in 0..made
    BY <2>3, LoopAssumption
  <2>5. << >> \in Seq(Timers) /\ << >> \in Seq(Nat)
    OBVIOUS
  <2> QED BY Zenon, <2>1, <2>2, <2>3, <2>4, <2>5 DEF EventTypes
<1>2. NothingPending /\ HeldInv
  BY Zenon DEF EventsInit, NothingPending, HeldInv
<1>3. GrabbedInv
  BY Zenon DEF EventsInit, GrabbedInv
<1> QED BY Zenon, <1>1, <1>2, <1>3 DEF EventsInv

\* The inductive invariant: whoever holds the lock has a timer the others
\* cannot cancel, at every interleaving of grabs, acknowledgements and timeouts.
THEOREM EventsInvariant == EventsSpec => []EventsInv
<1>1. EventsInv /\ UNCHANGED eventVars => EventsInv'
  BY DEF EventsInv, EventTypes, NothingPending, GrabbedInv, HeldInv, Live, LoopAt, Armed, eventVars
<1>2. EventsInv /\ EventsNext => EventsInv'
  BY Zenon, StartLoopInv, CalcInv, ReadiesInv, FireInv, TimeoutInv, ForgetInv, TickInv, ReleaseInv,
     GrabInv, RememberInv, WakeInv, ScheduleInv, Zenon DEF EventsNext, LoopStep, UserStep
<1> QED BY <1>1, <1>2, EventsStart, PTL DEF EventsSpec

\* However the vendor's threads, the client's acknowledgements and the timers of
\* the event loop interleave, a wake lock that is held has an armed or firing
\* timer nobody has cancelled, or a thread about to arm one: libril never
\* keeps the device awake for good.
THEOREM HeldLockHasTimer == EventsSpec => []HeldHasTimer
<1>1. EventsInv => HeldHasTimer
  <2> SUFFICES ASSUME EventsInv PROVE HeldHasTimer
    BY Zenon
  <2>1. /\ rilVersion \in {12, 13} /\ held \in BOOLEAN /\ made \in Nat /\ made <= MaxTimers
        /\ cancelled \subseteq 1..made /\ last \in 0..made /\ count \in 0..made
        /\ timer_list \in Seq(Timers) /\ MaxTimers \in Nat
    BY Zenon, LoopAssumption DEF EventsInv, EventTypes
  <2>2. cancelled \subseteq 1..MaxTimers /\ last \in 0..MaxTimers /\ count \in 0..MaxTimers
    BY <2>1
  <2>3. \A i \in DOMAIN timer_list : timer_list[i].left \in -1..WAKE_TIMEOUT
    <3>1. \A i \in DOMAIN timer_list : timer_list[i] \in Timers
      BY Zenon, <2>1, SeqLen
    <3> QED BY Zenon, <3>1 DEF Timers
  <2>4. EventsTypeOK
    BY Zenon, <2>1, <2>2, <2>3 DEF EventsTypeOK
  <2> QED BY <2>4 DEF EventsInv, HeldInv, HeldHasTimer
<1> QED BY <1>1, EventsInvariant, PTL
==============================================================================
