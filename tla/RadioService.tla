---------------------------- MODULE RadioService ----------------------------
(***************************************************************************)
(* Who may call the client's callbacks, and when they are forgotten        *)
(* (libril/ril_service.cpp and ril.cpp).                                   *)
(*                                                                         *)
(* The radio and the OEM hook service keep the callbacks of their client,  *)
(* a process that may die and come back as a new generation.  Threads of   *)
(* the vendor library deliver answers and indications while they hold the  *)
(* reader-writer lock of the services for reading; a network time (NITZ)   *)
(* holds it for writing.  A call that fails means the client is dead: the  *)
(* thread notes the counter of registrations, gives the lock up, takes it  *)
(* for writing and forgets the callbacks unless the counter moved.  The    *)
(* one binder thread serves the clients: setResponseFunctions registers    *)
(* callbacks and then sends the initial indications.                       *)
(*                                                                         *)
(* The lock is a count of readers and a writer, as in the C library: a     *)
(* reader that unlocks takes one off the count, whoever added it.          *)
(***************************************************************************)
EXTENDS Integers, Sequences, FiniteSets, Functions

CONSTANTS Services,        \* of "radio" and "oemhook"
          Vendor,          \* threads of the vendor library
          MaxGenerations   \* clients started, over the services

ASSUME ServiceAssumption ==
  /\ Services \subseteq {"radio", "oemhook"} /\ MaxGenerations \in Nat
  /\ IsFiniteSet(Vendor) /\ Vendor \cap {"binder", "none"} = {}

VARIABLES
  readers,   \* readers of radioServiceRwlock
  writer,    \* its writer, or NoThread
  cb,        \* cb[s]: generation whose callbacks service s holds, 0 for NULL
  counter,   \* mCounterRadio, mCounterOemHook
  alive,     \* alive[s]: generation of the client that is running, 0 when dead
  born,      \* generations started so far
  newcomer,     \* newcomer[s]: generation whose setResponseFunctions waits for the binder thread
  thread,    \* what each thread is doing
  todo,      \* what the binder thread still sends to a new client
  saved      \* s_lastNITZTimeData is not NULL

serviceVars == <<readers, writer, cb, counter, alive, born, newcomer, thread, todo, saved>>

Binder == "binder"
NoThread == "none"
Threads == Vendor \cup {Binder}
IdleThread == [pc |-> "idle", service |-> "radio", kind |-> "none", seen |-> 0]
Kinds == {"none", "deliver", "nitz", "resend", "refusal"}

ServiceInit ==
  /\ readers = 0 /\ writer = NoThread
  /\ cb = [s \in Services |-> 0] /\ counter = [s \in Services |-> 0]
  /\ alive = [s \in Services |-> 0] /\ born = [s \in Services |-> 0]
  /\ newcomer = [s \in Services |-> 0]
  /\ thread = [t \in Threads |-> IdleThread]
  /\ todo = << >> /\ saved = FALSE

Free == readers = 0 /\ writer = NoThread
At(t, pc) == thread[t].pc = pc
MoveTo(t, pc) == thread' = [thread EXCEPT ![t].pc = pc]

(***************************************************************************)
(* The client processes.                                                   *)
(***************************************************************************)
ClientDies(s) ==
  /\ alive[s] # 0
  /\ alive' = [alive EXCEPT ![s] = 0]
  /\ UNCHANGED <<readers, writer, cb, counter, born, newcomer, thread, todo, saved>>

\* A client starts and asks for its callbacks to be registered.
ClientStarts(s) ==
  /\ alive[s] = 0 /\ FoldFunction(+, 0, born) < MaxGenerations
  /\ born' = [born EXCEPT ![s] = @ + 1]
  /\ alive' = [alive EXCEPT ![s] = born[s] + 1]
  /\ newcomer' = [newcomer EXCEPT ![s] = born[s] + 1]
  /\ UNCHANGED <<readers, writer, cb, counter, thread, todo, saved>>

(***************************************************************************)
(* Entering a delivery.  RIL_onRequestComplete, RIL_onRequestAck and       *)
(* RIL_onUnsolicitedResponse take the lock; a request method that refuses  *)
(* calls the response function without it.                                 *)
(***************************************************************************)
Begins(t, s, kind) ==
  thread' = [thread EXCEPT ![t] = [pc |-> IF kind = "refusal" THEN "call" ELSE "lock",
                                   service |-> s, kind |-> kind, seen |-> 0]]

VendorDelivers(t, s, kind) ==
  /\ At(t, "idle")
  /\ kind \in {"deliver"} \cup IF s = "radio" THEN {"nitz"} ELSE {}
  /\ Begins(t, s, kind)
  /\ UNCHANGED <<readers, writer, cb, counter, alive, born, newcomer, todo, saved>>

\* sendErrorResponse, called by the binder thread in a request method of a
\* client that was alive when it sent the request.
RequestRefused(s) ==
  /\ At(Binder, "idle") /\ todo = << >> /\ born[s] > 0
  /\ Begins(Binder, s, "refusal")
  /\ UNCHANGED <<readers, writer, cb, counter, alive, born, newcomer, todo, saved>>

Lock(t) ==
  /\ At(t, "lock")
  /\ IF thread[t].kind = "nitz"
     THEN /\ Free
          /\ writer' = t /\ readers' = readers
          /\ thread' = [thread EXCEPT ![t].pc = "call"]
     ELSE /\ writer = NoThread
          /\ readers' = readers + 1 /\ writer' = writer
          /\ thread' = [thread EXCEPT ![t].pc = "call"]
  /\ UNCHANGED <<cb, counter, alive, born, newcomer, todo, saved>>

(***************************************************************************)
(* The response or indication function: without callbacks it returns (a    *)
(* NITZ function with -1, and the time is saved); otherwise the callback   *)
(* is called, which fails when its process is dead.                        *)
(***************************************************************************)
Call(t) ==
  LET s == thread[t].service kind == thread[t].kind IN
  /\ At(t, "call")
  /\ MoveTo(t, IF cb[s] # 0 /\ alive[s] # cb[s] THEN "failed" ELSE "unlock")
  /\ saved' = CASE kind = "nitz" /\ cb[s] = 0 -> TRUE
                [] kind = "resend" /\ cb[s] # 0 -> FALSE
                [] OTHER -> saved
  /\ UNCHANGED <<readers, writer, cb, counter, alive, born, newcomer, todo>>

(***************************************************************************)
(* checkReturnStatus after a failed call.  It unlocks: a thread that does  *)
(* not hold the lock takes a reader off that another thread added, and     *)
(* without readers the assertion on the unlock ends the daemon (no step).  *)
(***************************************************************************)
NoteCounter(t) ==
  /\ At(t, "failed")
  /\ thread' = [thread EXCEPT ![t].pc = "wrlock", ![t].seen = counter[thread[t].service]]
  /\ IF writer = t THEN writer' = NoThread /\ readers' = readers
     ELSE readers > 0 /\ readers' = readers - 1 /\ writer' = writer
  /\ UNCHANGED <<cb, counter, alive, born, newcomer, todo, saved>>

\* Mutant of ForgetCallbacks: the counter is not compared.
ForgetCallbacks_Always(t) ==
  LET s == thread[t].service IN
  /\ At(t, "wrlock") /\ Free
  /\ cb' = [cb EXCEPT ![s] = 0] /\ counter' = [counter EXCEPT ![s] = @ + 1]
  /\ MoveTo(t, "rdlock")
  /\ UNCHANGED <<readers, writer, alive, born, newcomer, todo, saved>>

ForgetCallbacks(t) ==
  LET s == thread[t].service IN
  /\ At(t, "wrlock") /\ Free
  /\ IF counter[s] = thread[t].seen
     THEN cb' = [cb EXCEPT ![s] = 0] /\ counter' = [counter EXCEPT ![s] = @ + 1]
     ELSE UNCHANGED <<cb, counter>>
  /\ MoveTo(t, "rdlock")
  /\ UNCHANGED <<readers, writer, alive, born, newcomer, todo, saved>>

Relock(t) ==
  /\ At(t, "rdlock") /\ writer = NoThread
  /\ readers' = readers + 1
  /\ thread' = [thread EXCEPT ![t].pc = "unlock"]
  /\ UNCHANGED <<writer, cb, counter, alive, born, newcomer, todo, saved>>

\* The caller's unlock, under the same assertion; a refusal has none, and
\* keeps what it holds.
Unlock(t) ==
  /\ At(t, "unlock")
  /\ thread' = [thread EXCEPT ![t] = IdleThread]
  /\ CASE thread[t].kind = "refusal" -> UNCHANGED <<readers, writer>>
       [] thread[t].kind # "refusal" /\ writer = t -> writer' = NoThread /\ readers' = readers
       [] OTHER -> readers > 0 /\ readers' = readers - 1 /\ writer' = writer
  /\ UNCHANGED <<cb, counter, alive, born, newcomer, todo, saved>>

(***************************************************************************)
(* setResponseFunctions, then onNewCommandConnect: two indications and the *)
(* time that was saved.                                                    *)
(***************************************************************************)
setResponseFunctions(s) ==
  /\ newcomer[s] # 0 /\ At(Binder, "idle") /\ todo = << >> /\ Free
  /\ cb' = [cb EXCEPT ![s] = newcomer[s]]
  /\ counter' = [counter EXCEPT ![s] = @ + 1]
  /\ newcomer' = [newcomer EXCEPT ![s] = 0]
  /\ todo' = IF s = "radio" THEN <<"deliver", "deliver", "resend">> ELSE << >>
  /\ UNCHANGED <<readers, writer, alive, born, thread, saved>>

onNewCommandConnect ==
  /\ At(Binder, "idle") /\ todo # << >>
  /\ IF todo[1] = "resend" /\ ~saved THEN UNCHANGED thread ELSE Begins(Binder, "radio", todo[1])
  /\ todo' = Tail(todo)
  /\ UNCHANGED <<readers, writer, cb, counter, alive, born, newcomer, saved>>

ThreadStep(t) ==
  \/ Lock(t) \/ Call(t) \/ NoteCounter(t) \/ ForgetCallbacks(t) \/ Relock(t) \/ Unlock(t)

ServiceNext ==
  \/ \E s \in Services : \/ ClientDies(s) \/ ClientStarts(s)
                         \/ RequestRefused(s) \/ setResponseFunctions(s)
                         \/ \E t \in Vendor, kind \in Kinds : VendorDelivers(t, s, kind)
  \/ \E t \in Threads : ThreadStep(t)
  \/ onNewCommandConnect

ServiceSpec == ServiceInit /\ [][ServiceNext]_serviceVars

------------------------------------------------------------------------------
ServiceTypeOK ==
  /\ readers \in 0..(Cardinality(Threads) + 1) /\ writer \in Threads \cup {NoThread}
  /\ cb \in [Services -> 0..MaxGenerations] /\ alive \in [Services -> 0..MaxGenerations]
  /\ counter \in [Services -> Nat] /\ born \in [Services -> 0..MaxGenerations]
  /\ newcomer \in [Services -> 0..MaxGenerations] /\ saved \in BOOLEAN
  /\ \A t \in Threads : thread[t].kind \in Kinds

\* checkReturnStatus forgets the callbacks of a client that died, never
\* those of the client that is running: the counter it noted tells whether
\* a new client registered while it had given the lock up.
LiveCallbackKept ==
  [][\A s \in Services : cb[s] # 0 /\ cb[s] = alive[s] => cb'[s] # 0]_serviceVars

==============================================================================
