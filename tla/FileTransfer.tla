----------------------------- MODULE FileTransfer -----------------------------
(***************************************************************************)
(* The modem file transfer program (mdm-helper/mdmfiletransfer): a host    *)
(* that collects the memory of a modem in download mode, transfers a boot  *)
(* loader to it (both in dload_protocol.c), or streams an image to that    *)
(* loader (streaming_protocol.c), over a serial port (comm.c, hdlc.c).     *)
(*                                                                         *)
(* The host sends one packet at a time and waits for an answer with a      *)
(* timeout.  The target answers in order, sooner or later than the         *)
(* timeout; packets and answers may be lost.  A region of memory or a file *)
(* is a number of blocks of the largest size a packet may have; a packet   *)
(* carries a command and the number of a block.  Writing to the port and   *)
(* to the local file does not fail, and the target accepts what it is      *)
(* sent; one region is collected.                                          *)
(***************************************************************************)
EXTENDS Integers, Sequences

CONSTANTS
    Blocks,            \* number of blocks of the region or file
    NUM_PING_RETRIES,  \* attempts to get an answer to a NOP or a hello
    MAX_WRITE_RETRY,   \* attempts to write a block (10)
    MaxLost,           \* bound on the packets and answers that get lost
    MaxLate            \* bound on the timeouts that a late answer follows

ASSUME TransferAssumption ==
    /\ Blocks \in Nat \ {0}
    /\ NUM_PING_RETRIES \in Nat \ {0}
    /\ MAX_WRITE_RETRY \in Nat \ {0}
    /\ MaxLost \in Nat
    /\ MaxLate \in Nat

VARIABLES
    job,        \* "dump", "hex" or "stream"
    phase,      \* the exchange the host is in
    awaiting,    \* it has sent its packet and waits
    block,      \* the block it works on
    attempt,    \* attempts of the current loop
    result,     \* "none", "ok" or "failed"
    dumped,     \* blocks written to the ram dump file
    toTarget,   \* packets under way
    toHost,     \* answers in the host's input queue
    written,    \* external: blocks that the target has stored
    lost, late  \* losses and late answers so far

hostVars == <<job, phase, awaiting, block, attempt, result, dumped>>
lineVars == <<toTarget, toHost, written, lost, late>>
transferVars == <<hostVars, lineVars>>

Phases == {"ping", "param", "query", "read", "reping", "write", "go", "stream",
           "reset", "end"}
NoAnswer == <<"none", 0>>

\* What the host sends in each phase, and the answer that it looks for.
Packet ==
    CASE phase = "ping" -> IF job = "stream" THEN <<"HELLO", 0>> ELSE <<"NOP", 0>>
      [] phase = "reping" -> <<"NOP", 0>>
      [] phase = "param" -> <<"PARAM", 0>>
      [] phase = "query" -> <<"QUERY", 0>>
      [] phase = "read" -> <<"READ", block>>
      [] phase = "write" -> <<"WRITE", block>>
      [] phase = "go" -> <<"GO", 0>>
      [] phase = "stream" -> <<"STREAM", block>>
      [] phase = "reset" -> <<"RESET", 0>>

\* External: the target's answer.  In download mode a write is acknowledged without
\* its address.
Answer(p) ==
    IF p[1] \in {"NOP", "WRITE", "GO"} THEN <<"ACK", 0>> ELSE p

TransferInit ==
    /\ job \in {"dump", "hex", "stream"}
    /\ phase = "ping"
    /\ awaiting = FALSE
    /\ block = 0
    /\ attempt = 0
    /\ result = "none"
    /\ dumped = <<>>
    /\ toTarget = <<>>
    /\ toHost = <<>>
    /\ written = {}
    /\ lost = 0
    /\ late = 0

(***************************************************************************)
(* External: the target and the line.                                      *)
(***************************************************************************)
TargetAnswers ==
    /\ toTarget # <<>>
    /\ toTarget' = Tail(toTarget)
    /\ written' = IF Head(toTarget)[1] \in {"WRITE", "STREAM"}
                  THEN written \cup {Head(toTarget)[2]} ELSE written
    /\ \/ toHost' = Append(toHost, Answer(Head(toTarget))) /\ UNCHANGED lost
       \/ lost < MaxLost /\ lost' = lost + 1 /\ UNCHANGED toHost
    /\ UNCHANGED <<hostVars, late>>

PacketLost ==
    /\ toTarget # <<>> /\ lost < MaxLost
    /\ toTarget' = Tail(toTarget)
    /\ lost' = lost + 1
    /\ UNCHANGED <<hostVars, toHost, written, late>>

(***************************************************************************)
(* The port.                                                               *)
(***************************************************************************)
\* tx_data discards the input that is pending before it writes.
tx_data(p) == toTarget' = Append(toTarget, p) /\ toHost' = <<>>

Send ==
    /\ phase # "end" /\ ~awaiting
    /\ tx_data(Packet)
    /\ awaiting' = TRUE
    /\ UNCHANGED <<job, phase, block, attempt, result, dumped, written, lost, late>>

\* What one read leaves of n pending answers: the download protocol decodes the first
\* one, the streaming protocol refuses several at once.
Decoded(n) == IF job = "stream" /\ n > 1 THEN NoAnswer ELSE toHost[1]

(***************************************************************************)
(* What the host does with an answer, or without one.                      *)
(***************************************************************************)
Enter(p) ==
    /\ phase' = p
    /\ attempt' = 0
    /\ UNCHANGED <<job, block, result, dumped>>

Again ==
    /\ attempt' = attempt + 1
    /\ UNCHANGED <<job, phase, block, result, dumped>>

End(r) ==
    /\ phase' = "end"
    /\ result' = r
    /\ UNCHANGED <<job, block, attempt, dumped>>

\* dload_ping_target.
dload_ping_target(r, next) ==
    IF r[1] = "ACK" THEN Enter(next)
    ELSE IF attempt + 1 < NUM_PING_RETRIES THEN Again ELSE End("failed")

\* streaming_ping_target succeeds when all its attempts fail, too.
streaming_ping_target(r) ==
    IF r[1] = "HELLO" \/ attempt + 1 = NUM_PING_RETRIES THEN Enter("stream") ELSE Again

Ping(r) ==
    IF job = "stream" THEN streaming_ping_target(r) ELSE dload_ping_target(r, "param")

\* The parameters, for the protocol version or the largest write.
Param(r) ==
    IF r[1] # "PARAM" THEN End("failed")
    ELSE Enter(IF job = "dump" THEN "query" ELSE "write")

Query(r) == IF r[1] # "QUERY" THEN End("failed") ELSE Enter("read")

\* Mutant of ReadBlock: the address of the answer is not compared.
ReadBlock_AnyAddress(r) ==
    IF r[1] # "READ" THEN Enter("reping")
    ELSE /\ dumped' = Append(dumped, r[2])
         /\ block' = block + 1
         /\ phase' = IF block + 1 = Blocks THEN "end" ELSE "read"
         /\ result' = IF block + 1 = Blocks THEN "ok" ELSE "none"
         /\ UNCHANGED <<job, attempt>>

\* One round of collect_ram_dumps: without an answer the target is pinged, an answer
\* for another address is ignored and the request sent again.
ReadBlock(r) ==
    IF r[1] # "READ" THEN Enter("reping")
    ELSE IF r[2] # block THEN Enter("read")
    ELSE /\ dumped' = Append(dumped, r[2])
         /\ block' = block + 1
         /\ phase' = IF block + 1 = Blocks THEN "end" ELSE "read"
         /\ result' = IF block + 1 = Blocks THEN "ok" ELSE "none"
         /\ UNCHANGED <<job, attempt>>

\* The block is stored, and next follows the last one.
NextBlock(next) ==
    /\ block' = block + 1
    /\ attempt' = 0
    /\ phase' = IF block + 1 = Blocks THEN next ELSE phase
    /\ UNCHANGED <<job, result, dumped>>

\* One write of parse_hex_file: the acknowledgement of the last attempt comes too
\* late, whether or not it was received.
WriteBlock(r) ==
    IF attempt + 1 = MAX_WRITE_RETRY THEN End("failed")
    ELSE IF r[1] = "ACK" THEN NextBlock("go") ELSE Again

\* One round of send_file_stream_write.
StreamBlock(r) ==
    IF r = NoAnswer THEN IF attempt + 1 < MAX_WRITE_RETRY THEN Again ELSE End("failed")
    ELSE IF r[1] # "STREAM" THEN End("failed")
    ELSE IF r[2] # block THEN Enter("stream") ELSE NextBlock("reset")

\* transfer_hex_file and begin_streaming_nor succeed without the last answer.
Handle(r) ==
    \/ phase = "ping" /\ Ping(r)
    \/ phase = "param" /\ Param(r)
    \/ phase = "query" /\ Query(r)
    \/ phase = "read" /\ ReadBlock(r)
    \/ phase = "reping" /\ dload_ping_target(r, "read")
    \/ phase = "write" /\ WriteBlock(r)
    \/ phase = "go" /\ End("ok")
    \/ phase = "stream" /\ StreamBlock(r)
    \/ phase = "reset" /\ End("ok")

\* A read takes what has arrived, at least one answer.
Receive ==
    /\ awaiting /\ toHost # <<>>
    /\ \E n \in 1 .. Len(toHost) :
        /\ Handle(Decoded(n))
        /\ toHost' = SubSeq(toHost, n + 1, Len(toHost))
    /\ awaiting' = FALSE
    /\ UNCHANGED <<toTarget, written, lost, late>>

Timeout ==
    /\ awaiting /\ toHost = <<>>
    /\ Handle(NoAnswer)
    /\ awaiting' = FALSE
    /\ \/ toTarget = <<>> /\ UNCHANGED late
       \/ toTarget # <<>> /\ late < MaxLate /\ late' = late + 1
    /\ UNCHANGED <<toTarget, toHost, written, lost>>

TransferNext == Send \/ Receive \/ Timeout \/ TargetAnswers \/ PacketLost

TransferSpec == TransferInit /\ [][TransferNext]_transferVars

(***************************************************************************)
(* Properties.                                                             *)
(***************************************************************************)
TransferTypeOK ==
    /\ job \in {"dump", "hex", "stream"}
    /\ phase \in Phases
    /\ awaiting \in BOOLEAN
    /\ block \in 0 .. Blocks
    /\ attempt \in 0 .. MAX_WRITE_RETRY + NUM_PING_RETRIES
    /\ result \in {"none", "ok", "failed"}
    /\ written \subseteq 0 .. Blocks - 1

\* When begin_streaming_nor reports success, the target has stored every block of the
\* file: a late answer to an earlier attempt never stands for a write that was lost.
StreamedComplete == job = "stream" /\ result = "ok" => written = 0 .. Blocks - 1

\* The file of collect_ram_dumps holds the blocks of the region up to the current
\* address, each once and in order, whatever answers were late, lost or doubled; it
\* is complete when the collection succeeds.
DumpExact ==
    job = "dump" => /\ dumped = [k \in 1 .. block |-> k - 1]
                    /\ result = "ok" => block = Blocks

\* In both directions a transfer that reports success moved every block, and the dump
\* is at no time anything but a prefix of the memory.
TransferExact == StreamedComplete /\ DumpExact
==============================================================================
