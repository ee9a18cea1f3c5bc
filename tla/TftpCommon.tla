------------------------------ MODULE TftpCommon ------------------------------
(***************************************************************************)
(* What the TFTP client and the TFTP server have in common: the file that  *)
(* is transferred, the packets, and the two loops that both programs hold  *)
(* a copy of, send_loop and receive_loop.                                  *)
(*                                                                         *)
(* A file is FullChunks chunks of ChunkSize bytes followed by one chunk of *)
(* TailSize < ChunkSize bytes, which may be empty.  Chunks are numbered    *)
(* 1..NumBlocks; the number of a chunk stands for its bytes.  A packet     *)
(* carries the 16-bit block number and, as `chunk', the bytes it carries:  *)
(* the programs only ever look at `block' and `size'.                      *)
(*                                                                         *)
(* Each loop is given as the set of states it can be in when it next waits *)
(* for a packet or has ended.  The part of a loop body from its top to the *)
(* wait is SenderTop / ReceiverTop: every `continue' goes through it.      *)
(***************************************************************************)
EXTENDS Integers, Sequences, FiniteSets

CONSTANTS
    ChunkSize,      \* DATA_CHUNK_SIZE, 512 in the code
    BlockModulus,   \* number of values of block_t, 2^16 in the code
    FullChunks,     \* number of full chunks of the file
    TailSize,       \* size of the chunk after them
    Faults          \* what the environment may do wrong, see FaultKinds

(* send  - async_send_to completes with an error                           *)
(* read  - a read of the source file fails (badbit)                        *)
(* write - a write to the target file fails (badbit)                       *)
(* slow  - ten seconds pass without progress: a watchdog fires             *)
(* loss, dup - the network loses packets, delivers them more than once     *)
(* stray - a datagram of an endpoint that is in no transfer arrives        *)
(* stop  - a signal stops the io_context of one of the programs            *)
FaultKinds ==
    {"send", "read", "write", "slow", "loss", "dup", "stray", "stop"}

ASSUME SizeAssumption == /\ ChunkSize \in Nat \ {0}
                         /\ FullChunks \in Nat
                         /\ TailSize \in 0 .. (ChunkSize - 1)
ASSUME ModulusAssumption == BlockModulus \in Nat /\ BlockModulus >= 2
ASSUME FaultsAssumption == Faults \subseteq FaultKinds

NumBlocks == FullChunks + 1

\* The number of bytes of chunk i of the file.
ChunkLen(i) == IF i <= FullChunks THEN ChunkSize ELSE TailSize

BlockNumbers == 0 .. (BlockModulus - 1)
Sizes == 0 .. ChunkSize
Streams == {"good", "eof", "bad"}

-----------------------------------------------------------------------------
(* Block numbers.                                                          *)

\* Mutant of NextBlock: the block number is wider than the field of a packet.
UnreducedBlock(b) == b + 1

\* ++data_packet.block on a block_t.
NextBlock(b) == (b + 1) % BlockModulus

\* Mutant of IsAwaitedAck: the block number is not compared.
AnyAck(op, block, awaited) == op = "ack"

\* The acknowledgement a sender waits for.
IsAwaitedAck(op, block, awaited) == op = "ack" /\ block = awaited

\* Mutant of IsNextData: the block number is not compared.
AnyData(op, block, current) == op = "data"

\* The receivers compare with current_block + 1 after the promotion to int:
\* the sum is not reduced modulo BlockModulus.
IsNextData(op, block, current) == op = "data" /\ block = current + 1

-----------------------------------------------------------------------------
(* send_loop: a sender.                                                    *)

SenderPcs == {"idle", "waiting", "sending", "ok", "failed", "refused",
              "stopped"}

Senders == [pc : SenderPcs, block : BlockNumbers, chunk : Nat \ {0},
            size : Sizes, last : Sizes, stream : Streams, expired : BOOLEAN]

\* A sender that has not opened its file yet.
IdleSender == [pc |-> "idle", block |-> 1, chunk |-> 1, size |-> 0,
               last |-> 0, stream |-> "good", expired |-> FALSE]

\* What file_reader returns when the stream is at chunk i: the number of
\* bytes and the state of the stream after the call.
FileReads(i, stream) ==
    IF stream # "good" THEN {[size |-> 0, stream |-> stream]}
    ELSE {[size |-> ChunkLen(i),
           stream |-> IF i <= FullChunks THEN "good" ELSE "eof"]}
         \cup (IF "read" \in Faults THEN {[size |-> 0, stream |-> "bad"]}
               ELSE {})

\* Mutant of MoreToSend: no empty block after a last chunk that is full.
BytesToSend(size, last) == size > 0

\* The condition of the loop.
MoreToSend(size, last) == size > 0 \/ last = ChunkSize

\* Mutant of SenderResult: the stream is not asked for eof.
AlwaysOk(stream) == "ok"

\* The code after the loop: a file that was not read to its end is a fault.
SenderResult(stream) == IF stream = "eof" THEN "ok" ELSE "failed"

\* Mutant of SenderTop: the watchdog is not asked.
SenderTopUnwatched(s) ==
    IF ~MoreToSend(s.size, s.last)
    THEN {[s EXCEPT !.pc = SenderResult(s.stream)]}
    ELSE {[s EXCEPT !.pc = "sending"]}

\* From the top of the loop to the next wait for an acknowledgement.  The
\* data packet has been sent when the result is "sending".
SenderTop(s) ==
    IF ~MoreToSend(s.size, s.last)
    THEN {[s EXCEPT !.pc = SenderResult(s.stream)]}
    ELSE IF s.expired
    THEN {[s EXCEPT !.pc = "failed"]}
    ELSE {[s EXCEPT !.pc = "sending"]}
         \cup (IF "send" \in Faults THEN {[s EXCEPT !.pc = "failed"]} ELSE {})

\* The senders that the declarations before the loop lead to, when the file
\* was opened with the given stream state.
NewSenders(stream) ==
    {[IdleSender EXCEPT !.size = r.size, !.stream = r.stream] :
        r \in FileReads(1, stream)}

\* The awaited acknowledgement arrived: the next chunk is read.
AdvancedSenders(s) ==
    {[s EXCEPT !.last = s.size, !.size = r.size, !.stream = r.stream,
               !.chunk = s.chunk + 1, !.block = NextBlock(s.block)] :
        r \in FileReads(s.chunk + 1, s.stream)}

SenderStart(stream) == UNION {SenderTop(s) : s \in NewSenders(stream)}
SenderAfterAck(s) == UNION {SenderTop(t) : t \in AdvancedSenders(s)}

\* Invariant of send_loop: where a sender that has opened its file is in it.
StreamOf(s) ==
    /\ s.stream = "good" => s.chunk <= FullChunks /\ s.size = ChunkSize
    /\ s.stream = "eof" =>
        \/ /\ s.chunk = NumBlocks /\ s.size = TailSize
           /\ s.chunk > 1 => s.last = ChunkSize
        \/ s.chunk = NumBlocks + 1 /\ s.pc = "ok"
    /\ s.stream = "bad" =>
        s.size = 0 /\ (s.pc = "sending" => s.chunk <= NumBlocks)
    /\ s.pc = "ok" =>
        /\ s.stream = "eof"
        /\ s.chunk = NumBlocks => s.size = 0 /\ s.last # ChunkSize

\* What the side that has the file says of the transfer, see FileTransfer.
ReportOfSender(s) ==
    CASE s.pc = "ok" -> "done"
      [] s.pc # "ok" /\ s.stream = "bad" -> "cut"
      [] s.pc \in {"failed", "refused", "stopped"} /\ s.stream # "bad" -> "failed"
      [] OTHER -> "open"

-----------------------------------------------------------------------------
(* receive_loop: the part of it that does not depend on the state that the *)
(* client and the server keep in different forms.                          *)

\* From the top of the loop to the next wait for data, with a good stream.
\* The acknowledgement has been sent when the result is "receiving".
ReceiverTop(r) ==
    IF r.expired
    THEN {[r EXCEPT !.pc = "failed"]}
    ELSE {[r EXCEPT !.pc = "receiving"]}
         \cup (IF "send" \in Faults THEN {[r EXCEPT !.pc = "failed"]} ELSE {})

\* The loop condition after a write: a stream that went bad ends the loop.
ReceiverAfterWrite(r) ==
    ReceiverTop(r)
    \cup (IF "write" \in Faults THEN {[r EXCEPT !.pc = "failed"]} ELSE {})

\* The bytes of the first n chunks of the file, in order.
FirstChunks(n) == [i \in 1 .. n |-> [chunk |-> i, size |-> ChunkLen(i)]]
=============================================================================
