------------------------------- MODULE TftpRead -------------------------------
(***************************************************************************)
(* A read request (RRQ): read_client of the TFTP client, the listener and  *)
(* read_connection of the TFTP server, and the UDP network between them.   *)
(*                                                                         *)
(* One client asks for one file.  Every copy of its request that reaches   *)
(* the listener starts a connection of its own, on a port of its own: a    *)
(* duplicated request makes several connections send to the same client.   *)
(* A step is what a coroutine does from one wait to the next.              *)
(***************************************************************************)
EXTENDS TftpCommon

CONSTANTS
    Ports,      \* the ports of the connections; bounds their number
    NoPort      \* the client has not locked a port yet

ASSUME PortsAssumption == NoPort \notin Ports

VARIABLES
    net,        \* the packets under way
    client,     \* the state of read_client and its receive_loop
    target,     \* what the client has written to the target file
    conn,       \* conn[p]: the state of the connection on port p
    disk,       \* the requested file, as read_connection finds it
    listening   \* the server runs

vars == <<net, client, target, conn, disk, listening>>

-----------------------------------------------------------------------------
(* Packets.                                                                *)

Request == [op |-> "rrq"]
Data(p, s) == [op |-> "data", port |-> p, block |-> s.block,
               chunk |-> s.chunk, size |-> s.size]
Ack(p, b) == [op |-> "ack", port |-> p, block |-> b]
Refusal(p) == [op |-> "refusal", port |-> p]      \* ERROR 1, to the client
UnknownId(p) == [op |-> "error", port |-> p]      \* ERROR 5, to port p

Packets ==
    [op : {"rrq"}]
    \cup [op : {"data"}, port : Ports, block : BlockNumbers,
          chunk : Nat \ {0}, size : Sizes]
    \cup [op : {"ack"}, port : Ports, block : BlockNumbers]
    \cup [op : {"refusal", "error"}, port : Ports]

ToClient == {m \in net : m.op \in {"data", "refusal"}}
ToConn(p) == {m \in net : m.op \in {"ack", "error"} /\ m.port = p}

\* What is left of the network when m is received.
After(m) == {net \ {m}} \cup (IF "dup" \in Faults THEN {net} ELSE {})

\* What a send whose result is not looked at adds to the network.
Attempt(m) == {{m}} \cup (IF "send" \in Faults THEN {{}} ELSE {})

-----------------------------------------------------------------------------
(* The client.                                                             *)

ClientPcs == {"start", "response", "receiving", "ok", "failed", "threw",
              "interrupted"}

Clients == [pc : ClientPcs, cur : BlockNumbers, server : Ports \cup {NoPort},
            last : Sizes, expired : BOOLEAN]

NewClient == [pc |-> "start", cur |-> 0, server |-> NoPort, last |-> 0,
              expired |-> FALSE]

\* read_client removes the file when receive_loop returns an error, and with it
\* the part of a block that a failed write may have stored.
TargetOf(c, written) == IF c.pc = "failed" THEN <<>> ELSE written

\* The loop goes on from one of the given states, with the given network and
\* file; a client that receives has just sent its acknowledgement.
ClientContinues(states, rest, written) ==
    \E c \in states :
        /\ client' = c
        /\ target' = TargetOf(c, written)
        /\ net' = rest \cup
                  (IF c.pc = "receiving" THEN {Ack(c.server, c.cur)} ELSE {})

ServerSame == UNCHANGED <<conn, disk, listening>>

SendRequest ==
    /\ client.pc = "start"
    /\ \/ client' = [client EXCEPT !.pc = "response"] /\ net' = net \cup {Request}
       \/ /\ "send" \in Faults
          /\ client' = [client EXCEPT !.pc = "failed"]
          /\ UNCHANGED net
    /\ UNCHANGED target
    /\ ServerSame

\* handle_server_response waits once: the request is not repeated.
ResponseTimeout ==
    /\ client.pc = "response"
    /\ client' = [client EXCEPT !.pc = "failed"]
    /\ UNCHANGED <<net, target>>
    /\ ServerSame

\* What the client takes for the beginning of the transfer.
IsFirstData(m) == m.op = "data" /\ m.block = 1

\* An error packet or anything else that is not the first block.
ResponseUnusable ==
    /\ client.pc = "response"
    /\ \/ "stray" \in Faults /\ UNCHANGED net
       \/ \E m \in ToClient : ~IsFirstData(m) /\ net' \in After(m)
    /\ client' = [client EXCEPT !.pc = "failed"]
    /\ UNCHANGED target
    /\ ServerSame

\* Mutant of LockedOn: the size of the first block is not kept.
LockedOnUnsized(m) == [client EXCEPT !.cur = 1, !.server = m.port]

\* The state in which receive_loop has written the data of the response.
LockedOn(m) == [client EXCEPT !.cur = 1, !.server = m.port, !.last = m.size]

\* The sender of the first block becomes the server.  The target file is
\* opened; permissions() throws when that failed.
ResponseData ==
    /\ client.pc = "response"
    /\ \E m \in ToClient : \E rest \in After(m) :
        /\ IsFirstData(m)
        /\ \/ ClientContinues(ReceiverAfterWrite(LockedOn(m)), rest,
                              <<[chunk |-> m.chunk, size |-> m.size]>>)
           \/ /\ "write" \in Faults
              /\ client' = [client EXCEPT !.pc = "threw"]
              /\ net' = rest
              /\ UNCHANGED target
    /\ ServerSame

\* Two seconds without a packet: the last block ends the transfer, any other
\* one is acknowledged again.
ClientTimeout ==
    /\ client.pc = "receiving" /\ client.last = ChunkSize
    /\ ClientContinues(ReceiverTop(client), net, target)
    /\ ServerSame

ClientFinish ==
    /\ client.pc = "receiving" /\ client.last < ChunkSize
    /\ client' = [client EXCEPT !.pc = "ok"]
    /\ UNCHANGED <<net, target>>
    /\ ServerSame

\* A packet of another endpoint is answered with an error packet; the loop
\* goes on from its top, with a new acknowledgement to the server.
ClientRejects ==
    /\ client.pc = "receiving"
    /\ \/ /\ "stray" \in Faults
          /\ ClientContinues(ReceiverTop(client), net, target)
       \/ \E m \in ToClient : \E rest \in After(m),
                              sent \in Attempt(UnknownId(m.port)) :
            /\ m.port # client.server
            /\ ClientContinues(ReceiverTop(client), rest \cup sent, target)
    /\ ServerSame

\* A block that is not the next one is acknowledged with the current number.
ClientIgnores ==
    /\ client.pc = "receiving"
    /\ \E m \in ToClient : \E rest \in After(m) :
        /\ m.port = client.server
        /\ ~IsNextData(m.op, m.block, client.cur)
        /\ ClientContinues(ReceiverTop(client), rest, target)
    /\ ServerSame

\* Mutant of AcceptedBy: the size of the block is not kept.
AcceptedUnsized(m) == [client EXCEPT !.cur = NextBlock(client.cur)]

\* The state in which receive_loop has written the data of m.  The reset of
\* the watchdog does not clear has_expired_.
AcceptedBy(m) == [client EXCEPT !.cur = NextBlock(client.cur), !.last = m.size]

ClientAccepts ==
    /\ client.pc = "receiving"
    /\ \E m \in ToClient : \E rest \in After(m) :
        /\ m.port = client.server
        /\ IsNextData(m.op, m.block, client.cur)
        /\ ClientContinues(ReceiverAfterWrite(AcceptedBy(m)), rest,
                           Append(target, [chunk |-> m.chunk, size |-> m.size]))
    /\ ServerSame

ClientWatchdog ==
    /\ client.pc = "receiving" /\ ~client.expired /\ "slow" \in Faults
    /\ client' = [client EXCEPT !.expired = TRUE]
    /\ UNCHANGED <<net, target>>
    /\ ServerSame

\* SIGINT, SIGHUP or SIGTERM: the coroutine never runs again.
ClientInterrupted ==
    /\ client.pc \in {"start", "response", "receiving"} /\ "stop" \in Faults
    /\ client' = [client EXCEPT !.pc = "interrupted"]
    /\ UNCHANGED <<net, target>>
    /\ ServerSame

\* What ends a wait of the receive loop.
ClientLoop == ClientTimeout \/ ClientFinish \/ ClientRejects
              \/ ClientIgnores \/ ClientAccepts

ClientNext == SendRequest \/ ResponseTimeout \/ ResponseUnusable
              \/ ResponseData \/ ClientLoop \/ ClientWatchdog
              \/ ClientInterrupted

-----------------------------------------------------------------------------
(* The server.                                                             *)

ClientSame == UNCHANGED <<client, target, disk, listening>>

ConnContinues(p, states, rest) ==
    \E s \in states :
        /\ conn' = [conn EXCEPT ![p] = s]
        /\ net' = rest \cup (IF s.pc = "sending" THEN {Data(p, s)} ELSE {})

\* The listener hands a request to a new connection, which looks the file up
\* and opens it before it first waits.
Accept(p) ==
    /\ listening /\ conn[p].pc = "idle" /\ Request \in net
    /\ \E rest \in After(Request) :
        \/ /\ disk = "missing"
           /\ conn' = [conn EXCEPT ![p].pc = "refused"]
           /\ \E sent \in Attempt(Refusal(p)) : net' = rest \cup sent
        \/ /\ disk # "missing"
           /\ LET stream == IF disk = "readable" THEN "good" ELSE "bad"
              IN ConnContinues(p, SenderStart(stream), rest)
    /\ ClientSame

\* No acknowledgement for two seconds, or a packet of another endpoint, which
\* is answered with an error packet: the data are sent again.
ConnTimeout(p) ==
    /\ conn[p].pc = "sending"
    /\ ConnContinues(p, SenderTop(conn[p]), net)
    /\ ClientSame

\* Any other packet of the client: the data are sent again.
ConnIgnores(p) ==
    /\ conn[p].pc = "sending"
    /\ \E m \in ToConn(p) : \E rest \in After(m) :
        /\ ~IsAwaitedAck(m.op, m.block, conn[p].block)
        /\ ConnContinues(p, SenderTop(conn[p]), rest)
    /\ ClientSame

ConnAdvances(p) ==
    /\ conn[p].pc = "sending"
    /\ \E m \in ToConn(p) : \E rest \in After(m) :
        /\ IsAwaitedAck(m.op, m.block, conn[p].block)
        /\ ConnContinues(p, SenderAfterAck(conn[p]), rest)
    /\ ClientSame

ConnWatchdog(p) ==
    /\ conn[p].pc = "sending" /\ ~conn[p].expired /\ "slow" \in Faults
    /\ conn' = [conn EXCEPT ![p].expired = TRUE]
    /\ UNCHANGED net
    /\ ClientSame

\* A signal or an error of the listening socket stops the io_context.
ServerStops ==
    /\ listening /\ "stop" \in Faults
    /\ listening' = FALSE
    /\ conn' = [p \in Ports |-> IF conn[p].pc = "sending"
                                THEN [conn[p] EXCEPT !.pc = "stopped"]
                                ELSE conn[p]]
    /\ UNCHANGED <<net, client, target, disk>>

ConnLoop(p) == ConnTimeout(p) \/ ConnIgnores(p) \/ ConnAdvances(p)

ServerNext == ServerStops
              \/ \E p \in Ports : Accept(p) \/ ConnLoop(p) \/ ConnWatchdog(p)

-----------------------------------------------------------------------------
Lose ==
    /\ "loss" \in Faults
    /\ \E m \in net : net' = net \ {m}
    /\ UNCHANGED <<client, target, conn, disk, listening>>

Init ==
    /\ net = {}
    /\ client = NewClient
    /\ target = <<>>
    /\ conn = [p \in Ports |-> IdleSender]
    /\ disk \in {"readable", "missing", "unreadable"}
    /\ listening = TRUE

Next == ClientNext \/ ServerNext \/ Lose

Spec == Init /\ [][Next]_vars

\* Each wait ends: with a packet or after two seconds.
ClientFairness ==
    /\ WF_vars(SendRequest)
    /\ WF_vars(ResponseTimeout \/ ResponseUnusable \/ ResponseData)
    /\ WF_vars(ClientLoop)

FairSpec == Spec /\ ClientFairness /\ \A p \in Ports : WF_vars(ConnLoop(p))

\* The watchdogs fire, ten seconds after the last progress.
WatchdogsFire == WF_vars(ClientWatchdog) /\ \A p \in Ports : WF_vars(ConnWatchdog(p))

\* A network that neither loses nor overtakes every copy of a packet, and is
\* silent for two seconds at some time after the last block, while no
\* watchdog fires.
Delivery ==
    /\ SF_vars(ClientAccepts) /\ WF_vars(ClientFinish)
    /\ \A p \in Ports : SF_vars(ConnAdvances(p))
    /\ [](~client.expired /\ \A p \in Ports : ~conn[p].expired)

-----------------------------------------------------------------------------
(* Properties.                                                             *)

TypeOK ==
    /\ net \subseteq Packets
    /\ client \in Clients
    /\ target \in Seq([chunk : Nat \ {0}, size : Sizes])
    /\ conn \in [Ports -> Senders]
    /\ disk \in {"readable", "missing", "unreadable"}
    /\ listening \in BOOLEAN

\* The file was cut short by a read error of the connection on port p.
CutShort(p) == p \in Ports /\ conn[p].stream = "bad"

\* The target file holds the first chunks of the source in order, each once
\* and whole, whatever is lost, duplicated, reordered or sent by a second
\* connection.  Only after a read error at the server is the last one empty.
TargetIsPrefix ==
    \A i \in DOMAIN target :
        /\ target[i].chunk = i
        /\ \/ target[i].size = ChunkLen(i)
           \/ /\ i = Len(target) /\ target[i].size = 0
              /\ CutShort(client.server)

\* When read_client reports success the target is the source file, unless
\* the server met a read error.
ClientSuccess ==
    client.pc = "ok" =>
        \/ target = FirstChunks(NumBlocks)
        \/ CutShort(client.server)

\* A client that reports success has received the last data packet of the
\* file, as the comment at the end of its receive_loop says.
LastDataReceived ==
    client.pc = "ok" => target # <<>> /\ target[Len(target)] =
                            [chunk |-> NumBlocks, size |-> TailSize]

\* A connection that reports success was the one the client had locked on to
\* and every chunk was written; only a failure of the client, which removes
\* the file, can have undone it since.
ServerSuccess ==
    \A p \in Ports : conn[p].pc = "ok" =>
        /\ client.server = p
        /\ client.pc = "failed" \/ target = FirstChunks(NumBlocks)

\* The connection the client is locked on to is never more than one block
\* ahead of the file or behind it; any other one stays at its first block
\* and cannot end with success.
LockStep ==
    \A p \in Ports : conn[p].pc # "idle" =>
        IF p = client.server
        THEN conn[p].chunk \in {client.cur, client.cur + 1}
        ELSE conn[p].chunk = 1 /\ conn[p].pc # "ok"

\* The client and every connection end, whatever the network does: timeouts
\* and watchdogs leave no coroutine waiting for ever.
Termination ==
    WatchdogsFire => <>[](
         /\ client.pc \in {"ok", "failed", "threw", "interrupted"}
         /\ \A p \in Ports : conn[p].pc # "sending")

\* A transfer that began is completed under loss, duplication and reordering,
\* if packets arrive in the end before a watchdog fires.
Completion == Delivery => (client.pc = "receiving" ~> client.pc = "ok")

-----------------------------------------------------------------------------
(* The inductive invariant.  The client's numbers count the chunks it has   *)
(* written; acknowledgements are for those; so the connection it is locked  *)
(* on to is at most one chunk ahead, and of the chunks 1 .. BlockModulus    *)
(* that it can reach no two have the same block number.                     *)

BlockOf(i) == IF i = BlockModulus THEN 0 ELSE i

\* The number of blocks the client has acknowledged to port p.
Acked(p) == IF client.server = p THEN client.cur ELSE 0

Blocks(p) == {m \in net : m.op = "data" /\ m.port = p}

\* What the client has written, and what it remembers of it.
ClientInv ==
    /\ client.pc \in {"start", "response", "threw"} => client.server = NoPort
    /\ client.pc \in {"receiving", "ok"} => client.server # NoPort
    /\ client.server = NoPort <=> client.cur = 0
    /\ client.pc = "ok" => client.last < ChunkSize
    /\ client.cur <= NumBlocks
    /\ client.pc # "failed" =>
        /\ Len(target) = client.cur
        /\ client.cur # 0 => client.last = target[client.cur].size

\* Only the locked port is sent acknowledgements, for blocks written.
AckInv ==
    \A m \in net : m.op = "ack" =>
        m.port = client.server /\ m.block \in 1 .. client.cur

\* Where the connections are, relative to the client.
ConnInv ==
    \A p \in Ports :
        /\ conn[p].pc = "idle" => conn[p] = IdleSender /\ Blocks(p) = {}
        /\ conn[p].pc = "refused" => conn[p].chunk = 1 /\ Blocks(p) = {}
        /\ conn[p].chunk \in {Acked(p), Acked(p) + 1}
        /\ conn[p].block = BlockOf(conn[p].chunk)

\* Every connection that opened a file is somewhere in it.
StreamInv ==
    \A p \in Ports : conn[p].pc \notin {"idle", "refused"} => StreamOf(conn[p])

\* No block after number i is under way or can be sent from port p, because
\* of a read error.
NothingAfter(i, p) ==
    /\ conn[p].stream = "bad"
    /\ conn[p].pc = "sending" => conn[p].chunk <= i
    /\ \A m \in Blocks(p) : m.chunk <= i

\* A block is a chunk of the file under its number, or the empty one that
\* a read error leads to.
BlockInv ==
    \A m \in net : m.op = "data" =>
        /\ m.chunk <= conn[m.port].chunk /\ m.chunk <= NumBlocks
        /\ m.block = BlockOf(m.chunk)
        /\ \/ m.size = ChunkLen(m.chunk)
           \/ m.size = 0 /\ NothingAfter(m.chunk, m.port)

\* What was written is a prefix of the file, or ends where it was cut.
TargetInv ==
    \A i \in DOMAIN target :
        /\ target[i].chunk = i
        /\ \/ target[i].size = ChunkLen(i)
           \/ /\ i = Len(target) /\ target[i].size = 0
              /\ client.server \in Ports /\ NothingAfter(i, client.server)

\* The inductive invariant: together, the parts are kept by every step.
IInv == /\ TypeOK /\ ClientInv /\ AckInv /\ ConnInv /\ StreamInv
        /\ BlockInv /\ TargetInv

-----------------------------------------------------------------------------
(* The transfer as FileTransfer sees it: the sender is the connection the   *)
(* client is locked on to, if any.                                         *)

\* The report of the connection: open until there is one.
SenderReport ==
    IF client.server = NoPort THEN "open"
    ELSE ReportOfSender(conn[client.server])

ReceiverReport ==
    CASE client.pc = "ok" -> "done"
      [] client.pc \in {"failed", "threw", "interrupted"} -> "failed"
      [] OTHER -> "open"

Transfer == INSTANCE FileTransfer WITH
    delivered <- client.cur, sender <- SenderReport, receiver <- ReceiverReport

\* The read protocol implements the abstract transfer.
ImplementsTransfer == Transfer!Spec
=============================================================================
