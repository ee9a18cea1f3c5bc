------------------------------ MODULE TftpWrite ------------------------------
(***************************************************************************)
(* Write requests (WRQ): write_client of the TFTP client, the listener and *)
(* write_connection of the TFTP server, and the UDP network between them.  *)
(*                                                                         *)
(* Several clients, each with a file of its own, upload to the same name.  *)
(* Every copy of a request that reaches the listener starts a connection,  *)
(* on a port of its own, that serves the client the request came from.     *)
(* A step is what a coroutine does from one wait to the next.              *)
(***************************************************************************)
EXTENDS TftpCommon

CONSTANTS
    Clients,    \* the clients that upload
    Ports,      \* the ports of the connections; bounds their number
    NoClient, NoPort

ASSUME NamesAssumption == NoClient \notin Clients /\ NoPort \notin Ports

VARIABLES
    net,        \* the packets under way
    client,     \* client[c]: write_client and its send_loop, as a sender
    server,     \* server[c]: the port client c has locked on to
    source,     \* source[c]: what opening the file to upload gives
    conn,       \* conn[p]: the connection on port p
    present,    \* the name exists in the server's directory
    stored,     \* what was written to it by the server
    listening   \* the server runs

vars == <<net, client, server, source, conn, present, stored, listening>>

-----------------------------------------------------------------------------
(* Packets.  What leaves port p goes to the client of that connection.     *)

Request(c) == [op |-> "wrq", from |-> c]
Data(c, p, s) == [op |-> "data", port |-> p, from |-> c, block |-> s.block,
                  chunk |-> s.chunk, size |-> s.size]
UnknownId(p) == [op |-> "error", port |-> p]      \* ERROR 5, to port p
Ack(p, b) == [op |-> "ack", port |-> p, block |-> b]
Refusal(p) == [op |-> "refusal", port |-> p]      \* ERROR 6, to the client

Packets ==
    [op : {"wrq"}, from : Clients]
    \cup [op : {"data"}, port : Ports, from : Clients, block : BlockNumbers,
          chunk : Nat \ {0}, size : Sizes]
    \cup [op : {"ack"}, port : Ports, block : BlockNumbers]
    \cup [op : {"refusal", "error"}, port : Ports]

ToClient(c) ==
    {m \in net : m.op \in {"ack", "refusal"} /\ conn[m.port].peer = c}
ToConn(p) == {m \in net : m.op \in {"data", "error"} /\ m.port = p}

\* What is left of the network when m is received.
After(m) == {net \ {m}} \cup (IF "dup" \in Faults THEN {net} ELSE {})

\* What a send whose result is not looked at adds to the network.
Attempt(m) == {{m}} \cup (IF "send" \in Faults THEN {{}} ELSE {})

-----------------------------------------------------------------------------
(* The clients.                                                            *)

ServerSame == UNCHANGED <<source, conn, present, stored, listening>>

\* Client c goes on from one of the given states and sends to port p; one
\* that is "sending" has just sent its data.
ClientContinues(c, p, states, rest) ==
    \E s \in states :
        /\ client' = [client EXCEPT ![c] = s]
        /\ net' = rest \cup (IF s.pc = "sending" THEN {Data(c, p, s)} ELSE {})

SendRequest(c) ==
    /\ client[c].pc = "idle"
    /\ \/ /\ client' = [client EXCEPT ![c].pc = "waiting"]
          /\ net' = net \cup {Request(c)}
       \/ /\ "send" \in Faults
          /\ client' = [client EXCEPT ![c].pc = "failed"]
          /\ UNCHANGED net
    /\ UNCHANGED server
    /\ ServerSame

\* handle_server_response waits once: the request is not repeated.
ResponseTimeout(c) ==
    /\ client[c].pc = "waiting"
    /\ client' = [client EXCEPT ![c].pc = "failed"]
    /\ UNCHANGED <<net, server>>
    /\ ServerSame

\* What the client takes for the acceptance of its request.
IsGoAhead(m) == m.op = "ack" /\ m.block = 0

\* The first datagram decides, whatever connection it is from.
ResponseUnusable(c) ==
    /\ client[c].pc = "waiting"
    /\ \/ "stray" \in Faults /\ UNCHANGED net
       \/ \E m \in ToClient(c) : ~IsGoAhead(m) /\ net' \in After(m)
    /\ client' = [client EXCEPT ![c].pc = "refused"]
    /\ UNCHANGED server
    /\ ServerSame

ResponseAck(c) ==
    /\ client[c].pc = "waiting"
    /\ \E m \in ToClient(c) : \E rest \in After(m) :
        /\ IsGoAhead(m)
        /\ server' = [server EXCEPT ![c] = m.port]
        /\ ClientContinues(c, m.port, SenderStart(source[c]), rest)
    /\ ServerSame

\* No acknowledgement for two seconds, or a datagram of an endpoint that is
\* in no transfer: the data are sent again.
ClientTimeout(c) ==
    /\ client[c].pc = "sending"
    /\ ClientContinues(c, server[c], SenderTop(client[c]), net)
    /\ UNCHANGED server
    /\ ServerSame

\* Another connection answers a duplicate of the request: it is sent an
\* error packet, and the data are sent again.
ClientRejects(c) ==
    /\ client[c].pc = "sending"
    /\ \E m \in ToClient(c) : \E rest \in After(m),
                                 sent \in Attempt(UnknownId(m.port)) :
        /\ m.port # server[c]
        /\ ClientContinues(c, server[c], SenderTop(client[c]), rest \cup sent)
    /\ UNCHANGED server
    /\ ServerSame

ClientIgnores(c) ==
    /\ client[c].pc = "sending"
    /\ \E m \in ToClient(c) : \E rest \in After(m) :
        /\ m.port = server[c] /\ ~IsAwaitedAck(m.op, m.block, client[c].block)
        /\ ClientContinues(c, server[c], SenderTop(client[c]), rest)
    /\ UNCHANGED server
    /\ ServerSame

ClientAdvances(c) ==
    /\ client[c].pc = "sending"
    /\ \E m \in ToClient(c) : \E rest \in After(m) :
        /\ m.port = server[c] /\ IsAwaitedAck(m.op, m.block, client[c].block)
        /\ ClientContinues(c, server[c], SenderAfterAck(client[c]), rest)
    /\ UNCHANGED server
    /\ ServerSame

ClientWatchdog(c) ==
    /\ client[c].pc = "sending" /\ ~client[c].expired /\ "slow" \in Faults
    /\ client' = [client EXCEPT ![c].expired = TRUE]
    /\ UNCHANGED <<net, server>>
    /\ ServerSame

ClientInterrupted(c) ==
    /\ client[c].pc \in {"idle", "waiting", "sending"} /\ "stop" \in Faults
    /\ client' = [client EXCEPT ![c].pc = "stopped"]
    /\ UNCHANGED <<net, server>>
    /\ ServerSame

ClientLoop(c) == ClientTimeout(c) \/ ClientRejects(c)
                 \/ ClientIgnores(c) \/ ClientAdvances(c)

ClientNext(c) == SendRequest(c) \/ ResponseTimeout(c) \/ ResponseUnusable(c)
                 \/ ResponseAck(c) \/ ClientLoop(c) \/ ClientWatchdog(c)
                 \/ ClientInterrupted(c)

-----------------------------------------------------------------------------
(* The server.                                                             *)

ConnPcs == {"idle", "receiving", "ok", "failed", "refused", "unopened",
            "stopped"}

Conns == [pc : ConnPcs, peer : Clients \cup {NoClient}, cur : BlockNumbers,
          lastSeen : BOOLEAN, expired : BOOLEAN]

\* A port that is not in use; otherwise the state before receive_loop's loop.
IdleConn == [pc |-> "idle", peer |-> NoClient, cur |-> 0, lastSeen |-> FALSE,
             expired |-> FALSE]

ClientSame == UNCHANGED <<client, server, source, listening>>

\* A connection that receives has just sent its acknowledgement.
ConnContinues(p, states, rest) ==
    \E s \in states :
        /\ conn' = [conn EXCEPT ![p] = s]
        /\ net' = rest \cup
                  (IF s.pc = "receiving" THEN {Ack(p, s.cur)} ELSE {})

\* The test for the file and its creation are one step: write_connection
\* does not wait between them.
AcceptNew(p, c, rest) ==
    /\ ~present
    /\ \/ /\ ConnContinues(p, ReceiverTop([IdleConn EXCEPT !.peer = c]), rest)
          /\ present' = TRUE
       \/ /\ "write" \in Faults
          /\ conn' = [conn EXCEPT ![p] = [IdleConn EXCEPT !.peer = c,
                                                          !.pc = "unopened"]]
          /\ net' = rest
          /\ UNCHANGED present

\* Mutant of AcceptExisting: an existing file is written to.
AcceptAnyway(p, c, rest) ==
    /\ present
    /\ ConnContinues(p, ReceiverTop([IdleConn EXCEPT !.peer = c]), rest)
    /\ UNCHANGED present

AcceptExisting(p, c, rest) ==
    /\ present
    /\ conn' = [conn EXCEPT ![p] = [IdleConn EXCEPT !.peer = c,
                                                    !.pc = "refused"]]
    /\ \E sent \in Attempt(Refusal(p)) : net' = rest \cup sent
    /\ UNCHANGED present

Accept(p) ==
    /\ listening /\ conn[p].pc = "idle"
    /\ \E c \in Clients : /\ Request(c) \in net
                          /\ \E rest \in After(Request(c)) :
                              AcceptNew(p, c, rest) \/ AcceptExisting(p, c, rest)
    /\ UNCHANGED stored
    /\ ClientSame

\* Two seconds without data after the last block end the transfer ...
ConnFinish(p) ==
    /\ conn[p].pc = "receiving" /\ conn[p].lastSeen
    /\ conn' = [conn EXCEPT ![p].pc = "ok"]
    /\ UNCHANGED <<net, present, stored>>
    /\ ClientSame

\* ... and before it repeat the acknowledgement.  So does, at any time, a
\* datagram of another endpoint, which is answered with an error packet.
ConnRepeats(p) ==
    /\ conn[p].pc = "receiving" /\ (~conn[p].lastSeen \/ "stray" \in Faults)
    /\ ConnContinues(p, ReceiverTop(conn[p]), net)
    /\ UNCHANGED <<present, stored>>
    /\ ClientSame

ConnIgnores(p) ==
    /\ conn[p].pc = "receiving"
    /\ \E m \in ToConn(p) : \E rest \in After(m) :
        /\ ~IsNextData(m.op, m.block, conn[p].cur)
        /\ ConnContinues(p, ReceiverTop(conn[p]), rest)
    /\ UNCHANGED <<present, stored>>
    /\ ClientSame

\* Mutant of AcceptedBy: a full chunk counts as the last one.
AcceptedAsLast(p, m) == [conn[p] EXCEPT !.cur = NextBlock(conn[p].cur),
                                        !.lastSeen = @ \/ m.size <= ChunkSize]

\* The connection after the data of m were written.
AcceptedBy(p, m) == [conn[p] EXCEPT !.cur = NextBlock(conn[p].cur),
                                    !.lastSeen = @ \/ m.size < ChunkSize]

\* The first `size' bytes of the data of m.
Written(m, size) == [from |-> m.from, chunk |-> m.chunk, size |-> size]

\* A write that fails may have stored a part of the data.
ConnAccepts(p) ==
    /\ conn[p].pc = "receiving"
    /\ \E m \in ToConn(p) : \E rest \in After(m) :
        /\ IsNextData(m.op, m.block, conn[p].cur)
        /\ \/ /\ stored' = Append(stored, Written(m, m.size))
              /\ ConnContinues(p, ReceiverTop(AcceptedBy(p, m)), rest)
           \/ /\ "write" \in Faults
              /\ \E size \in 0 .. m.size :
                    stored' = Append(stored, Written(m, size))
              /\ conn' = [conn EXCEPT ![p] = [AcceptedBy(p, m) EXCEPT !.pc = "failed"]]
              /\ net' = rest
    /\ UNCHANGED present
    /\ ClientSame

ConnWatchdog(p) ==
    /\ conn[p].pc = "receiving" /\ ~conn[p].expired /\ "slow" \in Faults
    /\ conn' = [conn EXCEPT ![p].expired = TRUE]
    /\ UNCHANGED <<net, present, stored>>
    /\ ClientSame

\* A signal or an error of the listening socket stops the io_context.
ServerStops ==
    /\ listening /\ "stop" \in Faults
    /\ listening' = FALSE
    /\ conn' = [p \in Ports |-> IF conn[p].pc = "receiving"
                                THEN [conn[p] EXCEPT !.pc = "stopped"]
                                ELSE conn[p]]
    /\ UNCHANGED <<net, client, server, source, present, stored>>

ConnLoop(p) == ConnFinish(p) \/ ConnRepeats(p) \/ ConnIgnores(p)
               \/ ConnAccepts(p)

ConnNext(p) == Accept(p) \/ ConnLoop(p) \/ ConnWatchdog(p)

-----------------------------------------------------------------------------
Lose ==
    /\ "loss" \in Faults
    /\ \E m \in net : net' = net \ {m}
    /\ UNCHANGED <<client, server, source, conn, present, stored, listening>>

Init ==
    /\ net = {}
    /\ client = [c \in Clients |-> IdleSender]
    /\ server = [c \in Clients |-> NoPort]
    /\ source \in [Clients -> {"good", "bad"}]
    /\ conn = [p \in Ports |-> IdleConn]
    /\ present \in BOOLEAN
    /\ stored = <<>>
    /\ listening = TRUE

Next == \/ \E c \in Clients : ClientNext(c)
        \/ \E p \in Ports : ConnNext(p)
        \/ ServerStops
        \/ Lose

Spec == Init /\ [][Next]_vars

\* Each wait ends: with a packet or after two seconds.
ClientFairness(c) ==
    /\ WF_vars(SendRequest(c))
    /\ WF_vars(ResponseTimeout(c) \/ ResponseUnusable(c) \/ ResponseAck(c))
    /\ WF_vars(ClientLoop(c))

FairSpec == /\ Spec
            /\ \A c \in Clients : ClientFairness(c)
            /\ \A p \in Ports : WF_vars(ConnLoop(p))

\* The watchdogs fire, ten seconds after the last progress.
WatchdogsFire == /\ \A c \in Clients : WF_vars(ClientWatchdog(c))
                 /\ \A p \in Ports : WF_vars(ConnWatchdog(p))

\* A network that neither loses nor overtakes every copy of a packet, while
\* no watchdog fires.
Delivery ==
    /\ \A c \in Clients : SF_vars(ClientAdvances(c)) /\ [](~client[c].expired)
    /\ \A p \in Ports : SF_vars(ConnAccepts(p)) /\ [](~conn[p].expired)

-----------------------------------------------------------------------------
(* Properties.                                                             *)

TypeOK ==
    /\ net \subseteq Packets
    /\ client \in [Clients -> Senders]
    /\ server \in [Clients -> Ports \cup {NoPort}]
    /\ source \in [Clients -> {"good", "bad"}]
    /\ conn \in [Ports -> Conns]
    /\ present \in BOOLEAN
    /\ stored \in Seq([from : Clients, chunk : Nat \ {0}, size : Sizes])
    /\ listening \in BOOLEAN

\* The upload of client c was cut short by an error in reading its file.
CutShort(c) == c \in Clients /\ client[c].stream = "bad"

\* The connection of client c failed, perhaps in the middle of a write.
WriteFailed(c) ==
    "write" \in Faults /\ \E p \in Ports : conn[p].pc = "failed" /\ conn[p].peer = c

FileOf(c) == [i \in 1 .. NumBlocks |->
                 [from |-> c, chunk |-> i, size |-> ChunkLen(i)]]

\* Whatever connections served the name, what is stored are the first chunks
\* of the file of one client, in order, each once and whole; only a read
\* error at that client can have made the last one empty, and only a write
\* that failed can have cut it.
StoredIsPrefix ==
    \A i \in DOMAIN stored :
        /\ stored[i].from = stored[1].from /\ stored[i].chunk = i
        /\ \/ stored[i].size = ChunkLen(i)
           \/ /\ i = Len(stored) /\ stored[i].size = 0
              /\ CutShort(stored[i].from)
           \/ /\ i = Len(stored) /\ stored[i].size < ChunkLen(i)
              /\ WriteFailed(stored[i].from)

\* A client that reports success has its file on the server, all of it, and
\* no later request of any client replaces it.
ClientSuccess ==
    \A c \in Clients : client[c].pc = "ok" => stored = FileOf(c)

\* A connection that reports success has stored the whole file of its client
\* unless that client met a read error.
ServerSuccess ==
    \A p \in Ports : conn[p].pc = "ok" =>
        stored = FileOf(conn[p].peer) \/ CutShort(conn[p].peer)

\* The client is never more than one block ahead of or behind the connection
\* it has locked on to, and that connection serves this client.
LockStep ==
    \A c \in Clients : server[c] # NoPort =>
        /\ conn[server[c]].peer = c
        /\ client[c].chunk \in {conn[server[c]].cur, conn[server[c]].cur + 1}

\* Every client and every connection ends, whatever the network does.
Termination ==
    WatchdogsFire => <>[](
         /\ \A c \in Clients : client[c].pc \notin {"idle", "waiting", "sending"}
         /\ \A p \in Ports : conn[p].pc # "receiving")

\* An upload that began is completed under loss, duplication and reordering,
\* if packets arrive in the end before a watchdog fires, unless a signal
\* stops one of the programs.
Completion ==
    Delivery => \A c \in Clients :
        client[c].pc = "sending" ~>
            stored = FileOf(c) \/ client[c].pc = "stopped" \/ ~listening

-----------------------------------------------------------------------------
(* The inductive invariant, for files with fewer blocks than there are      *)
(* block numbers.  Only one connection ever writes; only it acknowledges,   *)
(* and only for blocks it has written, so that only its own client finds    *)
(* it, and is at most one chunk ahead.                                     *)

\* The connections that have created the file: at most one, see ConnInv.
Writers == {p \in Ports : conn[p].pc \in {"receiving", "ok", "failed", "stopped"}}

\* The connections and the file.
ConnInv ==
    /\ \A p, q \in Writers : p = q
    /\ Writers # {} => present
    /\ Writers = {} => stored = <<>>
    /\ \A p \in Writers :
        /\ conn[p].peer \in Clients /\ conn[p].cur = Len(stored)
        /\ stored # <<>> => server[conn[p].peer] = p
        /\ conn[p].lastSeen =>
            Len(stored) = NumBlocks \/ CutShort(conn[p].peer)
        /\ conn[p].pc = "ok" => conn[p].lastSeen

\* A client before and after it has found the writer.
ClientAt(c) ==
    IF server[c] = NoPort
    THEN /\ client[c].chunk = 1 /\ client[c].stream = "good"
         /\ client[c].pc \notin {"sending", "ok"}
    ELSE /\ server[c] \in Writers /\ conn[server[c]].peer = c
         /\ client[c].chunk \in {Len(stored), Len(stored) + 1}
         /\ client[c].pc \notin {"idle", "waiting"}
         /\ client[c].pc = "sending" => client[c].block = client[c].chunk
         /\ StreamOf(client[c])

ClientInv == \A c \in Clients : ClientAt(c)

\* Acknowledgements are the writer's, for blocks it has written.
AckInv ==
    \A m \in net : m.op = "ack" => m.port \in Writers /\ m.block <= Len(stored)

\* Because of a read error no block of client c after number i is under way
\* or will be sent.
NothingAfter(i, c) ==
    /\ client[c].stream = "bad"
    /\ client[c].pc = "sending" => client[c].chunk <= i
    /\ \A m \in net : m.op = "data" /\ m.from = c => m.chunk <= i

\* Chunk i of the file of client c, or the empty one that an error leads to.
IsChunk(m, i) ==
    /\ m.chunk = i
    /\ \/ m.size = ChunkLen(i)
       \/ m.size = 0 /\ NothingAfter(i, m.from)

\* Data go to the writer, each chunk under its number.
BlockInv ==
    \A m \in net : m.op = "data" =>
        /\ m.port = server[m.from]
        /\ m.chunk <= client[m.from].chunk /\ m.chunk <= NumBlocks
        /\ m.block = m.chunk
        /\ IsChunk(m, m.chunk)

\* The writer failed at block i, the last one, and did not acknowledge it.
BrokeOff(i) ==
    /\ i = Len(stored) /\ "write" \in Faults
    /\ \A p \in Writers :
        conn[p].pc = "failed" /\ client[conn[p].peer].chunk <= i
    /\ \A a \in net : a.op = "ack" => a.block < i

\* The part of chunk i that a failed write has stored.
IsTorn(m, i) == m.chunk = i /\ m.size < ChunkLen(i) /\ BrokeOff(i)

\* What is stored is a prefix of the writer's file, or ends where it was cut.
StoredInv ==
    /\ Len(stored) <= NumBlocks
    /\ \A i \in DOMAIN stored :
        /\ \A p \in Writers : stored[i].from = conn[p].peer
        /\ IsChunk(stored[i], i) \/ IsTorn(stored[i], i)
        /\ stored[i].size # ChunkLen(i) => i = Len(stored)

\* The inductive invariant: together, the parts are kept by every step.
IInv == /\ TypeOK /\ ConnInv /\ ClientInv /\ AckInv /\ BlockInv /\ StoredInv

-----------------------------------------------------------------------------
(* The upload as FileTransfer sees it: between the connection that created  *)
(* the file, if any did, and its client.                                   *)

Writer == CHOOSE p \in Writers : TRUE

ReportOfReceiver(r) ==
    CASE r.pc = "ok" -> "done"
      [] r.pc \in {"failed", "stopped"} -> "failed"
      [] OTHER -> "open"

Delivered == IF Writers = {} THEN 0 ELSE conn[Writer].cur

SenderReport == IF Writers = {} THEN "open"
                ELSE ReportOfSender(client[conn[Writer].peer])

ReceiverReport == IF Writers = {} THEN "open" ELSE ReportOfReceiver(conn[Writer])

Transfer == INSTANCE FileTransfer WITH
    delivered <- Delivered, sender <- SenderReport, receiver <- ReceiverReport

\* The write protocol implements the abstract transfer.
ImplementsTransfer == Transfer!Spec
=============================================================================
