---------------------------- MODULE TftpWriteProofs ----------------------------
(***************************************************************************)
(* IInv is an invariant of TftpWrite, for every number of clients and of   *)
(* connections, every set of faults and every file that has fewer blocks   *)
(* than there are block numbers; the safety properties of TftpWrite follow *)
(* from it.                                                                *)
(*                                                                         *)
(* The actions fall into a few kinds, each with a lemma of its own: steps  *)
(* of a client that send no data, steps that do, steps of connections that *)
(* write nothing, the creation of the file, and a write.                   *)
(***************************************************************************)
EXTENDS TftpWrite, TftpCommonProofs

\* The elements of the stored file.
Stored == [from : Clients, chunk : Nat \ {0}, size : Sizes]

\* A stored chunk has the type of one.
LEMMA ElementOfStored ==
    ASSUME NEW S, NEW t \in Seq(S), NEW i \in DOMAIN t
    PROVE  t[i] \in S /\ i \in Nat \ {0} /\ i <= Len(t)
OBVIOUS

\* A port that is not in use has the state of a connection.
LEMMA IdleConnType == IdleConn \in Conns
<1>1. 0 \in BlockNumbers
  BY ModulusAssumption DEF BlockNumbers
<1> QED
  BY <1>1 DEF IdleConn, Conns, ConnPcs

\* Initially nothing has been sent or stored.
LEMMA InitIInv == Init => IInv
<1> SUFFICES ASSUME Init PROVE IInv
  OBVIOUS
<1> USE DEF Init
<1>1. Writers = {} /\ stored = <<>> /\ net = {}
  BY DEF Writers, IdleConn
<1>2. TypeOK
  BY IdleConnType, IdleSenderType DEF TypeOK
<1>3. ConnInv
  BY <1>1 DEF ConnInv
<1>4. ClientInv
  BY DEF ClientInv, ClientAt, IdleSender
<1>5. AckInv /\ BlockInv
  BY <1>1 DEF AckInv, BlockInv
<1>6. StoredInv
  BY <1>1, ChunkLenFacts DEF StoredInv
<1> QED
  BY <1>2, <1>3, <1>4, <1>5, <1>6 DEF IInv

-----------------------------------------------------------------------------
\* What IInv says of a data packet under way.
LEMMA DataFacts ==
    ASSUME IInv, NEW m \in net, m.op = "data"
    PROVE  /\ m.port \in Ports /\ m.from \in Clients /\ m.port = server[m.from]
           /\ m.chunk \in Nat \ {0} /\ m.size \in Sizes /\ m.block = m.chunk
           /\ m.chunk <= client[m.from].chunk /\ m.chunk <= NumBlocks
           /\ IsChunk(m, m.chunk)
<1>1. m \in Packets
  BY DEF IInv, TypeOK
<1>2. /\ m.port \in Ports /\ m.from \in Clients /\ m.chunk \in Nat \ {0}
      /\ m.size \in Sizes
  BY <1>1 DEF Packets
<1> QED
  BY <1>2 DEF IInv, BlockInv

\* A client that has found a connection has found the writer.
LEMMA ServerFacts ==
    ASSUME IInv, NEW c \in Clients, server[c] # NoPort
    PROVE  /\ server[c] \in Writers /\ conn[server[c]].peer = c
           /\ client[c].chunk \in {Len(stored), Len(stored) + 1}
           /\ client[c].pc \notin {"idle", "waiting"}
           /\ client[c].pc = "sending" => client[c].block = client[c].chunk
           /\ StreamOf(client[c])
BY DEF IInv, ClientInv, ClientAt

\* Where no client and no packet brings new data of client c, what no longer
\* came after a block still does not.
LEMMA NothingAfterKept ==
    ASSUME NEW c \in Clients, NEW i \in Nat, NothingAfter(i, c),
           client'[c].stream = client[c].stream,
           client'[c].pc = "sending" => /\ client[c].pc = "sending"
                                        /\ client'[c].chunk = client[c].chunk,
           \A m \in net' : m.op = "data" => m \in net
    PROVE  NothingAfter(i, c)'
BY DEF NothingAfter

\* The stored file stays what it is when no new data come after its end.
LEMMA StoredKept ==
    ASSUME TypeOK, StoredInv, stored' = stored,
           \A p \in Writers' : p \in Writers /\ conn'[p].peer = conn[p].peer,
           \A i \in Nat, c \in Clients : NothingAfter(i, c) => NothingAfter(i, c)',
           \A i \in Nat : BrokeOff(i) => BrokeOff(i)'
    PROVE  StoredInv'
<1> SUFFICES ASSUME NEW i \in DOMAIN stored
             PROVE  /\ \A p \in Writers' : stored[i].from = conn'[p].peer
                    /\ stored[i].chunk = i
                    /\ \/ stored[i].size = ChunkLen(i)
                       \/ stored[i].size = 0 /\ NothingAfter(i, stored[i].from)'
                       \/ stored[i].size < ChunkLen(i) /\ BrokeOff(i)'
                    /\ stored[i].size # ChunkLen(i) => i = Len(stored)
  BY DEF StoredInv, IsChunk, IsTorn
<1>1. stored[i] \in Stored /\ i \in Nat
  BY ElementOfStored DEF TypeOK, Stored
<1> QED
  BY <1>1 DEF StoredInv, IsChunk, IsTorn, Stored

\* A step of client c that sends no data: it gives up, is stopped, sends its
\* request, or its watchdog fires.
LEMMA ClientQuiet ==
    ASSUME IInv, NEW c \in Clients,
           NEW s \in Senders, client' = [client EXCEPT ![c] = s],
           s.block = client[c].block, s.chunk = client[c].chunk,
           s.size = client[c].size, s.last = client[c].last,
           s.stream = client[c].stream,
           \/ s.pc = client[c].pc
           \/ client[c].pc \in {"idle", "waiting"} /\ s.pc \notin {"sending", "ok"}
           \/ client[c].pc = "sending" /\ s.pc = "stopped",
           net' \subseteq net \cup {Request(c)},
           UNCHANGED server, ServerSame
    PROVE  IInv'
<1> USE DEF IInv, ServerSame
<1>1. /\ client'[c] = s
      /\ \A d \in Clients : d # c => client'[d] = client[d]
  BY DEF TypeOK
<1>2. TypeOK'
  BY DEF TypeOK, Packets, Request
<1>3. Writers' = Writers
  BY DEF Writers
<1>4. \A d \in Clients : /\ client'[d].chunk = client[d].chunk
                         /\ client'[d].stream = client[d].stream
                         /\ client'[d].pc = "sending" => client[d].pc = "sending"
  BY <1>1
<1>5. ConnInv'
  BY <1>3, <1>4 DEF ConnInv, CutShort
<1>6. ClientInv'
  <2> SUFFICES ASSUME NEW d \in Clients
               PROVE  ClientAt(d)'
    BY DEF ClientInv
  <2>1. CASE d # c
    BY <1>1, <1>3, <2>1 DEF ClientInv, ClientAt, StreamOf
  <2>2. CASE d = c /\ server[c] = NoPort
    BY <1>1, <2>2 DEF ClientInv, ClientAt
  <2>3. CASE d = c /\ server[c] # NoPort
    <3>1. \/ s.pc = client[c].pc
          \/ client[c].pc = "sending" /\ s.pc = "stopped"
      BY <2>3, ServerFacts
    <3>2. StreamOf(s)
      BY <2>3, <3>1, ServerFacts DEF StreamOf
    <3> QED
      BY <1>1, <1>3, <2>3, <3>1, <3>2, ServerFacts DEF ClientAt, StreamOf
  <2> QED
    BY <2>1, <2>2, <2>3
<1>7. AckInv'
  BY <1>3 DEF AckInv, Request
<1>8. \A m \in net' : m.op = "data" => m \in net
  BY DEF Request
<1>9. \A i \in Nat, d \in Clients : NothingAfter(i, d) => NothingAfter(i, d)'
  BY <1>4, <1>8, NothingAfterKept
<1>10. BlockInv'
  <2> SUFFICES ASSUME NEW m \in net', m.op = "data"
               PROVE  /\ m.port = server'[m.from]
                      /\ m.chunk <= client'[m.from].chunk /\ m.chunk <= NumBlocks
                      /\ m.block = m.chunk
                      /\ \/ m.size = ChunkLen(m.chunk)
                         \/ m.size = 0 /\ NothingAfter(m.chunk, m.from)'
    BY DEF BlockInv, IsChunk
  <2> QED
    BY <1>4, <1>8, <1>9, DataFacts DEF IsChunk
<1>11. \A i \in Nat : BrokeOff(i) => BrokeOff(i)'
  <2> SUFFICES ASSUME NEW i \in Nat, BrokeOff(i)
               PROVE  BrokeOff(i)'
    OBVIOUS
  <2>1. \A a \in net' : a.op = "ack" => a.block < i
    BY DEF BrokeOff, Request
  <2>2. \A p \in Writers : conn[p].pc = "failed" /\ client'[conn[p].peer].chunk <= i
    BY <1>4 DEF BrokeOff, ConnInv
  <2> QED
    BY <1>3, <2>1, <2>2 DEF BrokeOff
<1>12. StoredInv'
  BY <1>3, <1>9, <1>11, StoredKept
<1> QED
  BY <1>2, <1>5, <1>6, <1>7, <1>10, <1>12

\* A client goes on with state s and sends the block it is at, if any, to
\* the writer, which is where it sent before or has just been found.
LEMMA ClientSends ==
    ASSUME IInv, NEW c \in Clients, NEW q \in Writers, conn[q].peer = c,
           server[c] \in {NoPort, q},
           NEW s \in Senders, s.pc \in {"sending", "ok", "failed"}, StreamOf(s),
           s.chunk \in {Len(stored), Len(stored) + 1},
           client[c].chunk <= s.chunk,
           s.pc = "sending" => s.block = s.chunk,
           client[c].stream = "bad" => s.stream = "bad",
           \A i \in Nat : NothingAfter(i, c) /\ s.pc = "sending" => s.chunk <= i,
           \A i \in Nat : BrokeOff(i) => s.chunk <= i,
           client' = [client EXCEPT ![c] = s], server' = [server EXCEPT ![c] = q],
           NEW rest, rest \subseteq net \cup {UnknownId(p) : p \in Ports},
           net' = rest \cup (IF s.pc = "sending" THEN {Data(c, q, s)} ELSE {}),
           ServerSame
    PROVE  IInv'
<1> USE DEF IInv, ServerSame
<1>1. /\ client'[c] = s /\ server'[c] = q /\ q \in Ports
      /\ \A d \in Clients : d # c => client'[d] = client[d] /\ server'[d] = server[d]
      /\ s.chunk \in Nat \ {0} /\ client[c].chunk \in Nat
  BY DEF TypeOK, Writers, Senders
<1>2. /\ Writers' = Writers
      /\ \A p \in Writers : p = q
  BY DEF Writers, ConnInv
<1>3. /\ \A m \in net' : m.op = "data" => m \in net \/ m = Data(c, q, s)
      /\ Data(c, q, s) \in net' => s.pc = "sending" \/ Data(c, q, s) \in net
      /\ \A m \in net' : m.op = "ack" => m \in net
  BY DEF UnknownId, Data
<1>4. TypeOK'
  <2>1. Data(c, q, s) \in Packets
    BY <1>1 DEF Packets, Data, Senders
  <2>2. \A p \in Ports : UnknownId(p) \in Packets
    BY DEF Packets, UnknownId
  <2>3. net' \subseteq Packets
    BY <2>1, <2>2 DEF TypeOK
  <2> QED
    BY <1>1, <2>3 DEF TypeOK
<1>5. ConnInv'
  BY <1>1, <1>2 DEF ConnInv, CutShort
<1>6. ClientInv'
  <2> SUFFICES ASSUME NEW d \in Clients
               PROVE  ClientAt(d)'
    BY DEF ClientInv
  <2>1. CASE d # c
    BY <1>1, <1>2, <2>1 DEF ClientInv, ClientAt, StreamOf
  <2>2. CASE d = c
    <3>1. q # NoPort
      BY <1>1, NamesAssumption
    <3> QED
      BY <1>1, <1>2, <2>2, <3>1 DEF ClientAt, StreamOf
  <2> QED
    BY <2>1, <2>2
<1>7. AckInv'
  BY <1>2, <1>3 DEF AckInv
<1>8. \A m \in net : m.op = "data" /\ m.from = c =>
            /\ m.chunk \in Nat /\ m.chunk <= client[c].chunk /\ server[c] = q
  <2> SUFFICES ASSUME NEW m \in net, m.op = "data", m.from = c
               PROVE  /\ m.chunk \in Nat /\ m.chunk <= client[c].chunk
                      /\ server[c] = q
    OBVIOUS
  <2> QED
    BY DataFacts, NamesAssumption
<1>9. \A i \in Nat, d \in Clients : NothingAfter(i, d) => NothingAfter(i, d)'
  <2> SUFFICES ASSUME NEW i \in Nat, NEW d \in Clients, NothingAfter(i, d)
               PROVE  NothingAfter(i, d)'
    OBVIOUS
  <2>1. CASE d # c
    BY <1>1, <1>3, <2>1 DEF NothingAfter, Data
  <2>2. CASE d = c
    <3>1. s.stream = "bad" /\ (s.pc = "sending" => s.chunk <= i)
      BY <2>2 DEF NothingAfter
    <3>2. ASSUME NEW m \in net', m.op = "data", m.from = c
          PROVE  m.chunk <= i
      <4>1. CASE m \in net
        BY <2>2, <3>2, <4>1 DEF NothingAfter
      <4>2. CASE m = Data(c, q, s) /\ s.pc = "sending"
        BY <3>1, <4>2 DEF Data
      <4> QED
        BY <1>3, <3>2, <4>1, <4>2
    <3> QED
      BY <1>1, <2>2, <3>1, <3>2 DEF NothingAfter
  <2> QED
    BY <2>1, <2>2
<1>10. s.pc = "sending" /\ s.stream = "bad" => NothingAfter(s.chunk, c)'
  <2> SUFFICES ASSUME s.pc = "sending", s.stream = "bad"
               PROVE  NothingAfter(s.chunk, c)'
    OBVIOUS
  <2>1. ASSUME NEW m \in net', m.op = "data", m.from = c
        PROVE  m.chunk <= s.chunk
    <3>1. CASE m \in net
      BY <1>1, <1>8, <2>1, <3>1
    <3>2. CASE m = Data(c, q, s)
      BY <1>1, <3>2 DEF Data
    <3> QED
      BY <1>3, <2>1, <3>1, <3>2
  <2> QED
    BY <1>1, <2>1 DEF NothingAfter
<1>11. BlockInv'
  <2> SUFFICES ASSUME NEW m \in net', m.op = "data"
               PROVE  /\ m.port = server'[m.from]
                      /\ m.chunk <= client'[m.from].chunk /\ m.chunk <= NumBlocks
                      /\ m.block = m.chunk
                      /\ \/ m.size = ChunkLen(m.chunk)
                         \/ m.size = 0 /\ NothingAfter(m.chunk, m.from)'
    BY DEF BlockInv, IsChunk
  <2>1. CASE m \in net
    <3>1. /\ m.from \in Clients /\ m.port = server[m.from]
          /\ m.chunk \in Nat /\ m.block = m.chunk
          /\ m.chunk <= client[m.from].chunk /\ m.chunk <= NumBlocks
          /\ \/ m.size = ChunkLen(m.chunk)
             \/ m.size = 0 /\ NothingAfter(m.chunk, m.from)
      BY <2>1, DataFacts DEF IsChunk
    <3>2. m.port = server'[m.from] /\ m.chunk <= client'[m.from].chunk
      BY <1>1, <1>8, <2>1, <3>1
    <3> QED
      BY <1>9, <3>1, <3>2
  <2>2. CASE m = Data(c, q, s) /\ s.pc = "sending"
    <3>1. /\ m.from = c /\ m.port = q /\ m.chunk = s.chunk /\ m.block = s.block
          /\ m.size = s.size
      BY <2>2 DEF Data
    <3>2. s.chunk <= NumBlocks /\ (s.size = ChunkLen(s.chunk)
                                   \/ (s.size = 0 /\ s.stream = "bad"))
      BY <2>2, SentIsChunk
    <3> QED
      BY <1>1, <1>10, <2>2, <3>1, <3>2
  <2> QED
    BY <1>3, <2>1, <2>2
<1>12. \A i \in Nat : BrokeOff(i) => BrokeOff(i)'
  BY <1>1, <1>2, <1>3 DEF BrokeOff
<1>13. StoredInv'
  BY <1>2, <1>9, <1>12, StoredKept
<1> QED
  BY <1>4, <1>5, <1>6, <1>7, <1>11, <1>13

-----------------------------------------------------------------------------
\* Connections that write nothing: they refuse, end, stop, or repeat their
\* acknowledgement.
LEMMA ConnsQuiet ==
    ASSUME IInv, conn' \in [Ports -> Conns], Writers' = Writers,
           \A p \in Writers :
              /\ conn'[p].peer = conn[p].peer /\ conn'[p].cur = conn[p].cur
              /\ conn'[p].lastSeen = conn[p].lastSeen
              /\ conn'[p].pc = "ok" => conn[p].lastSeen
              /\ conn[p].pc = "failed" => conn'[p].pc = "failed",
           \A m \in net' : \/ m \in net
                           \/ m \in {Refusal(p) : p \in Ports}
                           \/ \E p \in Writers : /\ conn[p].pc = "receiving"
                                                 /\ m = Ack(p, conn[p].cur),
           present' \in BOOLEAN, present => present', listening' \in BOOLEAN,
           UNCHANGED <<client, server, source, stored>>
    PROVE  IInv'
<1> USE DEF IInv
<1>1. /\ \A p \in Writers : p \in Ports /\ conn[p].cur \in BlockNumbers
                            /\ conn[p].cur = Len(stored)
      /\ Len(stored) \in Nat
  BY DEF TypeOK, Writers, Conns, ConnInv
<1>2. \A m \in net' : m \in net \/ m.op \in {"ack", "refusal"}
  BY DEF Refusal, Ack
<1>3. TypeOK'
  <2>1. \A p \in Ports : Refusal(p) \in Packets
    BY DEF Packets, Refusal
  <2>2. \A p \in Writers : Ack(p, conn[p].cur) \in Packets
    BY <1>1 DEF Packets, Ack
  <2>3. net' \subseteq Packets
    BY <2>1, <2>2 DEF TypeOK
  <2> QED
    BY <2>3 DEF TypeOK
<1>4. ConnInv'
  BY DEF ConnInv, CutShort
<1>5. ClientInv'
  BY DEF ClientInv, ClientAt, StreamOf
<1>6. AckInv'
  <2> SUFFICES ASSUME NEW m \in net', m.op = "ack"
               PROVE  m.port \in Writers /\ m.block <= Len(stored)
    BY DEF AckInv
  <2>1. CASE m \in net
    BY <2>1 DEF AckInv
  <2>2. CASE m \in {Refusal(p) : p \in Ports}
    BY <2>2 DEF Refusal
  <2>3. ASSUME NEW p \in Writers, m = Ack(p, conn[p].cur)
        PROVE  m.port \in Writers /\ m.block <= Len(stored)
    BY <1>1, <2>3 DEF Ack
  <2> QED
    BY <2>1, <2>2, <2>3
<1>7. \A m \in net' : m.op = "data" => m \in net
  BY <1>2
<1>8. \A i \in Nat, d \in Clients : NothingAfter(i, d) => NothingAfter(i, d)'
  BY <1>7, NothingAfterKept
<1>9. BlockInv'
  <2> SUFFICES ASSUME NEW m \in net', m.op = "data"
               PROVE  /\ m.port = server[m.from]
                      /\ m.chunk <= client[m.from].chunk /\ m.chunk <= NumBlocks
                      /\ m.block = m.chunk
                      /\ \/ m.size = ChunkLen(m.chunk)
                         \/ m.size = 0 /\ NothingAfter(m.chunk, m.from)'
    BY DEF BlockInv, IsChunk
  <2> QED
    BY <1>7, <1>8, DataFacts DEF IsChunk
<1>10. \A i \in Nat : BrokeOff(i) => BrokeOff(i)'
  <2> SUFFICES ASSUME NEW i \in Nat, BrokeOff(i)
               PROVE  BrokeOff(i)'
    OBVIOUS
  <2>1. \A a \in net' : a.op = "ack" => a \in net
    BY DEF BrokeOff, Refusal
  <2> QED
    BY <2>1 DEF BrokeOff
<1>11. StoredInv'
  BY <1>8, <1>10, StoredKept
<1> QED
  BY <1>3, <1>4, <1>5, <1>6, <1>9, <1>11

\* A connection creates the file: it is the only one to write, and no data
\* are under way that were meant for another.
LEMMA NewWriter ==
    ASSUME IInv, ~present, NEW p \in Ports, NEW c \in Clients, NEW r \in Conns,
           r.pc \in {"receiving", "failed"}, r.peer = c, r.cur = 0, ~r.lastSeen,
           conn' = [conn EXCEPT ![p] = r],
           net' \subseteq net \cup {Ack(p, 0)}, present' = TRUE,
           UNCHANGED <<stored, client, server, source, listening>>
    PROVE  IInv'
<1> USE DEF IInv
<1>1. Writers = {} /\ stored = <<>> /\ conn'[p] = r
  BY DEF ConnInv, TypeOK
<1>2. Writers' = {p}
  <2>1. \A q \in Ports : q # p => conn'[q] = conn[q]
    BY DEF TypeOK
  <2> QED
    BY <1>1, <2>1 DEF Writers
<1>3. \A d \in Clients : server[d] = NoPort
  BY <1>1 DEF ClientInv, ClientAt
<1>4. \A m \in net' : m.op # "data"
  <2>1. \A m \in net : m.op # "data"
    BY <1>3, DataFacts, NamesAssumption
  <2> QED
    BY <2>1 DEF Ack
<1>5. TypeOK'
  <2>1. Ack(p, 0) \in Packets
    BY ModulusAssumption DEF Ack, Packets, BlockNumbers
  <2>2. net' \subseteq Packets
    BY <2>1 DEF TypeOK
  <2> QED
    BY <2>2 DEF TypeOK
<1>6. ConnInv'
  BY <1>1, <1>2 DEF ConnInv
<1>7. ClientInv'
  BY <1>3 DEF ClientInv, ClientAt
<1>8. AckInv'
  <2> SUFFICES ASSUME NEW m \in net', m.op = "ack"
               PROVE  m.port = p /\ m.block <= Len(stored)
    BY <1>2 DEF AckInv
  <2>1. m \notin net
    BY <1>1 DEF AckInv
  <2>2. m = Ack(p, 0) /\ Len(stored) = 0
    BY <1>1, <2>1
  <2> QED
    BY <2>2 DEF Ack
<1>9. BlockInv'
  BY <1>4 DEF BlockInv
<1>10. StoredInv'
  BY <1>1, ChunkLenFacts DEF StoredInv
<1> QED
  BY <1>5, <1>6, <1>7, <1>8, <1>9, <1>10

\* Data that reach the writer are those of its client.
LEMMA DataToWriter ==
    ASSUME IInv, NEW p \in Writers, NEW m \in net, m.op = "data", m.port = p
    PROVE  m.from = conn[p].peer /\ server[m.from] = p
<1>1. m.from \in Clients /\ server[m.from] = p /\ p # NoPort
  BY DataFacts, NamesAssumption
<1> QED
  BY <1>1, ServerFacts

\* The writer accepts the next block: the file grows by the next chunk, or
\* by a part of it when the write fails.
LEMMA ConnWrites ==
    ASSUME IInv, NEW p \in Writers, conn[p].pc = "receiving",
           NEW m \in net, m.op = "data", m.port = p,
           m.chunk = Len(stored) + 1,
           NEW r \in Conns, r.pc \in {"receiving", "failed"},
           r.peer = conn[p].peer, r.cur = Len(stored) + 1,
           r.lastSeen <=> conn[p].lastSeen \/ m.size < ChunkSize,
           conn' = [conn EXCEPT ![p] = r],
           NEW size \in 0 .. m.size,
           \/ /\ size = m.size
              /\ net' \subseteq net \cup {Ack(p, Len(stored) + 1)}
           \/ "write" \in Faults /\ r.pc = "failed" /\ net' \subseteq net,
           stored' = Append(stored, Written(m, size)),
           UNCHANGED <<client, server, source, present, listening>>
    PROVE  IInv'
<1> DEFINE e == Written(m, size)
           c == conn[p].peer
           n == Len(stored)
<1> USE DEF IInv
<1>1. /\ m.from = c /\ c \in Clients /\ server[c] = p /\ p \in Ports
      /\ m.size \in Sizes /\ m.chunk <= NumBlocks /\ m.chunk <= client[c].chunk
      /\ m.chunk \in Nat \ {0} /\ IsChunk(m, m.chunk)
  BY DataToWriter, DataFacts DEF Writers
<1>2. n \in Nat /\ stored \in Seq(Stored)
  BY DEF TypeOK, Stored
<1>3. e \in Stored /\ e.from = c /\ e.chunk = m.chunk /\ e.size = size
  BY <1>1, SizeAssumption DEF Stored, Sizes, Written
<1>4. /\ stored' = Append(stored, e) /\ stored' \in Seq(Stored)
      /\ Len(stored') = n + 1 /\ DOMAIN stored' = 1 .. (n + 1)
      /\ stored'[n + 1] = e
      /\ \A i \in 1 .. n : stored'[i] = stored[i]
      /\ stored' # <<>>
  BY <1>2, <1>3
<1> HIDE DEF e
<1>5. /\ conn'[p] = r /\ Writers' = Writers
      /\ \A q \in Ports : q # p => conn'[q] = conn[q]
      /\ \A q \in Writers : q = p
  <2>1. conn'[p] = r /\ \A q \in Ports : q # p => conn'[q] = conn[q]
    BY <1>1 DEF TypeOK
  <2>2. Writers' = Writers
    BY <1>1, <2>1 DEF Writers
  <2>3. \A q \in Writers : q = p
    BY DEF ConnInv
  <2> QED
    BY <2>1, <2>2, <2>3
<1>6. r.cur \in BlockNumbers
  BY DEF Conns
<1>7. TypeOK'
  <2>1. Ack(p, n + 1) \in Packets
    BY <1>1, <1>6 DEF Ack, Packets
  <2>2. net' \subseteq Packets
    BY <2>1 DEF TypeOK
  <2>3. conn' \in [Ports -> Conns]
    BY DEF TypeOK
  <2> QED
    BY <1>4, <2>2, <2>3 DEF TypeOK, Stored
<1>8. \A k \in net' : k.op = "data" => k \in net
  BY DEF Ack
<1>9. \A i \in Nat, d \in Clients : NothingAfter(i, d) => NothingAfter(i, d)'
  BY <1>8, NothingAfterKept
<1>10. \A i \in 1 .. n : ~ NothingAfter(i, c)
  BY <1>1, <1>2 DEF NothingAfter
<1>11. \A i \in 1 .. n : ~ BrokeOff(i)
  BY DEF BrokeOff
<1>12. client[c].chunk = n + 1 /\ NumBlocks \in Nat \ {0}
  <2>1. client[c].chunk \in {n, n + 1}
    BY <1>1, NamesAssumption, ServerFacts
  <2> QED
    BY <1>1, <1>2, <2>1, ChunkLenFacts
<1>13. r.lastSeen => n + 1 = NumBlocks \/ CutShort(c)
  <2>1. CASE conn[p].lastSeen
    <3>1. n = NumBlocks \/ CutShort(c)
      BY <2>1 DEF ConnInv
    <3> QED
      BY <1>1, <1>2, <1>12, <3>1
  <2>2. CASE m.size < ChunkSize /\ m.size = ChunkLen(n + 1)
    BY <1>1, <1>2, <1>12, <2>2, ChunkLenFacts, SizeAssumption
  <2>3. CASE m.size < ChunkSize /\ NothingAfter(n + 1, c)
    BY <1>1, <2>3 DEF NothingAfter, CutShort
  <2> QED
    BY <1>1, <2>1, <2>2, <2>3 DEF IsChunk
<1>14. ConnInv'
  <2>1. CutShort(c)' <=> CutShort(c)
    BY DEF CutShort
  <2> QED
    BY <1>1, <1>4, <1>5, <1>13, <2>1 DEF ConnInv
<1>15. ClientInv'
  <2> SUFFICES ASSUME NEW d \in Clients
               PROVE  ClientAt(d)'
    BY DEF ClientInv
  <2>1. CASE server[d] = NoPort
    BY <2>1 DEF ClientInv, ClientAt
  <2>2. CASE server[d] # NoPort
    <3>1. server[d] = p /\ d = c
      BY <1>5, <2>2, ServerFacts
    <3> QED
      BY <1>2, <1>4, <1>5, <1>12, <2>2, <3>1, ServerFacts DEF ClientAt, StreamOf
  <2> QED
    BY <2>1, <2>2
<1>16. AckInv'
  <2> SUFFICES ASSUME NEW k \in net', k.op = "ack"
               PROVE  k.port \in Writers /\ k.block <= n + 1
    BY <1>4, <1>5 DEF AckInv
  <2>1. CASE k \in net
    <3>1. k.port \in Writers /\ k.block <= n
      BY <2>1 DEF AckInv
    <3>2. k.block \in Nat
      <4>1. k \in Packets
        BY <2>1 DEF TypeOK
      <4> QED
        BY <4>1 DEF Packets, BlockNumbers
    <3> QED
      BY <1>2, <3>1, <3>2
  <2>2. CASE k = Ack(p, n + 1)
    BY <1>2, <2>2 DEF Ack
  <2> QED
    BY <2>1, <2>2
<1>17. BlockInv'
  <2> SUFFICES ASSUME NEW k \in net', k.op = "data"
               PROVE  /\ k.port = server[k.from]
                      /\ k.chunk <= client[k.from].chunk /\ k.chunk <= NumBlocks
                      /\ k.block = k.chunk
                      /\ \/ k.size = ChunkLen(k.chunk)
                         \/ k.size = 0 /\ NothingAfter(k.chunk, k.from)'
    BY DEF BlockInv, IsChunk
  <2> QED
    BY <1>8, <1>9, DataFacts DEF IsChunk
<1>18. ASSUME "write" \in Faults, r.pc = "failed", net' \subseteq net,
              NEW i \in Nat, i = n + 1
       PROVE  BrokeOff(i)'
  <2>1. ASSUME NEW a \in net', a.op = "ack"
        PROVE  a.block < n + 1
    <3>1. a.block <= n /\ a \in Packets
      BY <1>18, <2>1 DEF AckInv, TypeOK
    <3>2. a.block \in Nat
      BY <2>1, <3>1 DEF Packets, BlockNumbers
    <3> QED
      BY <1>2, <3>1, <3>2
  <2>2. \A q \in Writers' : conn'[q].pc = "failed" /\ client'[conn'[q].peer].chunk = n + 1
    BY <1>5, <1>12, <1>18
  <2> QED
    BY <1>2, <1>4, <1>18, <2>1, <2>2 DEF BrokeOff
<1>19. StoredInv'
  <2> SUFFICES ASSUME NEW i \in 1 .. (n + 1)
               PROVE  /\ stored'[i].from = c /\ stored'[i].chunk = i
                      /\ \/ stored'[i].size = ChunkLen(i)
                         \/ /\ stored'[i].size = 0 /\ NothingAfter(i, c)'
                            /\ i = n + 1
                         \/ /\ stored'[i].size < ChunkLen(i) /\ BrokeOff(i)'
                            /\ i = n + 1
    <3>1. n + 1 <= NumBlocks
      BY <1>1
    <3> QED
      BY <1>4, <1>5, <3>1 DEF StoredInv, IsChunk, IsTorn
  <2>1. CASE i = n + 1
    <3>1. stored'[i].from = c /\ stored'[i].chunk = i /\ stored'[i].size = size
      BY <1>1, <1>3, <1>4, <2>1
    <3>2. CASE size = m.size
      BY <1>1, <1>9, <2>1, <3>1, <3>2 DEF IsChunk
    <3>3. CASE "write" \in Faults /\ r.pc = "failed" /\ net' \subseteq net /\ size # m.size
      <4>1. m.size \in Nat /\ size < m.size
        BY <1>1, <3>3, SizeAssumption DEF Sizes
      <4>2. m.size # 0
        BY <4>1
      <4>3. m.size = ChunkLen(i)
        BY <1>1, <2>1, <4>2 DEF IsChunk
      <4> QED
        BY <1>2, <1>18, <2>1, <3>1, <3>3, <4>1, <4>3
    <3> QED
      BY <3>2, <3>3
  <2>2. CASE i # n + 1
    <3>1. i \in 1 .. n /\ i \in DOMAIN stored
      BY <1>2, <2>2
    <3>2. stored'[i] = stored[i] /\ ~ NothingAfter(i, c)
      BY <1>4, <1>10, <3>1
    <3>3. stored[i].from = c /\ (IsChunk(stored[i], i) \/ IsTorn(stored[i], i))
      BY <3>1 DEF StoredInv
    <3>4. IsChunk(stored[i], i)
      BY <1>11, <3>1, <3>3 DEF IsTorn
    <3> QED
      BY <3>2, <3>3, <3>4 DEF IsChunk
  <2> QED
    BY <2>1, <2>2
<1> QED
  BY <1>7, <1>14, <1>15, <1>16, <1>17, <1>19

-----------------------------------------------------------------------------
\* What a receive leaves of the network was there before.
LEMMA AfterFacts ==
    ASSUME NEW m, NEW rest \in After(m)
    PROVE  rest \subseteq net
BY DEF After

\* An acknowledgement that client c accepts is one of the writer's, for a
\* block that is stored, and the writer serves c.
LEMMA AckFacts ==
    ASSUME IInv, NEW c \in Clients, NEW m \in ToClient(c), m.op = "ack"
    PROVE  /\ m \in net /\ m.port \in Writers /\ conn[m.port].peer = c
           /\ m.block \in BlockNumbers /\ m.block <= Len(stored)
<1>1. m \in Packets /\ m \in net /\ conn[m.port].peer = c
  BY DEF ToClient, IInv, TypeOK
<1>2. m.block \in BlockNumbers
  BY <1>1 DEF Packets
<1> QED
  BY <1>1, <1>2 DEF IInv, AckInv

\* A client sends its block once more.
LEMMA ClientRepeats ==
    ASSUME IInv, NEW c \in Clients, client[c].pc = "sending",
           NEW rest, rest \subseteq net \cup {UnknownId(p) : p \in Ports},
           ClientContinues(c, server[c], SenderTop(client[c]), rest),
           UNCHANGED server, ServerSame
    PROVE  IInv'
<1>1. server[c] # NoPort /\ client[c] \in Senders
  BY DEF IInv, TypeOK, ClientInv, ClientAt
<1>2. /\ server[c] \in Writers /\ conn[server[c]].peer = c
      /\ client[c].chunk \in {Len(stored), Len(stored) + 1}
      /\ client[c].block = client[c].chunk
      /\ StreamOf(client[c])
  BY <1>1, ServerFacts
<1>3. PICK s \in SenderTop(client[c]) :
        /\ client' = [client EXCEPT ![c] = s]
        /\ net' = rest \cup (IF s.pc = "sending" THEN {Data(c, server[c], s)}
                             ELSE {})
  BY DEF ClientContinues
<1>4. /\ StreamOf(s) /\ s \in Senders /\ s.pc \in {"sending", "ok", "failed"}
      /\ s.block = client[c].block /\ s.chunk = client[c].chunk
      /\ s.stream = client[c].stream
  BY <1>1, <1>2, <1>3, StreamOfAtTop
<1>5. server' = [server EXCEPT ![c] = server[c]]
  BY DEF IInv, TypeOK
<1>6. client[c].chunk <= s.chunk
  BY <1>4 DEF Senders
<1>7. \A i \in Nat : NothingAfter(i, c) /\ s.pc = "sending" => s.chunk <= i
  BY <1>4 DEF NothingAfter
<1>8. /\ server[c] \in {NoPort, server[c]}
      /\ s.chunk \in {Len(stored), Len(stored) + 1}
      /\ s.pc = "sending" => s.block = s.chunk
      /\ client[c].stream = "bad" => s.stream = "bad"
  BY <1>2, <1>4
<1>9. \A i \in Nat : BrokeOff(i) => s.chunk <= i
  BY <1>2, <1>4 DEF BrokeOff
<1> QED
  BY <1>2, <1>3, <1>4, <1>5, <1>6, <1>7, <1>8, <1>9, ClientSends

\* Every step of a client keeps the invariant.
LEMMA ClientKeepsIInv ==
    ASSUME IInv, NumBlocks < BlockModulus, NEW c \in Clients, ClientNext(c)
    PROVE  IInv'
<1>0. client[c] \in Senders
  BY DEF IInv, TypeOK
<1>1. CASE SendRequest(c)
  <2>1. CASE client' = [client EXCEPT ![c].pc = "waiting"] /\ net' = net \cup {Request(c)}
    <3> DEFINE s == [client[c] EXCEPT !.pc = "waiting"]
    <3>1. s \in Senders /\ client' = [client EXCEPT ![c] = s]
      BY <1>0, <2>1 DEF Senders, SenderPcs
    <3> QED
      BY <1>0, <1>1, <2>1, <3>1, ClientQuiet DEF SendRequest, Senders
  <2>2. CASE client' = [client EXCEPT ![c].pc = "failed"] /\ UNCHANGED net
    <3> DEFINE s == [client[c] EXCEPT !.pc = "failed"]
    <3>1. s \in Senders /\ client' = [client EXCEPT ![c] = s]
      BY <1>0, <2>2 DEF Senders, SenderPcs
    <3> QED
      BY <1>0, <1>1, <2>2, <3>1, ClientQuiet DEF SendRequest, Senders
  <2> QED
    BY <1>1, <2>1, <2>2 DEF SendRequest
<1>2. CASE ResponseTimeout(c)
  <2> DEFINE s == [client[c] EXCEPT !.pc = "failed"]
  <2>1. s \in Senders /\ client' = [client EXCEPT ![c] = s]
    BY <1>0, <1>2 DEF ResponseTimeout, Senders, SenderPcs
  <2> QED
    BY <1>0, <1>2, <2>1, ClientQuiet DEF ResponseTimeout, Senders
<1>3. CASE ResponseUnusable(c)
  <2> DEFINE s == [client[c] EXCEPT !.pc = "refused"]
  <2>1. s \in Senders /\ client' = [client EXCEPT ![c] = s]
    BY <1>0, <1>3 DEF ResponseUnusable, Senders, SenderPcs
  <2>2. net' \subseteq net
    BY <1>3, AfterFacts DEF ResponseUnusable
  <2> QED
    BY <1>0, <1>3, <2>1, <2>2, ClientQuiet DEF ResponseUnusable, Senders
<1>4. CASE ResponseAck(c)
  <2>1. PICK m \in ToClient(c), rest \in SUBSET net :
          /\ IsGoAhead(m)
          /\ server' = [server EXCEPT ![c] = m.port]
          /\ ClientContinues(c, m.port, SenderStart(source[c]), rest)
    BY <1>4, AfterFacts DEF ResponseAck
  <2>2. m.port \in Writers /\ conn[m.port].peer = c
    BY <2>1, AckFacts DEF IsGoAhead
  <2>3. /\ server[c] = NoPort /\ client[c].chunk = 1 /\ client[c].stream = "good"
        /\ ServerSame /\ source[c] \in {"good", "bad"}
    BY <1>4 DEF ResponseAck, IInv, TypeOK, ClientInv, ClientAt
  <2>4. PICK s \in SenderStart(source[c]) :
          /\ client' = [client EXCEPT ![c] = s]
          /\ net' = rest \cup (IF s.pc = "sending" THEN {Data(c, m.port, s)} ELSE {})
    BY <2>1 DEF ClientContinues
  <2>5. /\ s \in Senders /\ s.chunk = 1 /\ s.block = 1
        /\ s.pc \in {"sending", "ok", "failed"} /\ StreamOf(s)
    BY <2>3, <2>4, SenderStartFacts, StreamOfAtStart
  <2>6. stored = <<>>
    <3>1. m.port \in Ports
      BY <2>2 DEF Writers
    <3> QED
      BY <2>2, <2>3, <3>1, NamesAssumption DEF IInv, ConnInv
  <2>7. \A i \in Nat : ~ NothingAfter(i, c) /\ (BrokeOff(i) => s.chunk <= i)
    BY <2>2, <2>3, <2>5 DEF NothingAfter, BrokeOff
  <2>8. /\ server[c] \in {NoPort, m.port}
        /\ s.chunk \in {Len(stored), Len(stored) + 1}
        /\ client[c].chunk <= s.chunk
        /\ s.pc = "sending" => s.block = s.chunk
        /\ client[c].stream = "bad" => s.stream = "bad"
        /\ rest \subseteq net \cup {UnknownId(p) : p \in Ports}
    BY <2>3, <2>5, <2>6
  <2> QED
    BY <2>1, <2>2, <2>3, <2>4, <2>5, <2>7, <2>8, ClientSends
<1>5. CASE ClientTimeout(c)
  BY <1>5, ClientRepeats DEF ClientTimeout
<1>6. CASE ClientRejects(c)
  <2>1. PICK m \in ToClient(c), rest \in SUBSET net :
          \E sent \in Attempt(UnknownId(m.port)) :
            ClientContinues(c, server[c], SenderTop(client[c]), rest \cup sent)
    BY <1>6, AfterFacts DEF ClientRejects
  <2>2. m.port \in Ports
    BY DEF ToClient, IInv, TypeOK, Packets
  <2>3. \A sent \in Attempt(UnknownId(m.port)) :
          rest \cup sent \subseteq net \cup {UnknownId(p) : p \in Ports}
    BY <2>2 DEF Attempt
  <2> QED
    BY <1>6, <2>1, <2>3, ClientRepeats DEF ClientRejects
<1>7. CASE ClientIgnores(c)
  BY <1>7, AfterFacts, ClientRepeats DEF ClientIgnores
<1>8. CASE ClientAdvances(c)
  <2>1. PICK m \in ToClient(c), rest \in SUBSET net :
          /\ m.port = server[c] /\ IsAwaitedAck(m.op, m.block, client[c].block)
          /\ ClientContinues(c, server[c], SenderAfterAck(client[c]), rest)
    BY <1>8, AfterFacts DEF ClientAdvances
  <2>2. /\ server[c] \in Writers /\ conn[server[c]].peer = c
        /\ m.block = client[c].block /\ m.block <= Len(stored)
        /\ client[c].pc = "sending" /\ UNCHANGED server /\ ServerSame
    BY <1>8, <2>1, AckFacts DEF ClientAdvances, IsAwaitedAck
  <2>3. /\ client[c].chunk \in {Len(stored), Len(stored) + 1}
        /\ client[c].block = client[c].chunk /\ StreamOf(client[c])
    <3>1. server[c] # NoPort
      BY <2>2 DEF IInv, ClientInv, ClientAt
    <3> QED
      BY <2>2, <3>1, ServerFacts
  <2>4. Len(stored) \in Nat /\ client[c].chunk = Len(stored)
    <3>1. Len(stored) \in Nat
      BY DEF IInv, TypeOK
    <3> QED
      BY <2>2, <2>3, <3>1
  <2>5. PICK s \in SenderAfterAck(client[c]) :
          /\ client' = [client EXCEPT ![c] = s]
          /\ net' = rest \cup (IF s.pc = "sending" THEN {Data(c, server[c], s)}
                               ELSE {})
    BY <2>1 DEF ClientContinues
  <2>6. /\ s \in Senders /\ StreamOf(s) /\ s.pc \in {"sending", "ok", "failed"}
        /\ s.chunk = client[c].chunk + 1 /\ s.block = NextBlock(client[c].block)
        /\ client[c].stream # "good" => s.stream = client[c].stream
        /\ s.pc = "sending" => client[c].stream = "good"
    BY <1>0, <2>2, <2>3, <2>5, StreamOfAfterAck
  <2>7. s.pc = "sending" => s.block = s.chunk
    <3> SUFFICES ASSUME s.pc = "sending" PROVE s.block = s.chunk
      OBVIOUS
    <3>1. s.chunk <= NumBlocks /\ NumBlocks \in Nat
      BY <2>6, SentIsChunk, ChunkLenFacts
    <3>2. client[c].block \in BlockNumbers /\ client[c].block + 1 < BlockModulus
      BY <1>0, <2>3, <2>4, <2>6, <3>1, ModulusAssumption DEF Senders
    <3> QED
      BY <2>3, <2>6, <3>2, NextBlockFacts, ModulusAssumption DEF BlockNumbers
  <2>8. \A i \in Nat : /\ NothingAfter(i, c) /\ s.pc = "sending" => s.chunk <= i
                       /\ ~ BrokeOff(i)
    <3>1. m \in net /\ m.op = "ack" /\ m.block = Len(stored)
      BY <2>1, <2>2, <2>3, <2>4, AckFacts DEF IsAwaitedAck
    <3> QED
      BY <2>4, <2>6, <3>1 DEF NothingAfter, BrokeOff
  <2>9. server' = [server EXCEPT ![c] = server[c]]
    BY <2>2 DEF IInv, TypeOK
  <2>10. client[c].chunk <= s.chunk /\ s.chunk \in {Len(stored), Len(stored) + 1}
    BY <2>4, <2>6
  <2>11. server[c] \in {NoPort, server[c]} /\ rest \subseteq net \cup {UnknownId(p) : p \in Ports}
    OBVIOUS
  <2> QED
    BY <2>2, <2>5, <2>6, <2>7, <2>8, <2>9, <2>10, <2>11, ClientSends
<1>9. CASE ClientWatchdog(c)
  <2> DEFINE s == [client[c] EXCEPT !.expired = TRUE]
  <2>1. s \in Senders /\ client' = [client EXCEPT ![c] = s]
    BY <1>0, <1>9 DEF ClientWatchdog, Senders
  <2> QED
    BY <1>0, <1>9, <2>1, ClientQuiet DEF ClientWatchdog, Senders
<1>10. CASE ClientInterrupted(c)
  <2> DEFINE s == [client[c] EXCEPT !.pc = "stopped"]
  <2>1. s \in Senders /\ client' = [client EXCEPT ![c] = s]
    BY <1>0, <1>10 DEF ClientInterrupted, Senders, SenderPcs
  <2> QED
    BY <1>0, <1>10, <2>1, ClientQuiet DEF ClientInterrupted, Senders
<1> QED
  BY <1>1, <1>2, <1>3, <1>4, <1>5, <1>6, <1>7, <1>8, <1>9, <1>10
     DEF ClientNext, ClientLoop

-----------------------------------------------------------------------------
\* The top of receive_loop only sets the pc, and so does a failed write.
LEMMA ReceiverFacts ==
    ASSUME NEW r \in Conns,
           NEW s \in ReceiverTop(r) \cup {[r EXCEPT !.pc = "failed"]}
    PROVE  /\ s \in Conns /\ s.pc \in {"receiving", "failed"}
           /\ s.peer = r.peer /\ s.cur = r.cur /\ s.lastSeen = r.lastSeen
<1>1. CASE s \in ReceiverTop(r)
  BY <1>1 DEF ReceiverTop, Conns, ConnPcs
<1>2. CASE s = [r EXCEPT !.pc = "failed"]
  BY <1>2 DEF Conns, ConnPcs
<1> QED
  BY <1>1, <1>2

\* A step of one connection that writes nothing and does not become, or stop
\* being, the writer.
LEMMA ConnQuiet ==
    ASSUME IInv, NEW p \in Ports, NEW s \in Conns,
           conn' = [conn EXCEPT ![p] = s],
           \/ /\ p \in Writers
              /\ s.pc \in {"receiving", "ok", "failed", "stopped"}
              /\ s.peer = conn[p].peer /\ s.cur = conn[p].cur
              /\ s.lastSeen = conn[p].lastSeen
              /\ s.pc = "ok" => s.lastSeen
              /\ conn[p].pc = "failed" => s.pc = "failed"
           \/ p \notin Writers /\ s.pc \in {"refused", "unopened"},
           \A m \in net' : \/ m \in net
                           \/ m = Refusal(p)
                           \/ m = Ack(p, conn[p].cur) /\ conn[p].pc = "receiving",
           UNCHANGED present, UNCHANGED stored, ClientSame
    PROVE  IInv'
<1>1. /\ conn \in [Ports -> Conns]
      /\ present \in BOOLEAN /\ listening \in BOOLEAN
  BY DEF IInv, TypeOK
<1>2. /\ conn' \in [Ports -> Conns] /\ conn'[p] = s
      /\ \A q \in Ports : q # p => conn'[q] = conn[q]
  BY <1>1
<1>3. Writers' = Writers
  BY <1>2 DEF Writers
<1>4. \A q \in Writers :
        /\ conn'[q].peer = conn[q].peer /\ conn'[q].cur = conn[q].cur
        /\ conn'[q].lastSeen = conn[q].lastSeen
        /\ conn'[q].pc = "ok" => conn[q].lastSeen
        /\ conn[q].pc = "failed" => conn'[q].pc = "failed"
  <2> SUFFICES ASSUME NEW q \in Writers
               PROVE  /\ conn'[q].peer = conn[q].peer /\ conn'[q].cur = conn[q].cur
                      /\ conn'[q].lastSeen = conn[q].lastSeen
                      /\ conn'[q].pc = "ok" => conn[q].lastSeen
                      /\ conn[q].pc = "failed" => conn'[q].pc = "failed"
    OBVIOUS
  <2>1. CASE q = p
    BY <1>2, <2>1
  <2>2. CASE q # p
    BY <1>2, <2>2 DEF IInv, ConnInv, Writers
  <2> QED
    BY <2>1, <2>2
<1>5. \A m \in net' : \/ m \in net
                      \/ m \in {Refusal(q) : q \in Ports}
                      \/ \E q \in Writers : /\ conn[q].pc = "receiving"
                                            /\ m = Ack(q, conn[q].cur)
  BY DEF Writers
<1> QED
  BY <1>1, <1>2, <1>3, <1>4, <1>5, ConnsQuiet DEF ClientSame

\* A connection repeats its acknowledgement.
LEMMA ConnRepeatsAck ==
    ASSUME IInv, NEW p \in Ports, conn[p].pc = "receiving",
           NEW rest, rest \subseteq net,
           ConnContinues(p, ReceiverTop(conn[p]), rest),
           UNCHANGED present, UNCHANGED stored, ClientSame
    PROVE  IInv'
<1>1. conn[p] \in Conns /\ p \in Writers
  BY DEF IInv, TypeOK, Writers
<1>2. PICK s \in ReceiverTop(conn[p]) :
        /\ conn' = [conn EXCEPT ![p] = s]
        /\ net' = rest \cup (IF s.pc = "receiving" THEN {Ack(p, s.cur)} ELSE {})
  BY DEF ConnContinues
<1>3. /\ s \in Conns /\ s.pc \in {"receiving", "failed"}
      /\ s.peer = conn[p].peer /\ s.cur = conn[p].cur
      /\ s.lastSeen = conn[p].lastSeen
  BY <1>1, <1>2, ReceiverFacts
<1>4. \A m \in net' : m \in net \/ m = Ack(p, conn[p].cur)
  BY <1>2, <1>3
<1> QED
  BY <1>1, <1>2, <1>3, <1>4, ConnQuiet

\* Every step of a connection keeps the invariant.
LEMMA ConnKeepsIInv ==
    ASSUME IInv, NumBlocks < BlockModulus, NEW p \in Ports, ConnNext(p)
    PROVE  IInv'
<1>0. conn[p] \in Conns
  BY DEF IInv, TypeOK
<1>1. CASE Accept(p)
  <2>1. PICK c \in Clients, rest \in SUBSET net :
          AcceptNew(p, c, rest) \/ AcceptExisting(p, c, rest)
    BY <1>1, AfterFacts DEF Accept
  <2>2. UNCHANGED stored /\ ClientSame /\ p \notin Writers
    BY <1>1 DEF Accept, Writers
  <2> DEFINE new == [IdleConn EXCEPT !.peer = c]
  <2>3. new \in Conns /\ new.peer = c /\ new.cur = 0 /\ ~new.lastSeen
    <3>1. new \in Conns
      BY IdleConnType DEF Conns
    <3> QED
      BY <3>1 DEF IdleConn
  <2>4. CASE ~present /\ present' = TRUE /\ ConnContinues(p, ReceiverTop(new), rest)
    <3>1. PICK s \in ReceiverTop(new) :
            /\ conn' = [conn EXCEPT ![p] = s]
            /\ net' = rest \cup (IF s.pc = "receiving" THEN {Ack(p, s.cur)} ELSE {})
      BY <2>4 DEF ConnContinues
    <3>2. /\ s \in Conns /\ s.pc \in {"receiving", "failed"}
          /\ s.peer = c /\ s.cur = 0 /\ ~s.lastSeen
      BY <2>3, <3>1, ReceiverFacts
    <3>3. net' \subseteq net \cup {Ack(p, 0)}
      BY <3>1, <3>2
    <3> HIDE DEF new
    <3> QED
      BY <2>2, <2>4, <3>1, <3>2, <3>3, NewWriter DEF ClientSame
  <2>5. CASE /\ conn' = [conn EXCEPT ![p] = [IdleConn EXCEPT !.peer = c,
                                                             !.pc = "unopened"]]
             /\ net' = rest /\ UNCHANGED present
    <3> DEFINE s == [IdleConn EXCEPT !.peer = c, !.pc = "unopened"]
    <3>1. s \in Conns /\ s.pc = "unopened"
      BY IdleConnType DEF Conns, ConnPcs
    <3>2. conn' = [conn EXCEPT ![p] = s]
      BY <2>5
    <3> HIDE DEF s
    <3> QED
      BY <2>2, <2>5, <3>1, <3>2, ConnQuiet
  <2>6. CASE AcceptExisting(p, c, rest)
    <3> DEFINE s == [IdleConn EXCEPT !.peer = c, !.pc = "refused"]
    <3>1. s \in Conns /\ s.pc = "refused"
      BY IdleConnType DEF Conns, ConnPcs
    <3>2. conn' = [conn EXCEPT ![p] = s] /\ UNCHANGED present
      BY <2>6 DEF AcceptExisting
    <3>3. \A m \in net' : m \in net \/ m = Refusal(p)
      BY <2>6 DEF AcceptExisting, Attempt
    <3> HIDE DEF s
    <3> QED
      BY <2>2, <3>1, <3>2, <3>3, ConnQuiet
  <2> QED
    BY <2>1, <2>4, <2>5, <2>6 DEF AcceptNew
<1>2. CASE ConnFinish(p)
  <2> DEFINE s == [conn[p] EXCEPT !.pc = "ok"]
  <2>1. /\ s \in Conns /\ s.pc = "ok" /\ s.peer = conn[p].peer
        /\ s.cur = conn[p].cur /\ s.lastSeen = conn[p].lastSeen
    BY <1>0 DEF Conns, ConnPcs
  <2>2. /\ conn' = [conn EXCEPT ![p] = s] /\ p \in Writers /\ s.lastSeen
        /\ conn[p].pc = "receiving"
        /\ net' = net /\ UNCHANGED present /\ UNCHANGED stored /\ ClientSame
    BY <1>0, <1>2 DEF ConnFinish, Writers, Conns
  <2> HIDE DEF s
  <2> QED
    BY <2>1, <2>2, ConnQuiet
<1>3. CASE ConnRepeats(p)
  BY <1>3, ConnRepeatsAck DEF ConnRepeats
<1>4. CASE ConnIgnores(p)
  BY <1>4, AfterFacts, ConnRepeatsAck DEF ConnIgnores
<1>5. CASE ConnAccepts(p)
  <2>1. PICK m \in ToConn(p), rest \in SUBSET net :
          /\ IsNextData(m.op, m.block, conn[p].cur)
          /\ \/ /\ stored' = Append(stored, Written(m, m.size))
                /\ ConnContinues(p, ReceiverTop(AcceptedBy(p, m)), rest)
             \/ /\ "write" \in Faults
                /\ \E size \in 0 .. m.size :
                      stored' = Append(stored, Written(m, size))
                /\ conn' = [conn EXCEPT ![p] = [AcceptedBy(p, m) EXCEPT !.pc = "failed"]]
                /\ net' = rest
    BY <1>5, AfterFacts DEF ConnAccepts
  <2>2. /\ m \in net /\ m.op = "data" /\ m.port = p
        /\ m.block = conn[p].cur + 1
        /\ conn[p].pc = "receiving" /\ p \in Writers
        /\ UNCHANGED <<present, client, server, source, listening>>
    BY <1>5, <2>1 DEF ConnAccepts, ToConn, IsNextData, Writers, ClientSame
  <2>3. conn[p].cur = Len(stored) /\ Len(stored) \in Nat
    BY <2>2 DEF IInv, ConnInv, TypeOK
  <2>4. /\ m.chunk = Len(stored) + 1 /\ m.chunk <= NumBlocks /\ m.size \in Sizes
        /\ NumBlocks \in Nat
    BY <2>2, <2>3, DataFacts, ChunkLenFacts
  <2>5. NextBlock(conn[p].cur) = Len(stored) + 1 /\ Len(stored) + 1 \in BlockNumbers
    <3>1. conn[p].cur \in BlockNumbers /\ conn[p].cur + 1 < BlockModulus
      BY <1>0, <2>3, <2>4, ModulusAssumption DEF Conns
    <3> QED
      BY <2>3, <3>1, NextBlockFacts, ModulusAssumption DEF BlockNumbers
  <2>6. /\ AcceptedBy(p, m) \in Conns
        /\ AcceptedBy(p, m).peer = conn[p].peer
        /\ AcceptedBy(p, m).cur = Len(stored) + 1
        /\ AcceptedBy(p, m).lastSeen <=> conn[p].lastSeen \/ m.size < ChunkSize
    BY <1>0, <2>5 DEF AcceptedBy, Conns
  <2> DEFINE torn == [AcceptedBy(p, m) EXCEPT !.pc = "failed"]
  <2>7. \A s \in ReceiverTop(AcceptedBy(p, m)) \cup {torn} :
          /\ s \in Conns /\ s.pc \in {"receiving", "failed"}
          /\ s.peer = conn[p].peer /\ s.cur = Len(stored) + 1
          /\ s.lastSeen <=> conn[p].lastSeen \/ m.size < ChunkSize
    BY <2>6, ReceiverFacts
  <2>8. CASE /\ stored' = Append(stored, Written(m, m.size))
             /\ ConnContinues(p, ReceiverTop(AcceptedBy(p, m)), rest)
    <3>1. PICK s \in ReceiverTop(AcceptedBy(p, m)) :
            /\ conn' = [conn EXCEPT ![p] = s]
            /\ net' = rest \cup (IF s.pc = "receiving" THEN {Ack(p, s.cur)} ELSE {})
      BY <2>8 DEF ConnContinues
    <3>2. net' \subseteq net \cup {Ack(p, Len(stored) + 1)}
      BY <2>7, <3>1
    <3>3. m.size \in 0 .. m.size
      BY <2>4, SizeAssumption DEF Sizes
    <3> QED
      BY <2>2, <2>4, <2>7, <2>8, <3>1, <3>2, <3>3, ConnWrites
  <2>9. CASE /\ "write" \in Faults
             /\ \E size \in 0 .. m.size : stored' = Append(stored, Written(m, size))
             /\ conn' = [conn EXCEPT ![p] = torn]
             /\ net' = rest
    <3>1. torn.pc = "failed" /\ net' \subseteq net
      BY <2>6, <2>9 DEF Conns
    <3>2. PICK size \in 0 .. m.size : stored' = Append(stored, Written(m, size))
      BY <2>9
    <3> HIDE DEF torn
    <3> QED
      BY <2>2, <2>4, <2>7, <2>9, <3>1, <3>2, ConnWrites
  <2> QED
    BY <2>1, <2>8, <2>9
<1>6. CASE ConnWatchdog(p)
  <2> DEFINE s == [conn[p] EXCEPT !.expired = TRUE]
  <2>1. /\ s \in Conns /\ s.pc = conn[p].pc /\ s.peer = conn[p].peer
        /\ s.cur = conn[p].cur /\ s.lastSeen = conn[p].lastSeen
    BY <1>0 DEF Conns
  <2>2. /\ conn' = [conn EXCEPT ![p] = s] /\ p \in Writers
        /\ conn[p].pc = "receiving"
        /\ net' = net /\ UNCHANGED present /\ UNCHANGED stored /\ ClientSame
    BY <1>0, <1>6 DEF ConnWatchdog, Writers, Conns
  <2> HIDE DEF s
  <2> QED
    BY <2>1, <2>2, ConnQuiet
<1> QED
  BY <1>1, <1>2, <1>3, <1>4, <1>5, <1>6 DEF ConnNext, ConnLoop

\* A signal stops the connections and leaves what was written.
LEMMA StopKeepsIInv == IInv /\ ServerStops => IInv'
<1> SUFFICES ASSUME IInv, ServerStops PROVE IInv'
  OBVIOUS
<1>1. conn \in [Ports -> Conns] /\ present \in BOOLEAN
  BY DEF IInv, TypeOK
<1>2. \A p \in Ports :
        conn'[p] = IF conn[p].pc = "receiving"
                   THEN [conn[p] EXCEPT !.pc = "stopped"] ELSE conn[p]
  BY DEF ServerStops
<1>3. conn' \in [Ports -> Conns]
  BY <1>1 DEF ServerStops, Conns, ConnPcs
<1>4. \A p \in Ports :
        /\ conn'[p].peer = conn[p].peer /\ conn'[p].cur = conn[p].cur
        /\ conn'[p].lastSeen = conn[p].lastSeen
        /\ \/ conn'[p].pc = conn[p].pc
           \/ conn[p].pc = "receiving" /\ conn'[p].pc = "stopped"
  BY <1>1, <1>2 DEF Conns
<1>5. Writers' = Writers
  BY <1>4 DEF Writers
<1>6. \A p \in Writers : /\ conn'[p].pc = "ok" => conn[p].lastSeen
                         /\ conn[p].pc = "failed" => conn'[p].pc = "failed"
  BY <1>4 DEF IInv, ConnInv, Writers
<1> QED
  BY <1>1, <1>3, <1>4, <1>5, <1>6, ConnsQuiet DEF ServerStops, Writers

\* A lost packet leaves a part of the network, a stutter all of it.
LEMMA LoseKeepsIInv == IInv /\ (Lose \/ UNCHANGED vars) => IInv'
<1> SUFFICES ASSUME IInv, Lose \/ UNCHANGED vars PROVE IInv'
  OBVIOUS
<1>1. /\ conn \in [Ports -> Conns] /\ present \in BOOLEAN /\ listening \in BOOLEAN
      /\ \A p \in Writers : conn[p].pc = "ok" => conn[p].lastSeen
  BY DEF IInv, TypeOK, ConnInv
<1>2. /\ net' \subseteq net
      /\ UNCHANGED <<client, server, source, conn, present, stored, listening>>
  BY DEF Lose, vars
<1>3. Writers' = Writers
  BY <1>2 DEF Writers
<1> QED
  BY <1>1, <1>2, <1>3, ConnsQuiet

-----------------------------------------------------------------------------
\* The invariant holds in every reachable state of an upload whose block
\* numbers do not wrap, whatever the clients, the connections and the faults
\* of the environment.
THEOREM Invariance ==
    ASSUME NumBlocks < BlockModulus
    PROVE  Spec => []IInv
<1>1. Init => IInv
  BY InitIInv
<1>2. IInv /\ [Next]_vars => IInv'
  BY ClientKeepsIInv, ConnKeepsIInv, StopKeepsIInv, LoseKeepsIInv DEF Next
<1> QED
  BY <1>1, <1>2, PTL DEF Spec

\* Every variable has its type in every reachable state.
THEOREM TypeCorrectness ==
    ASSUME NumBlocks < BlockModulus
    PROVE  Spec => []TypeOK
<1>1. IInv => TypeOK
  BY DEF IInv
<1> QED
  BY <1>1, Invariance, PTL

\* The writer and what it has stored: there is one as soon as anything is.
LEMMA WriterFacts ==
    ASSUME IInv, NEW i \in DOMAIN stored
    PROVE  \E p \in Writers :
              /\ conn[p].peer \in Clients /\ stored[i].from = conn[p].peer
              /\ IsChunk(stored[i], i) \/ IsTorn(stored[i], i)
              /\ stored[i] \in Stored /\ i \in Nat \ {0} /\ i <= Len(stored)
<1>1. stored[i] \in Stored /\ i \in Nat \ {0} /\ i <= Len(stored)
  BY ElementOfStored DEF IInv, TypeOK, Stored
<1>2. stored # <<>>
  OBVIOUS
<1>3. PICK p \in Writers : TRUE
  BY <1>2 DEF IInv, ConnInv
<1> QED
  BY <1>1, <1>3 DEF IInv, ConnInv, StoredInv

\* write_connection and receive_loop never mix the files of two clients, and
\* never store a wrong, repeated or skipped chunk.
THEOREM Integrity ==
    ASSUME NumBlocks < BlockModulus
    PROVE  Spec => []StoredIsPrefix
<1>1. IInv => StoredIsPrefix
  <2> SUFFICES ASSUME IInv, NEW i \in DOMAIN stored
               PROVE  /\ stored[i].from = stored[1].from /\ stored[i].chunk = i
                      /\ \/ stored[i].size = ChunkLen(i)
                         \/ /\ i = Len(stored) /\ stored[i].size = 0
                            /\ CutShort(stored[i].from)
                         \/ /\ i = Len(stored) /\ stored[i].size < ChunkLen(i)
                            /\ WriteFailed(stored[i].from)
    BY DEF StoredIsPrefix
  <2>1. /\ stored[i].chunk = i /\ stored[i].from \in Clients
        /\ \/ stored[i].size = ChunkLen(i)
           \/ stored[i].size = 0 /\ NothingAfter(i, stored[i].from)
           \/ stored[i].size < ChunkLen(i) /\ WriteFailed(stored[i].from)
    <3>1. PICK p \in Writers :
            /\ conn[p].peer \in Clients /\ stored[i].from = conn[p].peer
            /\ IsChunk(stored[i], i) \/ IsTorn(stored[i], i)
      BY WriterFacts
    <3>2. BrokeOff(i) => WriteFailed(conn[p].peer)
      BY <3>1 DEF BrokeOff, WriteFailed, Writers
    <3> QED
      BY <3>1, <3>2 DEF IsChunk, IsTorn
  <2>2. stored[i].size # ChunkLen(i) => i = Len(stored)
    BY DEF IInv, StoredInv
  <2>3. stored[i].from = stored[1].from
    <3>1. 1 \in DOMAIN stored
      BY WriterFacts DEF IInv, TypeOK
    <3> QED
      BY <3>1, WriterFacts DEF IInv, ConnInv
  <2> QED
    BY <2>1, <2>2, <2>3 DEF NothingAfter, CutShort
<1> QED
  BY <1>1, Invariance, PTL

\* A client and the connection it has found stay within one block.
THEOREM StopAndWait ==
    ASSUME NumBlocks < BlockModulus
    PROVE  Spec => []LockStep
<1>1. IInv => LockStep
  BY ServerFacts DEF IInv, ConnInv, LockStep
<1> QED
  BY <1>1, Invariance, PTL

\* The stored file is that of the client of the writer once all its chunks
\* are there, its reads went well, and so did the last write.
LEMMA WholeFile ==
    ASSUME IInv, NEW p \in Writers, Len(stored) = NumBlocks,
           ~CutShort(conn[p].peer), ~BrokeOff(NumBlocks)
    PROVE  stored = FileOf(conn[p].peer)
<1>1. /\ stored \in Seq(Stored) /\ NumBlocks \in Nat
      /\ DOMAIN stored = 1 .. NumBlocks
  BY ChunkLenFacts DEF IInv, TypeOK, Stored
<1>2. ASSUME NEW i \in 1 .. NumBlocks
      PROVE  stored[i] = [from |-> conn[p].peer, chunk |-> i,
                          size |-> ChunkLen(i)]
  <2>1. i \in DOMAIN stored
    BY <1>1
  <2>2. /\ stored[i] \in Stored /\ stored[i].from = conn[p].peer
        /\ conn[p].peer \in Clients
        /\ IsChunk(stored[i], i) \/ IsTorn(stored[i], i)
    BY <2>1, WriterFacts DEF IInv, ConnInv
  <2>3. stored[i].chunk = i /\ stored[i].size = ChunkLen(i)
    BY <2>2 DEF IsChunk, IsTorn, BrokeOff, NothingAfter, CutShort
  <2> QED
    BY <2>2, <2>3 DEF Stored
<1> QED
  BY <1>1, <1>2 DEF FileOf

\* When write_connection returns without an error the file on the server is
\* that of its client, unless the client met a read error.
THEOREM ServerSuccessIsTrue ==
    ASSUME NumBlocks < BlockModulus
    PROVE  Spec => []ServerSuccess
<1>1. IInv => ServerSuccess
  <2> SUFFICES ASSUME IInv, NEW p \in Ports, conn[p].pc = "ok",
                      ~CutShort(conn[p].peer)
               PROVE  stored = FileOf(conn[p].peer)
    BY DEF ServerSuccess
  <2>1. p \in Writers
    BY DEF Writers
  <2>2. Len(stored) = NumBlocks /\ ~BrokeOff(NumBlocks)
    BY <2>1 DEF IInv, ConnInv, BrokeOff
  <2> QED
    BY <2>1, <2>2, WholeFile
<1> QED
  BY <1>1, Invariance, PTL

\* When write_client returns without an error its file is on the server, all
\* of it.  An empty file is the exception: it is never sent.
THEOREM ClientSuccessIsTrue ==
    ASSUME NumBlocks < BlockModulus, FullChunks + TailSize > 0
    PROVE  Spec => []ClientSuccess
<1>1. IInv => ClientSuccess
  <2> SUFFICES ASSUME IInv, NEW c \in Clients, client[c].pc = "ok"
               PROVE  stored = FileOf(c)
    BY DEF ClientSuccess
  <2>1. server[c] # NoPort
    BY DEF IInv, ClientInv, ClientAt
  <2>2. /\ server[c] \in Writers /\ conn[server[c]].peer = c
        /\ client[c].chunk \in {Len(stored), Len(stored) + 1}
        /\ StreamOf(client[c]) /\ client[c] \in Senders
    BY <2>1, ServerFacts DEF IInv, TypeOK
  <2>3. client[c].stream = "eof" /\ client[c].chunk = NumBlocks + 1
    BY <2>2, OkIsAtEnd
  <2>4. Len(stored) = NumBlocks
    <3>1. Len(stored) <= NumBlocks /\ Len(stored) \in Nat /\ NumBlocks \in Nat
      BY ChunkLenFacts DEF IInv, StoredInv, TypeOK
    <3> QED
      BY <2>2, <2>3, <3>1
  <2>5. ~CutShort(c) /\ ~BrokeOff(NumBlocks)
    <3>1. ~ (NumBlocks + 1 <= NumBlocks)
      BY ChunkLenFacts
    <3> QED
      BY <2>2, <2>3, <3>1 DEF CutShort, BrokeOff
  <2> QED
    BY <2>2, <2>4, <2>5, WholeFile
<1> QED
  BY <1>1, Invariance, PTL

-----------------------------------------------------------------------------
(***************************************************************************)
(* TftpWrite implements FileTransfer, for every number of clients and      *)
(* connections, every set of faults and every file that is not empty and   *)
(* has fewer blocks than there are block numbers.  The transfer is that    *)
(* between the writer and its client; what the other connections and       *)
(* clients do is a stutter.                                                *)
(***************************************************************************)

\* The writer and the three views of the abstract transfer, by its name.
LEMMA ViewFacts ==
    ASSUME IInv, NEW p \in Writers
    PROVE  /\ Writer = p /\ p \in Ports /\ conn[p].peer \in Clients
           /\ Delivered = conn[p].cur
           /\ SenderReport = ReportOfSender(client[conn[p].peer])
           /\ ReceiverReport = ReportOfReceiver(conn[p])
<1>1. Writer = p
  BY DEF Writer, IInv, ConnInv
<1> QED
  BY <1>1 DEF Delivered, SenderReport, ReceiverReport, IInv, ConnInv, Writers

\* The views after a step that leaves the writer the same.
LEMMA ViewFactsAfter ==
    ASSUME IInv, Writers' = Writers, NEW p \in Writers
    PROVE  /\ Delivered' = conn'[p].cur
           /\ SenderReport' = ReportOfSender(client'[conn'[p].peer])
           /\ ReceiverReport' = ReportOfReceiver(conn'[p])
<1>1. Writer' = p
  BY DEF Writer, IInv, ConnInv
<1> QED
  BY <1>1 DEF Delivered, SenderReport, ReceiverReport

\* The reports of a connection, one at a time.
LEMMA ReceiverReportFacts ==
    ASSUME NEW r
    PROVE  /\ ReportOfReceiver(r) \in {"open", "failed", "done"}
           /\ ReportOfReceiver(r) = "done" <=> r.pc = "ok"
           /\ ReportOfReceiver(r) = "failed" <=> r.pc \in {"failed", "stopped"}
BY DEF ReportOfReceiver

\* A step of a client is a report of the sender or a stutter, if the client
\* takes nothing back.
LEMMA SenderStep ==
    ASSUME FullChunks + TailSize > 0, IInv, IInv', UNCHANGED conn,
           NEW c \in Clients, NEW s, client' = [client EXCEPT ![c] = s],
           \/ ReportOfSender(client[c]) = "open"
           \/ ReportOfSender(s) = ReportOfSender(client[c])
    PROVE  [Transfer!Next]_(Transfer!vars)
<1>1. /\ client'[c] = s
      /\ \A d \in Clients : d # c => client'[d] = client[d]
  BY DEF IInv, TypeOK
<1>2. Writers' = Writers
  BY DEF Writers
<1>3. CASE Writers = {}
  BY <1>2, <1>3 DEF Delivered, SenderReport, ReceiverReport, Transfer!vars
<1>4. ASSUME NEW p \in Writers
      PROVE  [Transfer!Next]_(Transfer!vars)
  <2>1. /\ Delivered' = Delivered /\ Delivered = conn[p].cur
        /\ ReceiverReport' = ReceiverReport
        /\ SenderReport = ReportOfSender(client[conn[p].peer])
        /\ SenderReport' = ReportOfSender(client'[conn[p].peer])
    BY <1>2, ViewFacts, ViewFactsAfter
  <2>2. CASE SenderReport' = SenderReport
    BY <2>1, <2>2 DEF Transfer!vars
  <2>3. CASE SenderReport' # SenderReport
    <3>1. conn[p].peer = c
      BY <1>1, <2>1, <2>3, ViewFacts
    <3>2. SenderReport = "open" /\ SenderReport' \in {"cut", "failed", "done"}
      BY <1>1, <2>1, <2>3, <3>1, ReportFacts
    <3>3. ASSUME SenderReport' = "done"
          PROVE  Delivered = NumBlocks
      <4>1. client'[c].pc = "ok"
        BY <2>1, <3>1, <3>3, ReportFacts
      <4>2. /\ client'[c].chunk \in {Len(stored'), Len(stored') + 1}
            /\ StreamOf(client'[c]) /\ client'[c] \in Senders
        BY <4>1 DEF IInv, TypeOK, ClientInv, ClientAt, StreamOf
      <4>3. client'[c].chunk = NumBlocks + 1
        BY <4>1, <4>2, OkIsAtEnd
      <4>4. Len(stored') <= NumBlocks /\ Len(stored') \in Nat /\ NumBlocks \in Nat
        BY ChunkLenFacts DEF IInv, StoredInv, TypeOK
      <4>5. Len(stored') = NumBlocks
        BY <4>2, <4>3, <4>4
      <4>6. conn'[p].cur = Len(stored')
        BY <1>2 DEF IInv, ConnInv
      <4> QED
        BY <2>1, <4>5, <4>6
    <3> QED
      BY <2>1, <3>2, <3>3
         DEF Transfer!Next, Transfer!SenderEnds, Transfer!SenderSucceeds
  <2> QED
    BY <2>2, <2>3
<1> QED
  BY <1>3, <1>4

\* A step in which the writer, if there is one, stays what it is, writes a
\* chunk, or ends.
LEMMA ReceiverStep ==
    ASSUME IInv, IInv', UNCHANGED client, Writers' = Writers,
           \A p \in Writers :
              /\ conn'[p].peer = conn[p].peer
              /\ \/ conn'[p].pc = conn[p].pc /\ conn'[p].cur = conn[p].cur
                 \/ /\ conn[p].pc = "receiving"
                    /\ conn'[p].pc \in {"failed", "stopped"}
                    /\ conn'[p].cur = conn[p].cur
                 \/ /\ conn[p].pc = "receiving" /\ conn'[p].pc = "ok"
                    /\ conn[p].lastSeen /\ conn'[p].cur = conn[p].cur
                 \/ /\ conn[p].pc = "receiving"
                    /\ conn'[p].pc \in {"receiving", "failed"}
                    /\ conn'[p].cur = conn[p].cur + 1
    PROVE  [Transfer!Next]_(Transfer!vars)
<1>1. CASE Writers = {}
  BY <1>1 DEF Delivered, SenderReport, ReceiverReport, Transfer!vars
<1>2. ASSUME NEW p \in Writers
      PROVE  [Transfer!Next]_(Transfer!vars)
  <2>1. /\ Delivered = conn[p].cur /\ Delivered' = conn'[p].cur
        /\ SenderReport' = SenderReport
        /\ SenderReport = ReportOfSender(client[conn[p].peer])
        /\ ReceiverReport = ReportOfReceiver(conn[p])
        /\ ReceiverReport' = ReportOfReceiver(conn'[p])
    BY ViewFacts, ViewFactsAfter
  <2>2. CASE conn'[p].pc = conn[p].pc /\ conn'[p].cur = conn[p].cur
    BY <2>1, <2>2 DEF Transfer!vars, ReportOfReceiver
  <2>3. CASE /\ conn[p].pc = "receiving" /\ conn'[p].pc \in {"failed", "stopped"}
             /\ conn'[p].cur = conn[p].cur
    <3>1. ReceiverReport = "open" /\ ReceiverReport' = "failed"
      BY <2>1, <2>3 DEF ReportOfReceiver
    <3> QED
      BY <2>1, <2>3, <3>1
         DEF Transfer!Next, Transfer!ReceiverFails, Transfer!SenderStays
  <2>4. CASE /\ conn[p].pc = "receiving" /\ conn'[p].pc = "ok"
             /\ conn[p].lastSeen /\ conn'[p].cur = conn[p].cur
    <3>1. ReceiverReport = "open" /\ ReceiverReport' = "done"
      BY <2>1, <2>4 DEF ReportOfReceiver
    <3>2. conn[p].cur = NumBlocks \/ CutShort(conn[p].peer)
      BY <2>4 DEF IInv, ConnInv
    <3>3. CutShort(conn[p].peer) => SenderReport = "cut"
      <4> DEFINE c == conn[p].peer
      <4> SUFFICES ASSUME CutShort(c) PROVE SenderReport = "cut"
        OBVIOUS
      <4>1. c \in Clients /\ client[c].stream = "bad"
        BY DEF CutShort
      <4>2. client[c].pc # "ok"
        BY <4>1 DEF IInv, ClientInv, ClientAt, StreamOf
      <4> QED
        BY <2>1, <4>1, <4>2, ReportFacts
    <3> QED
      BY <2>1, <2>4, <3>1, <3>2, <3>3 DEF Transfer!Next, Transfer!ReceiverSucceeds
  <2>5. CASE /\ conn[p].pc = "receiving" /\ conn'[p].pc \in {"receiving", "failed"}
             /\ conn'[p].cur = conn[p].cur + 1
    <3>1. ReceiverReport = "open" /\ ReceiverReport' \in {"open", "failed"}
      BY <2>1, <2>5 DEF ReportOfReceiver
    <3>2. Delivered < NumBlocks /\ Delivered' = Delivered + 1
      <4>1. conn'[p].cur = Len(stored') /\ Len(stored') <= NumBlocks
        BY DEF IInv, ConnInv, StoredInv
      <4>2. conn[p].cur \in Nat
        BY DEF IInv, ConnInv, TypeOK
      <4> QED
        BY <2>1, <2>5, <4>1, <4>2, ChunkLenFacts
    <3> QED
      BY <2>1, <3>1, <3>2 DEF Transfer!Next, Transfer!Deliver, Transfer!SenderStays
  <2> QED
    BY <2>2, <2>3, <2>4, <2>5
<1> QED
  BY <1>1, <1>2

\* The creation of the file: its client, which had not yet been found, counts
\* as the sender from now on.
LEMMA WriterStep ==
    ASSUME IInv, ~present, NEW p \in Ports, NEW c \in Clients, NEW r \in Conns,
           r.pc \in {"receiving", "failed"}, r.peer = c, r.cur = 0,
           conn' = [conn EXCEPT ![p] = r], UNCHANGED client
    PROVE  [Transfer!Next]_(Transfer!vars)
<1>1. /\ Writers = {} /\ conn'[p] = r
      /\ \A q \in Ports : q # p => conn'[q] = conn[q]
  BY DEF IInv, ConnInv, TypeOK
<1>2. Writers' = {p}
  BY <1>1 DEF Writers
<1>3. Delivered = 0 /\ SenderReport = "open" /\ ReceiverReport = "open"
  BY <1>1 DEF Delivered, SenderReport, ReceiverReport
<1>4. Writer' = p
  BY <1>2 DEF Writer
<1>5. /\ Delivered' = 0 /\ SenderReport' = ReportOfSender(client[c])
      /\ ReceiverReport' = ReportOfReceiver(r)
  BY <1>1, <1>2, <1>4 DEF Delivered, SenderReport, ReceiverReport
<1>6. ReceiverReport' \in {"open", "failed"}
  BY <1>5, ReceiverReportFacts
<1>7. SenderReport' \in {"open", "failed"}
  <2>1. client[c].stream = "good" /\ client[c].pc # "ok"
    BY <1>1 DEF IInv, ClientInv, ClientAt
  <2> QED
    BY <1>5, <2>1, ReportFacts
<1>8. CASE ReceiverReport' = "failed"
  BY <1>3, <1>5, <1>7, <1>8
     DEF Transfer!Next, Transfer!ReceiverFails, Transfer!SenderStays
<1>9. CASE ReceiverReport' = "open"
  BY <1>3, <1>5, <1>7, <1>9 DEF Transfer!Next, Transfer!SenderEnds, Transfer!vars
<1> QED
  BY <1>6, <1>8, <1>9

-----------------------------------------------------------------------------
\* Every step of a client is a step of the abstract transfer.
LEMMA ClientRefines ==
    ASSUME FullChunks + TailSize > 0, IInv, IInv', NEW c \in Clients, ClientNext(c)
    PROVE  [Transfer!Next]_(Transfer!vars)
<1>0. client[c] \in Senders /\ client \in [Clients -> Senders] /\ UNCHANGED conn
  BY DEF IInv, TypeOK, ClientNext, ClientLoop, SendRequest, ResponseTimeout,
         ResponseUnusable, ResponseAck, ClientTimeout, ClientRejects,
         ClientIgnores, ClientAdvances, ClientWatchdog, ClientInterrupted, ServerSame
<1>1. CASE client[c].pc \in {"idle", "waiting"}
  <2>1. ReportOfSender(client[c]) = "open"
    <3>1. client[c].stream = "good"
      BY <1>1 DEF IInv, ClientInv, ClientAt
    <3> QED
      BY <1>1, <3>1, ReportFacts
  <2>2. \E s : client' = [client EXCEPT ![c] = s]
    BY <1>1 DEF ClientNext, ClientLoop, SendRequest, ResponseTimeout,
                ResponseUnusable, ResponseAck, ClientContinues, ClientTimeout,
                ClientRejects, ClientIgnores, ClientAdvances, ClientWatchdog,
                ClientInterrupted
  <2> QED
    BY <1>0, <2>1, <2>2, SenderStep
<1>2. CASE ClientLoop(c)
  <2>1. /\ client[c].pc = "sending"
        /\ \E s \in SenderTop(client[c]) \cup SenderAfterAck(client[c]) :
              client' = [client EXCEPT ![c] = s]
    BY <1>2 DEF ClientLoop, ClientTimeout, ClientRejects, ClientIgnores,
                ClientAdvances, ClientContinues
  <2>2. StreamOf(client[c])
    BY <2>1 DEF IInv, ClientInv, ClientAt
  <2> QED
    BY <1>0, <2>1, <2>2, ReportIsFinal, SenderStep
<1>3. CASE ClientWatchdog(c) \/ (ClientInterrupted(c) /\ client[c].pc = "sending")
  <2>1. PICK s : /\ client' = [client EXCEPT ![c] = s]
                 /\ s.stream = client[c].stream
                 /\ s.pc \in {client[c].pc, "stopped"}
                 /\ client[c].pc = "sending"
    <3>1. CASE ClientWatchdog(c)
      <4> DEFINE s == [client[c] EXCEPT !.expired = TRUE]
      <4>1. /\ client' = [client EXCEPT ![c] = s] /\ client[c].pc = "sending"
            /\ s.pc = client[c].pc /\ s.stream = client[c].stream
        BY <1>0, <3>1 DEF ClientWatchdog, Senders
      <4> QED
        BY <4>1
    <3>2. CASE ClientInterrupted(c) /\ client[c].pc = "sending"
      <4> DEFINE s == [client[c] EXCEPT !.pc = "stopped"]
      <4>1. /\ client' = [client EXCEPT ![c] = s]
            /\ s.pc = "stopped" /\ s.stream = client[c].stream
        BY <1>0, <3>2 DEF ClientInterrupted, Senders
      <4> QED
        BY <3>2, <4>1
    <3> QED
      BY <1>3, <3>1, <3>2
  <2>2. \/ ReportOfSender(client[c]) = "open"
        \/ ReportOfSender(s) = ReportOfSender(client[c])
    BY <2>1, ReportFacts
  <2> QED
    BY <1>0, <2>1, <2>2, SenderStep
<1>4. client[c].pc \in {"idle", "waiting"} \/ ClientLoop(c) \/ ClientWatchdog(c)
      \/ (ClientInterrupted(c) /\ client[c].pc = "sending")
  BY DEF ClientNext, SendRequest, ResponseTimeout, ResponseUnusable, ResponseAck,
         ClientInterrupted
<1> QED
  BY <1>1, <1>2, <1>3, <1>4

\* A step of one connection that is the writer or does not become it.
LEMMA ConnStep ==
    ASSUME IInv, IInv', UNCHANGED client,
           NEW p \in Ports, NEW s, conn' = [conn EXCEPT ![p] = s],
           \/ p \notin Writers /\ s.pc \in {"refused", "unopened"}
           \/ /\ conn[p].pc = "receiving" /\ s.peer = conn[p].peer
              /\ \/ /\ s.pc \in {"receiving", "failed"}
                    /\ s.cur \in {conn[p].cur, conn[p].cur + 1}
                 \/ s.pc = "ok" /\ conn[p].lastSeen /\ s.cur = conn[p].cur
    PROVE  [Transfer!Next]_(Transfer!vars)
<1>1. /\ conn'[p] = s
      /\ \A q \in Ports : q # p => conn'[q] = conn[q]
  BY DEF IInv, TypeOK
<1>2. Writers' = Writers
  BY <1>1 DEF Writers
<1>3. \A q \in Writers : q \in Ports /\ (q = p => conn[p].pc = "receiving")
  BY <1>1, <1>2 DEF Writers
<1> QED
  BY <1>1, <1>2, <1>3, ReceiverStep

\* Every step of a connection is a step of the abstract transfer.
LEMMA ConnRefines ==
    ASSUME NumBlocks < BlockModulus, IInv, IInv', NEW p \in Ports, ConnNext(p)
    PROVE  [Transfer!Next]_(Transfer!vars)
<1>0. conn[p] \in Conns
  BY DEF IInv, TypeOK
<1>1. CASE Accept(p)
  <2>1. PICK c \in Clients, rest \in SUBSET net :
          AcceptNew(p, c, rest) \/ AcceptExisting(p, c, rest)
    BY <1>1, AfterFacts DEF Accept
  <2>2. UNCHANGED client /\ p \notin Writers
    BY <1>1 DEF Accept, Writers, ClientSame
  <2> DEFINE new == [IdleConn EXCEPT !.peer = c]
  <2>3. new \in Conns /\ new.peer = c /\ new.cur = 0
    <3>1. new \in Conns
      BY IdleConnType DEF Conns
    <3> QED
      BY <3>1 DEF IdleConn
  <2>4. CASE ~present /\ ConnContinues(p, ReceiverTop(new), rest)
    <3>1. PICK s \in ReceiverTop(new) : conn' = [conn EXCEPT ![p] = s]
      BY <2>4 DEF ConnContinues
    <3>2. /\ s \in Conns /\ s.pc \in {"receiving", "failed"}
          /\ s.peer = c /\ s.cur = 0
      BY <2>3, <3>1, ReceiverFacts
    <3> HIDE DEF new
    <3> QED
      BY <2>2, <2>4, <3>1, <3>2, WriterStep
  <2>5. CASE \E pc \in {"refused", "unopened"} :
               conn' = [conn EXCEPT ![p] = [IdleConn EXCEPT !.peer = c, !.pc = pc]]
    <3>1. PICK pc \in {"refused", "unopened"} :
            conn' = [conn EXCEPT ![p] = [IdleConn EXCEPT !.peer = c, !.pc = pc]]
      BY <2>5
    <3> DEFINE s == [IdleConn EXCEPT !.peer = c, !.pc = pc]
    <3>2. s.pc = pc
      BY DEF IdleConn
    <3>3. conn' = [conn EXCEPT ![p] = s]
      BY <3>1
    <3> HIDE DEF s
    <3> QED
      BY <2>2, <3>2, <3>3, ConnStep
  <2> QED
    BY <2>1, <2>4, <2>5 DEF AcceptNew, AcceptExisting
<1>2. CASE ConnFinish(p)
  <2> DEFINE s == [conn[p] EXCEPT !.pc = "ok"]
  <2>1. s.pc = "ok" /\ s.peer = conn[p].peer /\ s.cur = conn[p].cur
    BY <1>0 DEF Conns
  <2>2. /\ conn' = [conn EXCEPT ![p] = s] /\ UNCHANGED client
        /\ conn[p].pc = "receiving" /\ conn[p].lastSeen
    BY <1>2 DEF ConnFinish, ClientSame
  <2> HIDE DEF s
  <2> QED
    BY <2>1, <2>2, ConnStep
<1>3. CASE ConnRepeats(p) \/ ConnIgnores(p)
  <2>1. PICK s \in ReceiverTop(conn[p]) : conn' = [conn EXCEPT ![p] = s]
    BY <1>3 DEF ConnRepeats, ConnIgnores, ConnContinues
  <2>2. UNCHANGED client /\ conn[p].pc = "receiving"
    BY <1>3 DEF ConnRepeats, ConnIgnores, ClientSame
  <2>3. /\ s.pc \in {"receiving", "failed"}
        /\ s.peer = conn[p].peer /\ s.cur = conn[p].cur
    BY <1>0, <2>1, ReceiverFacts
  <2> QED
    BY <2>1, <2>2, <2>3, ConnStep
<1>4. CASE ConnAccepts(p)
  <2>1. PICK m \in ToConn(p) :
          /\ IsNextData(m.op, m.block, conn[p].cur)
          /\ \E s \in ReceiverTop(AcceptedBy(p, m))
                      \cup {[AcceptedBy(p, m) EXCEPT !.pc = "failed"]} :
                conn' = [conn EXCEPT ![p] = s]
    BY <1>4 DEF ConnAccepts, ConnContinues
  <2>2. /\ m \in net /\ m.op = "data" /\ m.block = conn[p].cur + 1
        /\ conn[p].pc = "receiving" /\ UNCHANGED client
    BY <1>4, <2>1 DEF ConnAccepts, ToConn, IsNextData, ClientSame
  <2>3. m.size \in Sizes /\ m.block <= NumBlocks /\ NumBlocks \in Nat
    BY <2>2, DataFacts, ChunkLenFacts
  <2>4. NextBlock(conn[p].cur) = conn[p].cur + 1 /\ NextBlock(conn[p].cur) \in BlockNumbers
    <3>1. conn[p].cur \in BlockNumbers /\ conn[p].cur + 1 < BlockModulus
      BY <1>0, <2>2, <2>3, ModulusAssumption DEF Conns, BlockNumbers
    <3> QED
      BY <3>1, NextBlockFacts, ModulusAssumption DEF BlockNumbers
  <2>5. /\ AcceptedBy(p, m) \in Conns
        /\ AcceptedBy(p, m).peer = conn[p].peer
        /\ AcceptedBy(p, m).cur = conn[p].cur + 1
    BY <1>0, <2>4 DEF AcceptedBy, Conns
  <2>6. PICK s \in ReceiverTop(AcceptedBy(p, m))
                   \cup {[AcceptedBy(p, m) EXCEPT !.pc = "failed"]} :
          conn' = [conn EXCEPT ![p] = s]
    BY <2>1
  <2>7. /\ s.pc \in {"receiving", "failed"}
        /\ s.peer = conn[p].peer /\ s.cur = conn[p].cur + 1
    BY <2>5, <2>6, ReceiverFacts
  <2> QED
    BY <2>2, <2>6, <2>7, ConnStep
<1>5. CASE ConnWatchdog(p)
  <2> DEFINE s == [conn[p] EXCEPT !.expired = TRUE]
  <2>1. s.pc = conn[p].pc /\ s.peer = conn[p].peer /\ s.cur = conn[p].cur
    BY <1>0 DEF Conns
  <2>2. /\ conn' = [conn EXCEPT ![p] = s] /\ UNCHANGED client
        /\ conn[p].pc = "receiving"
    BY <1>5 DEF ConnWatchdog, ClientSame
  <2> HIDE DEF s
  <2> QED
    BY <2>1, <2>2, ConnStep
<1> QED
  BY <1>1, <1>2, <1>3, <1>4, <1>5 DEF ConnNext, ConnLoop

\* The end of the server is a failure of the receiving side or a stutter.
LEMMA StopRefines ==
    ASSUME IInv, IInv', ServerStops
    PROVE  [Transfer!Next]_(Transfer!vars)
<1>1. conn \in [Ports -> Conns] /\ UNCHANGED client
  BY DEF IInv, TypeOK, ServerStops
<1>2. \A p \in Ports :
        /\ conn'[p].peer = conn[p].peer /\ conn'[p].cur = conn[p].cur
        /\ \/ conn'[p].pc = conn[p].pc
           \/ conn[p].pc = "receiving" /\ conn'[p].pc = "stopped"
  <2>1. \A p \in Ports :
          conn'[p] = IF conn[p].pc = "receiving"
                     THEN [conn[p] EXCEPT !.pc = "stopped"] ELSE conn[p]
    BY DEF ServerStops
  <2> QED
    BY <1>1, <2>1 DEF Conns
<1>3. Writers' = Writers
  BY <1>2 DEF Writers
<1>4. \A p \in Writers : p \in Ports
  BY DEF Writers
<1> QED
  BY <1>1, <1>2, <1>3, <1>4, ReceiverStep

-----------------------------------------------------------------------------
\* An upload of a file that is not empty and whose block numbers do not wrap
\* does nothing that the abstract transfer does not allow, whatever other
\* clients and connections want the same name.
THEOREM Refinement ==
    ASSUME NumBlocks < BlockModulus, FullChunks + TailSize > 0
    PROVE  Spec => ImplementsTransfer
<1>1. Init => Transfer!Init
  <2> SUFFICES ASSUME Init PROVE Transfer!Init
    OBVIOUS
  <2>1. Writers = {}
    BY DEF Init, Writers, IdleConn
  <2> QED
    BY <2>1 DEF Transfer!Init, Delivered, SenderReport, ReceiverReport
<1>2. IInv /\ IInv' /\ [Next]_vars => [Transfer!Next]_(Transfer!vars)
  <2> SUFFICES ASSUME IInv, IInv', [Next]_vars
               PROVE  [Transfer!Next]_(Transfer!vars)
    OBVIOUS
  <2>1. CASE Lose \/ UNCHANGED vars
    <3>1. UNCHANGED <<client, conn>>
      BY <2>1 DEF Lose, vars
    <3>2. Writers' = Writers /\ Writer' = Writer
      BY <3>1 DEF Writers, Writer
    <3> QED
      BY <3>1, <3>2 DEF Delivered, SenderReport, ReceiverReport, Transfer!vars
  <2> QED
    BY <2>1, ClientRefines, ConnRefines, StopRefines DEF Next
<1> QED
  BY <1>1, <1>2, Invariance, PTL DEF Spec, ImplementsTransfer, Transfer!Spec
=============================================================================
