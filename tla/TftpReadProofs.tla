---------------------------- MODULE TftpReadProofs ----------------------------
(***************************************************************************)
(* IInv is an invariant of TftpRead, for every file, number of connections *)
(* and set of faults; the safety properties of TftpRead follow from it.    *)
(*                                                                         *)
(* The actions fall into a few kinds, each with a lemma of its own: steps  *)
(* that only move a pc, a repeated or a new acknowledgement, the first     *)
(* block, the start of a connection, a repeated block and the next block.  *)
(***************************************************************************)
EXTENDS TftpRead, TftpCommonProofs

\* The chunks of a written file have the type of its elements.
LEMMA ElementOfTarget ==
    ASSUME NEW S, NEW t \in Seq(S), NEW i \in 1 .. Len(t)
    PROVE  t[i] \in S
OBVIOUS

\* A file to which nothing was written is a sequence of chunks.
LEMMA EmptyTarget == <<>> \in Seq([chunk : Nat \ {0}, size : Sizes])
OBVIOUS

\* Initially nothing has been sent or written.
LEMMA InitIInv == Init => IInv
<1> SUFFICES ASSUME Init PROVE IInv
  OBVIOUS
<1> USE DEF Init
<1>1. TypeOK
  <2>1. NewClient \in Clients
    BY SizeAssumption, ModulusAssumption
       DEF NewClient, Clients, ClientPcs, BlockNumbers, Sizes
  <2> QED
    BY <2>1, EmptyTarget, IdleSenderType DEF TypeOK
<1>2. ClientInv
  BY ChunkLenFacts DEF ClientInv, NewClient
<1>3. ConnInv
  BY ModulusAssumption, PortsAssumption
     DEF ConnInv, IdleSender, Acked, Blocks, BlockOf, NewClient
<1>4. StreamInv
  BY DEF StreamInv, IdleSender
<1>5. AckInv /\ BlockInv /\ TargetInv
  BY DEF AckInv, BlockInv, TargetInv
<1> QED
  BY <1>1, <1>2, <1>3, <1>4, <1>5 DEF IInv

-----------------------------------------------------------------------------
\* A step that leaves the client's counters, the file and the connections
\* alone and sends neither data nor an acknowledgement.
LEMMA QuietStep ==
    ASSUME IInv,
           client' \in Clients, client'.cur = client.cur,
           client'.server = client.server, client'.last = client.last,
           client'.pc \in {"start", "response", "threw"} => client.server = NoPort,
           client'.pc \in {"receiving", "ok"} => client.server # NoPort,
           client'.pc = "ok" => client.last < ChunkSize,
           client.pc = "failed" => client'.pc = "failed",
           net' \subseteq net \cup {Request},
           UNCHANGED <<target, conn, disk, listening>>
    PROVE  IInv'
<1> USE DEF IInv
<1>1. TypeOK'
  BY DEF TypeOK, Packets, Request
<1>2. ClientInv'
  BY DEF ClientInv
<1>3. AckInv'
  BY DEF AckInv, Request
<1>4. \A p \in Ports : Blocks(p)' \subseteq Blocks(p)
  BY DEF Blocks, Request
<1>5. ConnInv'
  BY <1>4 DEF ConnInv, Acked
<1>6. StreamInv'
  BY DEF StreamInv
<1>7. \A i \in Nat, p \in Ports : NothingAfter(i, p) => NothingAfter(i, p)'
  BY <1>4 DEF NothingAfter
<1>8. BlockInv'
  <2> SUFFICES ASSUME NEW m \in net, m.op = "data"
               PROVE  /\ m.port \in Ports /\ m.chunk \in Nat
                      /\ m.chunk <= conn[m.port].chunk /\ m.chunk <= NumBlocks
                      /\ m.block = BlockOf(m.chunk)
                      /\ \/ m.size = ChunkLen(m.chunk)
                         \/ m.size = 0 /\ NothingAfter(m.chunk, m.port)
    BY <1>7 DEF BlockInv, Request
  <2> QED
    BY DEF BlockInv, TypeOK, Packets
<1>9. TargetInv'
  <2>1. DOMAIN target \subseteq Nat
    BY DEF TypeOK
  <2> QED
    BY <1>7, <2>1 DEF TargetInv
<1> QED
  BY <1>1, <1>2, <1>3, <1>5, <1>6, <1>8, <1>9

\* The data under way can only become fewer: where this is so, what no longer
\* comes after a block still does not.
LEMMA NothingAfterKept ==
    ASSUME TypeOK, NEW i \in Nat, NEW p \in Ports, NothingAfter(i, p),
           Blocks(p)' \subseteq Blocks(p), conn'[p] = conn[p]
    PROVE  NothingAfter(i, p)'
BY DEF NothingAfter

\* The top of receive_loop only sets the pc.
LEMMA ReceiverTopFacts ==
    ASSUME NEW r \in Clients, NEW c \in ReceiverTop(r)
    PROVE  /\ c \in Clients /\ c.pc \in {"receiving", "failed"}
           /\ c.cur = r.cur /\ c.server = r.server /\ c.last = r.last
BY DEF ReceiverTop, Clients, ClientPcs

\* After a write, receive_loop only sets the pc as well.
LEMMA ReceiverAfterWriteFacts ==
    ASSUME NEW r \in Clients, NEW c \in ReceiverAfterWrite(r)
    PROVE  /\ c \in Clients /\ c.pc \in {"receiving", "failed"}
           /\ c.cur = r.cur /\ c.server = r.server /\ c.last = r.last
<1>1. CASE c \in ReceiverTop(r)
  BY <1>1, ReceiverTopFacts
<1>2. CASE c = [r EXCEPT !.pc = "failed"]
  BY <1>2 DEF Clients, ClientPcs
<1> QED
  BY <1>1, <1>2 DEF ReceiverAfterWrite

-----------------------------------------------------------------------------
\* The client repeats its acknowledgement, or fails trying.
LEMMA ClientRepeats ==
    ASSUME IInv, client.pc = "receiving",
           NEW rest, rest \subseteq net \cup {UnknownId(p) : p \in Ports},
           ClientContinues(ReceiverTop(client), rest, target), ServerSame
    PROVE  IInv'
<1> USE DEF IInv, ServerSame
<1>1. PICK c \in ReceiverTop(client) :
        /\ client' = c /\ target' = TargetOf(c, target)
        /\ net' = rest \cup
                  (IF c.pc = "receiving" THEN {Ack(c.server, c.cur)} ELSE {})
  BY DEF ClientContinues
<1>2. /\ client' \in Clients /\ client'.pc \in {"receiving", "failed"}
      /\ client'.cur = client.cur /\ client'.server = client.server
      /\ client'.last = client.last
  BY <1>1, ReceiverTopFacts DEF TypeOK
<1>3. /\ client.server \in Ports /\ client.cur \in BlockNumbers \ {0}
      /\ client.cur \in Nat
  BY DEF TypeOK, Clients, ClientInv, BlockNumbers
<1>4. /\ net' \subseteq net \cup {UnknownId(p) : p \in Ports}
                           \cup {Ack(client.server, client.cur)}
      /\ \/ target' = target
         \/ client'.pc = "failed" /\ target' = <<>>
  BY <1>1, <1>2 DEF TargetOf
<1>5. TypeOK'
  <2>1. net' \subseteq Packets
    BY <1>3, <1>4 DEF TypeOK, Packets, UnknownId, Ack
  <2>2. target' \in Seq([chunk : Nat \ {0}, size : Sizes])
    BY <1>4, EmptyTarget DEF TypeOK
  <2> QED
    BY <1>2, <2>1, <2>2 DEF TypeOK
<1>6. ClientInv'
  BY <1>2, <1>4 DEF ClientInv
<1>7. AckInv'
  BY <1>2, <1>3, <1>4 DEF AckInv, Ack, UnknownId
<1>8. \A p \in Ports : Blocks(p)' \subseteq Blocks(p)
  BY <1>4 DEF Blocks, UnknownId, Ack
<1>9. ConnInv'
  BY <1>2, <1>8 DEF ConnInv, Acked
<1>10. StreamInv'
  BY DEF StreamInv
<1>11. BlockInv'
  <2> SUFFICES ASSUME NEW m \in net', m.op = "data"
               PROVE  /\ m.chunk <= conn'[m.port].chunk /\ m.chunk <= NumBlocks
                      /\ m.block = BlockOf(m.chunk)
                      /\ \/ m.size = ChunkLen(m.chunk)
                         \/ m.size = 0 /\ NothingAfter(m.chunk, m.port)'
    BY DEF BlockInv
  <2>1. m \in net
    BY <1>4 DEF UnknownId, Ack
  <2>2. m.port \in Ports /\ m.chunk \in Nat
    BY <2>1 DEF TypeOK, Packets
  <2> QED
    BY <1>8, <2>1, <2>2, NothingAfterKept DEF BlockInv
<1>12. TargetInv'
  <2> SUFFICES ASSUME NEW i \in DOMAIN target, target' = target
               PROVE  /\ target[i].chunk = i
                      /\ \/ target[i].size = ChunkLen(i)
                         \/ /\ i = Len(target) /\ target[i].size = 0
                            /\ client.server \in Ports
                            /\ NothingAfter(i, client.server)'
    BY <1>2, <1>4 DEF TargetInv
  <2>1. i \in Nat
    BY DEF TypeOK
  <2> QED
    BY <1>2, <1>8, <2>1, NothingAfterKept DEF TargetInv
<1> QED
  BY <1>5, <1>6, <1>7, <1>9, <1>10, <1>11, <1>12

-----------------------------------------------------------------------------
\* What IInv says of a data packet under way.
LEMMA DataFacts ==
    ASSUME IInv, NEW m \in net, m.op = "data"
    PROVE  /\ m.port \in Ports /\ m.chunk \in Nat \ {0} /\ m.size \in Sizes
           /\ m.block \in BlockNumbers /\ m.block = BlockOf(m.chunk)
           /\ m.chunk <= NumBlocks /\ m.chunk <= conn[m.port].chunk
           /\ conn[m.port].chunk <= Acked(m.port) + 1
           /\ \/ m.size = ChunkLen(m.chunk)
              \/ m.size = 0 /\ NothingAfter(m.chunk, m.port)
<1>1. /\ m.port \in Ports /\ m.chunk \in Nat \ {0} /\ m.size \in Sizes
      /\ m.block \in BlockNumbers
  BY DEF IInv, TypeOK, Packets
<1>2. conn[m.port].chunk \in Nat /\ Acked(m.port) \in Nat
  BY <1>1 DEF IInv, TypeOK, Senders, Clients, BlockNumbers, Acked
<1> QED
  BY <1>1, <1>2 DEF IInv, BlockInv, ConnInv

\* The block that the client takes for the next one is the next chunk.
LEMMA AcceptedIsNext ==
    ASSUME IInv, NEW m \in net, m.op = "data", client.pc = "receiving",
           m.port = client.server, IsNextData(m.op, m.block, client.cur)
    PROVE  /\ m.chunk = client.cur + 1
           /\ NextBlock(client.cur) = client.cur + 1
<1>1. client.cur \in BlockNumbers /\ client.cur \in Nat
  BY DEF IInv, TypeOK, Clients, BlockNumbers
<1>2. m.block = client.cur + 1 /\ m.block \in BlockNumbers
  BY DataFacts DEF IsNextData
<1>3. m.chunk <= client.cur + 1 /\ m.chunk \in Nat \ {0}
  <2>1. m.chunk <= conn[m.port].chunk /\ conn[m.port].chunk <= Acked(m.port) + 1
        /\ m.port \in Ports /\ m.chunk \in Nat \ {0}
    BY DataFacts
  <2>2. conn[m.port].chunk \in Nat
    BY <2>1 DEF IInv, TypeOK, Senders
  <2> QED
    BY <1>1, <2>1, <2>2 DEF Acked
<1>4. NextBlock(client.cur) = client.cur + 1
  BY <1>1, <1>2, NextBlockFacts, ModulusAssumption DEF BlockNumbers
<1>5. m.chunk = client.cur + 1
  BY <1>1, <1>2, <1>3, DataFacts, ModulusAssumption DEF BlockOf, BlockNumbers
<1> QED
  BY <1>4, <1>5

\* The file grows by the chunk with the next number; the first block fixes
\* the server, any later one comes from it.
LEMMA ClientWrites ==
    ASSUME IInv,
           NEW m \in net, m.op = "data", m.chunk = client.cur + 1,
           m.chunk \in BlockNumbers,
           client.pc \in {"response", "receiving"},
           client.pc = "receiving" => m.port = client.server,
           NEW rest, rest \subseteq net, NEW r \in Clients,
           r.cur = m.chunk, r.server = m.port, r.last = m.size,
           ClientContinues(ReceiverAfterWrite(r), rest,
                           Append(target, [chunk |-> m.chunk, size |-> m.size])),
           ServerSame
    PROVE  IInv'
<1> DEFINE e == [chunk |-> m.chunk, size |-> m.size]
<1> USE DEF IInv, ServerSame
<1>1. PICK c \in ReceiverAfterWrite(r) :
        /\ client' = c /\ target' = TargetOf(c, Append(target, e))
        /\ net' = rest \cup
                  (IF c.pc = "receiving" THEN {Ack(c.server, c.cur)} ELSE {})
  BY DEF ClientContinues
<1>2. /\ client' \in Clients /\ client'.pc \in {"receiving", "failed"}
      /\ client'.cur = client.cur + 1 /\ client'.server = m.port
      /\ client'.last = m.size
  BY <1>1, ReceiverAfterWriteFacts
<1>3. /\ client.cur \in Nat /\ client.cur \in BlockNumbers
      /\ m.port \in Ports /\ m.size \in Sizes /\ m.chunk \in Nat \ {0}
      /\ m.chunk <= NumBlocks
  BY DataFacts DEF TypeOK, Clients, BlockNumbers
<1>4. /\ net' \subseteq net \cup {Ack(m.port, client.cur + 1)}
      /\ \/ client'.pc = "receiving" /\ target' = Append(target, e)
         \/ client'.pc = "failed" /\ target' = <<>>
  BY <1>1, <1>2 DEF TargetOf
<1>5. client.cur = 0 \/ m.port = client.server
  BY DEF ClientInv
<1>6. e \in [chunk : Nat \ {0}, size : Sizes] /\ e.chunk = m.chunk /\ e.size = m.size
  BY <1>3
<1>7. /\ target \in Seq([chunk : Nat \ {0}, size : Sizes])
      /\ Len(target) = client.cur
  BY DEF TypeOK, ClientInv
<1>8. LET t == Append(target, e)
      IN  /\ t \in Seq([chunk : Nat \ {0}, size : Sizes])
          /\ Len(t) = client.cur + 1
          /\ t[client.cur + 1] = e
          /\ \A i \in 1 .. client.cur : t[i] = target[i]
          /\ DOMAIN t = 1 .. (client.cur + 1)
  BY <1>3, <1>6, <1>7
<1> HIDE DEF e
<1>9. TypeOK'
  <2>1. net' \subseteq Packets
    BY <1>3, <1>4 DEF TypeOK, Packets, Ack
  <2>2. target' \in Seq([chunk : Nat \ {0}, size : Sizes])
    BY <1>4, <1>8, EmptyTarget
  <2> QED
    BY <1>2, <2>1, <2>2 DEF TypeOK
<1>10. ClientInv'
  BY <1>2, <1>3, <1>4, <1>6, <1>8, PortsAssumption DEF ClientInv
<1>11. AckInv'
  <2> SUFFICES ASSUME NEW a \in net', a.op = "ack"
               PROVE  a.port = m.port /\ a.block \in 1 .. (client.cur + 1)
    BY <1>2 DEF AckInv
  <2>1. CASE a = Ack(m.port, client.cur + 1)
    BY <1>3, <2>1 DEF Ack
  <2>2. CASE a \in net
    BY <1>3, <1>5, <2>2 DEF AckInv
  <2> QED
    BY <1>4, <2>1, <2>2
<1>12. \A p \in Ports : Blocks(p)' \subseteq Blocks(p)
  BY <1>4 DEF Blocks, Ack
<1>13. ConnInv'
  <2> SUFFICES ASSUME NEW p \in Ports
               PROVE  conn[p].chunk \in {Acked(p)', Acked(p)' + 1}
    BY <1>12 DEF ConnInv
  <2>1. CASE p = m.port
    <3>1. Acked(p)' = client.cur + 1
      BY <1>2, <2>1 DEF Acked
    <3>2. conn[p].chunk \in Nat /\ conn[p].chunk >= client.cur + 1
      BY <1>3, <2>1, DataFacts DEF TypeOK, Senders
    <3>3. Acked(p) = client.cur
      BY <1>3, <1>5, <2>1 DEF Acked
    <3> QED
      BY <1>3, <3>1, <3>2, <3>3 DEF ConnInv
  <2>2. CASE p # m.port
    BY <1>2, <1>5, <2>2 DEF ConnInv, Acked
  <2> QED
    BY <2>1, <2>2
<1>14. StreamInv'
  BY DEF StreamInv
<1>15. BlockInv'
  <2> SUFFICES ASSUME NEW d \in net', d.op = "data"
               PROVE  /\ d.chunk <= conn'[d.port].chunk /\ d.chunk <= NumBlocks
                      /\ d.block = BlockOf(d.chunk)
                      /\ \/ d.size = ChunkLen(d.chunk)
                         \/ d.size = 0 /\ NothingAfter(d.chunk, d.port)'
    BY DEF BlockInv
  <2>1. d \in net
    BY <1>4 DEF Ack
  <2>2. d.port \in Ports /\ d.chunk \in Nat
    BY <2>1 DEF TypeOK, Packets
  <2> QED
    BY <1>12, <2>1, <2>2, NothingAfterKept DEF BlockInv
<1>16. TargetInv'
  <2> SUFFICES ASSUME NEW i \in 1 .. (client.cur + 1), client'.pc = "receiving",
                      target' = Append(target, e)
               PROVE  /\ target'[i].chunk = i
                      /\ \/ target'[i].size = ChunkLen(i)
                         \/ /\ i = client.cur + 1 /\ target'[i].size = 0
                            /\ NothingAfter(i, m.port)'
    BY <1>2, <1>3, <1>4, <1>8 DEF TargetInv
  <2>1. CASE i = client.cur + 1
    BY <1>3, <1>6, <1>8, <1>12, <2>1, DataFacts, NothingAfterKept
  <2>2. CASE i # client.cur + 1
    <3>1. i \in 1 .. client.cur /\ i \in DOMAIN target /\ i \in Nat
      BY <1>3, <1>7, <2>2
    <3>2. target'[i] = target[i]
      BY <1>8, <3>1
    <3>3. ~ NothingAfter(i, m.port)
      <4>1. m \in Blocks(m.port)
        BY DEF Blocks
      <4> QED
        BY <1>3, <3>1, <4>1 DEF NothingAfter
    <3>4. m.port = client.server
      BY <1>5, <3>1
    <3> QED
      BY <3>1, <3>2, <3>3, <3>4 DEF TargetInv
  <2> QED
    BY <2>1, <2>2
<1> QED
  BY <1>9, <1>10, <1>11, <1>13, <1>14, <1>15, <1>16

-----------------------------------------------------------------------------
\* Connections that refuse, stop or whose watchdog fires.
LEMMA ConnsQuiet ==
    ASSUME IInv, conn' \in [Ports -> Senders],
           \A p \in Ports :
              /\ conn'[p].block = conn[p].block /\ conn'[p].chunk = conn[p].chunk
              /\ conn'[p].size = conn[p].size /\ conn'[p].last = conn[p].last
              /\ conn'[p].stream = conn[p].stream
              /\ \/ conn'[p].pc = conn[p].pc /\ conn[p].pc # "idle"
                 \/ conn'[p] = conn[p]
                 \/ conn[p].pc = "idle" /\ conn'[p].pc = "refused"
                 \/ conn[p].pc = "sending" /\ conn'[p].pc = "stopped",
           net' \subseteq net \cup {Refusal(p) : p \in Ports},
           listening' \in BOOLEAN, UNCHANGED <<client, target, disk>>
    PROVE  IInv'
<1> USE DEF IInv
<1>1. TypeOK'
  BY DEF TypeOK, Packets, Refusal
<1>2. ClientInv' /\ AckInv'
  BY DEF ClientInv, AckInv, Refusal
<1>3. \A p \in Ports : Blocks(p)' \subseteq Blocks(p)
  BY DEF Blocks, Refusal
<1>4. \A p \in Ports : Acked(p)' = Acked(p)
  BY DEF Acked
<1>5. ConnInv'
  <2> SUFFICES ASSUME NEW p \in Ports
               PROVE  /\ conn'[p].pc = "idle" => conn'[p] = IdleSender /\ Blocks(p)' = {}
                      /\ conn'[p].pc = "refused" => conn'[p].chunk = 1 /\ Blocks(p)' = {}
                      /\ conn'[p].chunk \in {Acked(p), Acked(p) + 1}
                      /\ conn'[p].block = BlockOf(conn'[p].chunk)
    BY <1>4 DEF ConnInv
  <2>1. conn[p].pc = "idle" => conn[p].chunk = 1
    BY DEF ConnInv, IdleSender
  <2> QED
    BY <1>3, <2>1 DEF ConnInv
<1>6. StreamInv'
  <2> SUFFICES ASSUME NEW p \in Ports, conn'[p].pc \notin {"idle", "refused"}
               PROVE  StreamOf(conn'[p])
    BY DEF StreamInv
  <2>1. StreamOf(conn[p])
    BY DEF StreamInv
  <2> QED
    BY <2>1 DEF StreamOf
<1>7. \A i \in Nat, p \in Ports : NothingAfter(i, p) => NothingAfter(i, p)'
  BY <1>3 DEF NothingAfter
<1>8. BlockInv'
  <2> SUFFICES ASSUME NEW m \in net', m.op = "data"
               PROVE  /\ m.chunk <= conn'[m.port].chunk /\ m.chunk <= NumBlocks
                      /\ m.block = BlockOf(m.chunk)
                      /\ \/ m.size = ChunkLen(m.chunk)
                         \/ m.size = 0 /\ NothingAfter(m.chunk, m.port)'
    BY DEF BlockInv
  <2>1. m \in net
    BY DEF Refusal
  <2> QED
    BY <1>7, <2>1, DataFacts
<1>9. TargetInv'
  <2>1. DOMAIN target \subseteq Nat
    BY DEF TypeOK
  <2> QED
    BY <1>7, <2>1 DEF TargetInv
<1> QED
  BY <1>1, <1>2, <1>5, <1>6, <1>8, <1>9

\* A connection goes on with state s and sends the block it is at, if any.
LEMMA ConnSends ==
    ASSUME IInv, NEW p \in Ports, NEW s \in Senders,
           s.pc \in {"sending", "ok", "failed"}, StreamOf(s),
           conn[p].chunk <= s.chunk, s.chunk \in {Acked(p), Acked(p) + 1},
           s.block = BlockOf(s.chunk),
           \A i \in Nat : NothingAfter(i, p) =>
               s.stream = "bad" /\ (s.pc = "sending" => s.chunk <= i),
           conn' = [conn EXCEPT ![p] = s],
           NEW rest, rest \subseteq net,
           net' = rest \cup (IF s.pc = "sending" THEN {Data(p, s)} ELSE {}),
           ClientSame
    PROVE  IInv'
<1> USE DEF IInv, ClientSame
<1>1. TypeOK'
  BY DEF TypeOK, Packets, Data, Senders
<1>2. ClientInv' /\ AckInv'
  BY DEF ClientInv, AckInv, Data
<1>3. /\ conn'[p] = s
      /\ \A q \in Ports : q # p => conn'[q] = conn[q] /\ Blocks(q)' \subseteq Blocks(q)
      /\ Blocks(p)' \subseteq Blocks(p) \cup (IF s.pc = "sending" THEN {Data(p, s)} ELSE {})
  BY DEF TypeOK, Blocks, Data
<1>4. \A q \in Ports : Acked(q)' = Acked(q)
  BY DEF Acked
<1>5. ConnInv'
  <2> SUFFICES ASSUME NEW q \in Ports
               PROVE  /\ conn'[q].pc = "idle" => conn'[q] = IdleSender /\ Blocks(q)' = {}
                      /\ conn'[q].pc = "refused" => conn'[q].chunk = 1 /\ Blocks(q)' = {}
                      /\ conn'[q].chunk \in {Acked(q), Acked(q) + 1}
                      /\ conn'[q].block = BlockOf(conn'[q].chunk)
    BY <1>4 DEF ConnInv
  <2>1. CASE q = p
    BY <1>3, <2>1
  <2>2. CASE q # p
    BY <1>3, <2>2 DEF ConnInv
  <2> QED
    BY <2>1, <2>2
<1>6. StreamInv'
  <2> SUFFICES ASSUME NEW q \in Ports, conn'[q].pc \notin {"idle", "refused"}
               PROVE  StreamOf(conn'[q])
    BY DEF StreamInv, StreamOf
  <2>1. CASE q = p
    BY <1>3, <2>1
  <2>2. CASE q # p
    BY <1>3, <2>2 DEF StreamInv, StreamOf
  <2> QED
    BY <2>1, <2>2
<1>7. s.chunk \in Nat /\ conn[p].chunk \in Nat
  BY DEF Senders, TypeOK
<1>8. \A i \in Nat, q \in Ports : NothingAfter(i, q) => NothingAfter(i, q)'
  <2> SUFFICES ASSUME NEW i \in Nat, NEW q \in Ports, NothingAfter(i, q)
               PROVE  NothingAfter(i, q)'
    OBVIOUS
  <2>1. CASE q # p
    BY <1>3, <2>1 DEF NothingAfter
  <2>2. CASE q = p
    BY <1>3, <1>7, <2>2 DEF NothingAfter, Data
  <2> QED
    BY <2>1, <2>2
<1>9. s.pc = "sending" /\ s.stream = "bad" => NothingAfter(s.chunk, p)'
  <2> SUFFICES ASSUME s.pc = "sending", s.stream = "bad"
               PROVE  NothingAfter(s.chunk, p)'
    OBVIOUS
  <2>1. \A m \in Blocks(p) : m.chunk \in Nat /\ m.chunk <= s.chunk
    <3> SUFFICES ASSUME NEW m \in Blocks(p)
                 PROVE  m.chunk \in Nat /\ m.chunk <= s.chunk
      OBVIOUS
    <3> QED
      BY <1>7, DataFacts DEF Blocks
  <2>2. \A m \in Blocks(p)' : m.chunk <= s.chunk
    BY <1>3, <1>7, <2>1 DEF Data
  <2> QED
    BY <1>3, <1>7, <2>2 DEF NothingAfter
<1>10. BlockInv'
  <2> SUFFICES ASSUME NEW m \in net', m.op = "data"
               PROVE  /\ m.chunk <= conn'[m.port].chunk /\ m.chunk <= NumBlocks
                      /\ m.block = BlockOf(m.chunk)
                      /\ \/ m.size = ChunkLen(m.chunk)
                         \/ m.size = 0 /\ NothingAfter(m.chunk, m.port)'
    BY DEF BlockInv
  <2>1. CASE m \in net
    <3>1. /\ m.port \in Ports /\ m.chunk \in Nat /\ m.chunk <= conn[m.port].chunk
          /\ m.chunk <= NumBlocks /\ m.block = BlockOf(m.chunk)
          /\ \/ m.size = ChunkLen(m.chunk)
             \/ m.size = 0 /\ NothingAfter(m.chunk, m.port)
      BY <2>1, DataFacts
    <3>2. m.chunk <= conn'[m.port].chunk
      BY <1>3, <1>7, <3>1
    <3> QED
      BY <1>8, <3>1, <3>2
  <2>2. CASE m = Data(p, s) /\ s.pc = "sending"
    BY <1>3, <1>7, <1>9, <2>2, SentIsChunk DEF Data
  <2> QED
    BY <2>1, <2>2
<1>11. TargetInv'
  <2>1. DOMAIN target \subseteq Nat
    BY DEF TypeOK
  <2> QED
    BY <1>8, <2>1 DEF TargetInv
<1> QED
  BY <1>1, <1>2, <1>5, <1>6, <1>10, <1>11

-----------------------------------------------------------------------------
\* What a receive leaves of the network was there before.
LEMMA AfterFacts ==
    ASSUME NEW m, NEW rest \in After(m)
    PROVE  rest \subseteq net
BY DEF After

\* Every step of the client keeps the invariant.
LEMMA ClientKeepsIInv == IInv /\ ClientNext => IInv'
<1> SUFFICES ASSUME IInv, ClientNext PROVE IInv'
  OBVIOUS
<1>0. /\ client \in Clients
      /\ client.pc \in {"start", "response"} => client.server = NoPort
      /\ client.pc \in {"receiving", "ok"} => client.server # NoPort
      /\ client.cur = 0 <=> client.server = NoPort
      /\ client.pc = "ok" => client.last < ChunkSize
  BY DEF IInv, TypeOK, ClientInv
<1>1. CASE SendRequest
  BY <1>0, <1>1, QuietStep DEF SendRequest, ServerSame, Clients, ClientPcs
<1>2. CASE ResponseTimeout
  BY <1>0, <1>2, QuietStep DEF ResponseTimeout, ServerSame, Clients, ClientPcs
<1>3. CASE ResponseUnusable
  <2>1. net' \subseteq net
    BY <1>3, AfterFacts DEF ResponseUnusable
  <2> QED
    BY <1>0, <1>3, <2>1, QuietStep
       DEF ResponseUnusable, ServerSame, Clients, ClientPcs
<1>4. CASE ResponseData
  <2>1. PICK m \in ToClient, rest \in SUBSET net :
          /\ rest \in After(m)
          /\ IsFirstData(m)
          /\ \/ ClientContinues(ReceiverAfterWrite(LockedOn(m)), rest,
                              <<[chunk |-> m.chunk, size |-> m.size]>>)
             \/ /\ client' = [client EXCEPT !.pc = "threw"]
                /\ net' = rest
                /\ UNCHANGED target
    BY <1>4, AfterFacts DEF ResponseData
  <2>2. /\ client.pc = "response" /\ client.server = NoPort /\ client.cur = 0
        /\ ServerSame /\ m \in net /\ m.op = "data" /\ m.block = 1
        /\ rest \subseteq net
    BY <1>0, <1>4, <2>1, AfterFacts DEF ResponseData, ToClient, IsFirstData
  <2>3. CASE client' = [client EXCEPT !.pc = "threw"] /\ net' = rest /\ UNCHANGED target
    BY <1>0, <2>2, <2>3, QuietStep DEF ServerSame, Clients, ClientPcs
  <2>4. CASE ClientContinues(ReceiverAfterWrite(LockedOn(m)), rest,
                             <<[chunk |-> m.chunk, size |-> m.size]>>)
    <3>1. /\ m.port \in Ports /\ m.chunk \in Nat \ {0} /\ m.size \in Sizes
          /\ m.block = BlockOf(m.chunk)
      BY <2>2, DataFacts
    <3>2. m.chunk = 1
      <4>1. m.chunk <= conn[m.port].chunk /\ conn[m.port].chunk <= Acked(m.port) + 1
        BY <2>2, DataFacts
      <4>2. conn[m.port].chunk \in Nat
        BY <3>1 DEF IInv, TypeOK, Senders
      <4>3. Acked(m.port) = 0
        BY <2>2 DEF Acked
      <4> QED
        BY <3>1, <4>1, <4>2, <4>3
    <3>3. target = <<>>
      BY <2>2, EmptyTarget DEF IInv, TypeOK, ClientInv
    <3>4. Append(target, [chunk |-> m.chunk, size |-> m.size])
            = <<[chunk |-> m.chunk, size |-> m.size]>>
      BY <3>3
    <3>5. 1 \in BlockNumbers
      BY ModulusAssumption DEF BlockNumbers
    <3>6. /\ LockedOn(m) \in Clients /\ LockedOn(m).cur = m.chunk
          /\ LockedOn(m).server = m.port /\ LockedOn(m).last = m.size
      BY <1>0, <3>1, <3>2, <3>5 DEF LockedOn, Clients
    <3>7. ClientContinues(ReceiverAfterWrite(LockedOn(m)), rest,
                          Append(target, [chunk |-> m.chunk, size |-> m.size]))
      BY <2>4, <3>4
    <3> QED
      BY <2>2, <3>2, <3>5, <3>6, <3>7, ClientWrites
  <2> QED
    BY <2>1, <2>3, <2>4
<1>5. CASE ClientTimeout
  BY <1>5, ClientRepeats DEF ClientTimeout
<1>6. CASE ClientFinish
  BY <1>0, <1>6, QuietStep DEF ClientFinish, ServerSame, Clients, ClientPcs
<1>7. CASE ClientRejects
  <2>1. CASE ClientContinues(ReceiverTop(client), net, target)
    BY <1>7, <2>1, ClientRepeats DEF ClientRejects
  <2>2. ASSUME NEW m \in ToClient, NEW rest \in After(m),
               NEW sent \in Attempt(UnknownId(m.port)),
               ClientContinues(ReceiverTop(client), rest \cup sent, target)
        PROVE  IInv'
    <3>1. m.port \in Ports
      BY DEF ToClient, IInv, TypeOK, Packets
    <3>2. rest \cup sent \subseteq net \cup {UnknownId(p) : p \in Ports}
      BY <3>1, AfterFacts DEF Attempt
    <3> QED
      BY <1>7, <2>2, <3>2, ClientRepeats DEF ClientRejects
  <2> QED
    BY <1>7, <2>1, <2>2 DEF ClientRejects
<1>8. CASE ClientIgnores
  BY <1>8, AfterFacts, ClientRepeats DEF ClientIgnores
<1>9. CASE ClientAccepts
  <2>1. PICK m \in ToClient, rest \in SUBSET net :
          /\ rest \in After(m)
          /\ m.port = client.server
          /\ IsNextData(m.op, m.block, client.cur)
          /\ ClientContinues(ReceiverAfterWrite(AcceptedBy(m)), rest,
                             Append(target, [chunk |-> m.chunk, size |-> m.size]))
    BY <1>9, AfterFacts DEF ClientAccepts
  <2>2. /\ client.pc = "receiving" /\ ServerSame
        /\ m \in net /\ m.op = "data" /\ rest \subseteq net
    BY <1>9, <2>1, AfterFacts DEF ClientAccepts, ToClient, IsNextData
  <2>3. m.chunk = client.cur + 1 /\ NextBlock(client.cur) = client.cur + 1
    BY <2>1, <2>2, AcceptedIsNext
  <2>4. m.size \in Sizes /\ m.chunk \in BlockNumbers
    BY <1>0, <2>2, <2>3, DataFacts, NextBlockFacts DEF Clients
  <2>5. /\ AcceptedBy(m) \in Clients /\ AcceptedBy(m).cur = m.chunk
        /\ AcceptedBy(m).server = m.port /\ AcceptedBy(m).last = m.size
    BY <1>0, <2>1, <2>3, <2>4 DEF AcceptedBy, Clients
  <2> QED
    BY <2>1, <2>2, <2>3, <2>4, <2>5, ClientWrites
<1>10. CASE ClientWatchdog
  BY <1>0, <1>10, QuietStep DEF ClientWatchdog, ServerSame, Clients
<1>11. CASE ClientInterrupted
  BY <1>0, <1>11, QuietStep DEF ClientInterrupted, ServerSame, Clients, ClientPcs
<1> QED
  BY <1>1, <1>2, <1>3, <1>4, <1>5, <1>6, <1>7, <1>8, <1>9, <1>10, <1>11
     DEF ClientNext, ClientLoop

\* Every step of the server keeps the invariant.
LEMMA ServerKeepsIInv == IInv /\ ServerNext => IInv'
<1> SUFFICES ASSUME IInv, ServerNext PROVE IInv'
  OBVIOUS
<1>0. conn \in [Ports -> Senders]
  BY DEF IInv, TypeOK
<1>1. CASE ServerStops
  <2>1. conn' \in [Ports -> Senders]
    BY <1>0, <1>1 DEF ServerStops, Senders, SenderPcs
  <2>2. \A p \in Ports :
          conn'[p] = IF conn[p].pc = "sending"
                     THEN [conn[p] EXCEPT !.pc = "stopped"] ELSE conn[p]
    BY <1>1 DEF ServerStops
  <2>3. \A p \in Ports :
              /\ conn'[p].block = conn[p].block /\ conn'[p].chunk = conn[p].chunk
              /\ conn'[p].size = conn[p].size /\ conn'[p].last = conn[p].last
              /\ conn'[p].stream = conn[p].stream
              /\ \/ conn'[p] = conn[p]
                 \/ conn[p].pc = "sending" /\ conn'[p].pc = "stopped"
    BY <1>0, <2>2 DEF Senders
  <2> QED
    BY <1>1, <2>1, <2>3, ConnsQuiet DEF ServerStops
<1>2. ASSUME NEW p \in Ports, Accept(p)
      PROVE  IInv'
  <2>1. /\ ClientSame /\ conn[p] = IdleSender /\ conn[p].pc = "idle"
        /\ Acked(p) \in {0, 1}
    BY <1>2 DEF Accept, IInv, ConnInv, IdleSender, TypeOK, Clients, BlockNumbers, Acked
  <2>2. PICK rest \in After(Request) :
          \/ /\ conn' = [conn EXCEPT ![p].pc = "refused"]
             /\ \E sent \in Attempt(Refusal(p)) : net' = rest \cup sent
          \/ \E stream \in {"good", "bad"} :
                ConnContinues(p, SenderStart(stream), rest)
    BY <1>2 DEF Accept
  <2>3. rest \subseteq net
    BY AfterFacts
  <2>4. CASE /\ conn' = [conn EXCEPT ![p].pc = "refused"]
             /\ \E sent \in Attempt(Refusal(p)) : net' = rest \cup sent
    <3>1. net' \subseteq net \cup {Refusal(q) : q \in Ports}
      BY <2>3, <2>4 DEF Attempt
    <3>2. conn' \in [Ports -> Senders]
      BY <1>0, <2>4 DEF Senders, SenderPcs
    <3>3. /\ conn'[p] = [conn[p] EXCEPT !.pc = "refused"]
          /\ \A q \in Ports : q # p => conn'[q] = conn[q]
      BY <1>0, <2>4
    <3>4. /\ conn'[p].block = conn[p].block /\ conn'[p].chunk = conn[p].chunk
          /\ conn'[p].size = conn[p].size /\ conn'[p].last = conn[p].last
          /\ conn'[p].stream = conn[p].stream
          /\ conn[p].pc = "idle" /\ conn'[p].pc = "refused"
      BY <1>0, <2>1, <3>3 DEF Senders
    <3>5. listening' \in BOOLEAN
      BY <2>1 DEF ClientSame, IInv, TypeOK
    <3> QED
      BY <2>1, <3>1, <3>2, <3>3, <3>4, <3>5, ConnsQuiet DEF ClientSame
  <2>5. ASSUME NEW stream \in {"good", "bad"},
               ConnContinues(p, SenderStart(stream), rest)
        PROVE  IInv'
    <3>1. PICK s \in SenderStart(stream) :
            /\ conn' = [conn EXCEPT ![p] = s]
            /\ net' = rest \cup (IF s.pc = "sending" THEN {Data(p, s)} ELSE {})
      BY <2>5 DEF ConnContinues
    <3>2. /\ s \in Senders
          /\ s.chunk = 1 /\ s.block = 1 /\ s.last = 0
          /\ s.pc \in {"sending", "ok", "failed"}
          /\ s.pc = "ok" => s.stream = "eof" /\ s.size = 0
          /\ \/ s.stream = "bad" /\ s.size = 0
             \/ s.stream = "good" /\ 1 < NumBlocks /\ s.size = ChunkSize
             \/ s.stream = "eof" /\ 1 = NumBlocks /\ s.size = TailSize
      BY <3>1, SenderStartFacts
    <3>3. StreamOf(s)
      BY <3>1, StreamOfAtStart
    <3>4. s.block = BlockOf(s.chunk)
      BY <3>2, ModulusAssumption DEF BlockOf
    <3>5. conn[p].chunk <= s.chunk /\ s.chunk \in {Acked(p), Acked(p) + 1}
      BY <2>1, <3>2 DEF IdleSender
    <3>6. \A i \in Nat : ~ NothingAfter(i, p)
      BY <2>1 DEF NothingAfter, IdleSender
    <3> QED
      BY <2>1, <2>3, <3>1, <3>2, <3>3, <3>4, <3>5, <3>6, ConnSends
  <2> QED
    BY <2>2, <2>4, <2>5
<1>3. ASSUME NEW p \in Ports, conn[p].pc = "sending", ClientSame,
             NEW rest, rest \subseteq net,
             ConnContinues(p, SenderTop(conn[p]), rest)
      PROVE  IInv'
  <2>1. PICK s \in SenderTop(conn[p]) :
          /\ conn' = [conn EXCEPT ![p] = s]
          /\ net' = rest \cup (IF s.pc = "sending" THEN {Data(p, s)} ELSE {})
    BY <1>3 DEF ConnContinues
  <2>2. conn[p] \in Senders /\ StreamOf(conn[p])
    BY <1>0, <1>3 DEF IInv, StreamInv
  <2>3. /\ s \in Senders /\ StreamOf(s) /\ s.pc \in {"sending", "ok", "failed"}
        /\ s.block = conn[p].block /\ s.chunk = conn[p].chunk
        /\ s.stream = conn[p].stream
    BY <1>3, <2>1, <2>2, StreamOfAtTop
  <2>4. s.block = BlockOf(s.chunk) /\ s.chunk \in {Acked(p), Acked(p) + 1}
    BY <2>3 DEF IInv, ConnInv
  <2>5. conn[p].chunk <= s.chunk
    BY <2>2, <2>3 DEF Senders
  <2>6. \A i \in Nat : NothingAfter(i, p) =>
               s.stream = "bad" /\ (s.pc = "sending" => s.chunk <= i)
    BY <1>3, <2>3 DEF NothingAfter
  <2> QED
    BY <1>3, <2>1, <2>3, <2>4, <2>5, <2>6, ConnSends
<1>4. ASSUME NEW p \in Ports, ConnTimeout(p)
      PROVE  IInv'
  BY <1>3, <1>4 DEF ConnTimeout
<1>5. ASSUME NEW p \in Ports, ConnIgnores(p)
      PROVE  IInv'
  BY <1>3, <1>5, AfterFacts DEF ConnIgnores
<1>6. ASSUME NEW p \in Ports, ConnAdvances(p)
      PROVE  IInv'
  <2>1. PICK m \in ToConn(p), rest \in SUBSET net :
          /\ rest \in After(m)
          /\ IsAwaitedAck(m.op, m.block, conn[p].block)
          /\ ConnContinues(p, SenderAfterAck(conn[p]), rest)
    BY <1>6, AfterFacts DEF ConnAdvances
  <2>2. /\ conn[p].pc = "sending" /\ ClientSame /\ rest \subseteq net
        /\ m \in net /\ m.op = "ack" /\ m.port = p /\ m.block = conn[p].block
    BY <1>6, <2>1, AfterFacts DEF ConnAdvances, ToConn, IsAwaitedAck
  <2>3. PICK s \in SenderAfterAck(conn[p]) :
          /\ conn' = [conn EXCEPT ![p] = s]
          /\ net' = rest \cup (IF s.pc = "sending" THEN {Data(p, s)} ELSE {})
    BY <2>1 DEF ConnContinues
  <2>4. /\ conn[p] \in Senders /\ StreamOf(conn[p])
        /\ conn[p].block = BlockOf(conn[p].chunk)
        /\ conn[p].chunk \in {Acked(p), Acked(p) + 1} /\ conn[p].chunk \in Nat \ {0}
    BY <1>0, <2>2 DEF IInv, StreamInv, ConnInv, Senders
  <2>5. client.server = p /\ m.block \in 1 .. client.cur /\ client.cur \in BlockNumbers
    BY <2>2 DEF IInv, AckInv, TypeOK, Clients
  <2>6. /\ conn[p].chunk = client.cur /\ conn[p].block = client.cur
        /\ Acked(p) = client.cur /\ client.cur \in Nat
    <3>1. Acked(p) = client.cur /\ client.cur \in Nat /\ client.cur < BlockModulus
      BY <2>5, ModulusAssumption DEF Acked, BlockNumbers
    <3> QED
      BY <2>2, <2>4, <2>5, <3>1, ModulusAssumption DEF BlockOf
  <2>7. /\ s \in Senders /\ StreamOf(s) /\ s.pc \in {"sending", "ok", "failed"}
        /\ s.chunk = conn[p].chunk + 1 /\ s.block = NextBlock(conn[p].block)
        /\ conn[p].stream # "good" => s.stream = conn[p].stream
        /\ s.pc = "sending" => conn[p].stream = "good"
    BY <2>2, <2>3, <2>4, StreamOfAfterAck
  <2>8. s.block = BlockOf(s.chunk)
    BY <2>5, <2>6, <2>7, NextBlockFacts, ModulusAssumption DEF BlockOf
  <2>9. \A i \in Nat : NothingAfter(i, p) =>
               s.stream = "bad" /\ (s.pc = "sending" => s.chunk <= i)
    BY <2>7 DEF NothingAfter
  <2>10. conn[p].chunk <= s.chunk /\ s.chunk \in {Acked(p), Acked(p) + 1}
    BY <2>4, <2>6, <2>7
  <2> QED
    BY <2>2, <2>3, <2>7, <2>8, <2>9, <2>10, ConnSends
<1>7. ASSUME NEW p \in Ports, ConnWatchdog(p)
      PROVE  IInv'
  <2>1. /\ conn' = [conn EXCEPT ![p].expired = TRUE] /\ net' = net
        /\ ClientSame /\ conn[p].pc = "sending"
    BY <1>7 DEF ConnWatchdog
  <2>2. /\ conn' \in [Ports -> Senders]
        /\ conn'[p] = [conn[p] EXCEPT !.expired = TRUE]
        /\ \A q \in Ports : q # p => conn'[q] = conn[q]
    BY <1>0, <2>1 DEF Senders
  <2>3. /\ conn'[p].block = conn[p].block /\ conn'[p].chunk = conn[p].chunk
        /\ conn'[p].size = conn[p].size /\ conn'[p].last = conn[p].last
        /\ conn'[p].stream = conn[p].stream
        /\ conn'[p].pc = conn[p].pc /\ conn[p].pc # "idle"
    BY <1>0, <2>1, <2>2 DEF Senders
  <2>4. listening' \in BOOLEAN
    BY <2>1 DEF ClientSame, IInv, TypeOK
  <2> QED
    BY <2>1, <2>2, <2>3, <2>4, ConnsQuiet DEF ClientSame
<1> QED
  BY <1>1, <1>2, <1>4, <1>5, <1>6, <1>7 DEF ServerNext, ConnLoop

\* A lost packet leaves a part of the network.
LEMMA LoseKeepsIInv == IInv /\ Lose => IInv'
<1> SUFFICES ASSUME IInv, Lose PROVE IInv'
  OBVIOUS
<1>1. /\ client \in Clients
      /\ client.pc \in {"start", "response", "threw"} => client.server = NoPort
      /\ client.pc \in {"receiving", "ok"} => client.server # NoPort
      /\ client.pc = "ok" => client.last < ChunkSize
  BY DEF IInv, TypeOK, ClientInv
<1> QED
  BY <1>1, QuietStep DEF Lose

\* A step that changes nothing keeps the invariant.
LEMMA StutterKeepsIInv == IInv /\ UNCHANGED vars => IInv'
BY DEF IInv, TypeOK, ClientInv, AckInv, ConnInv, StreamInv, BlockInv, TargetInv,
       NothingAfter, Blocks, Acked, vars

-----------------------------------------------------------------------------
\* The invariant holds in every reachable state, whatever the file, the number
\* of connections and the faults of the environment.
THEOREM Invariance == Spec => []IInv
<1>1. Init => IInv
  BY InitIInv
<1>2. IInv /\ [Next]_vars => IInv'
  BY ClientKeepsIInv, ServerKeepsIInv, LoseKeepsIInv, StutterKeepsIInv DEF Next
<1> QED
  BY <1>1, <1>2, PTL DEF Spec

\* Every variable has its type in every reachable state.
THEOREM TypeCorrectness == Spec => []TypeOK
<1>1. IInv => TypeOK
  BY DEF IInv
<1> QED
  BY <1>1, Invariance, PTL

\* read_client never writes a wrong, repeated or skipped chunk.
THEOREM Integrity == Spec => []TargetIsPrefix
<1>1. IInv => TargetIsPrefix
  BY DEF IInv, TargetInv, TargetIsPrefix, NothingAfter, CutShort
<1> QED
  BY <1>1, Invariance, PTL

\* A connection and the client that it serves are never more than one block
\* apart, and a second connection gets nowhere.
THEOREM StopAndWait ==
    ASSUME FullChunks + TailSize > 0
    PROVE  Spec => []LockStep
<1>1. IInv => LockStep
  <2> SUFFICES ASSUME IInv,
                      NEW p \in Ports, conn[p].pc # "idle", p # client.server
               PROVE  conn[p].chunk = 1 /\ conn[p].pc # "ok"
    BY DEF LockStep, IInv, ConnInv, Acked
  <2>1. conn[p] \in Senders /\ conn[p].chunk \in {0, 1}
    BY DEF IInv, TypeOK, ConnInv, Acked
  <2>2. conn[p].chunk = 1
    BY <2>1 DEF Senders
  <2>3. ASSUME conn[p].pc = "ok"
        PROVE  FALSE
    <3>1. StreamOf(conn[p])
      BY <2>3 DEF IInv, StreamInv
    <3> QED
      BY <2>1, <2>2, <2>3, <3>1, SizeAssumption
         DEF StreamOf, NumBlocks, Senders
  <2> QED
    BY <2>2, <2>3
<1> QED
  BY <1>1, Invariance, PTL

\* A file is whole when all its chunks are there.
LEMMA WholeFile ==
    ASSUME IInv, client.pc # "failed", client.cur = NumBlocks,
           \A i \in DOMAIN target : target[i].size = ChunkLen(i)
    PROVE  target = FirstChunks(NumBlocks)
<1>1. /\ target \in Seq([chunk : Nat \ {0}, size : Sizes])
      /\ Len(target) = NumBlocks /\ NumBlocks \in Nat
  BY ChunkLenFacts DEF IInv, TypeOK, ClientInv
<1>2. DOMAIN target = 1 .. NumBlocks
  BY <1>1
<1>3. \A i \in 1 .. NumBlocks : target[i] = [chunk |-> i, size |-> ChunkLen(i)]
  <2> SUFFICES ASSUME NEW i \in 1 .. NumBlocks
               PROVE  target[i] = [chunk |-> i, size |-> ChunkLen(i)]
    OBVIOUS
  <2>1. target[i] \in [chunk : Nat \ {0}, size : Sizes]
    <3>1. i \in 1 .. Len(target)
      BY <1>1
    <3> QED
      BY <1>1, <3>1, ElementOfTarget
  <2>2. target[i].chunk = i /\ target[i].size = ChunkLen(i)
    BY <1>2 DEF IInv, TargetInv
  <2> QED
    BY <2>1, <2>2
<1> QED
  BY <1>1, <1>2, <1>3 DEF FirstChunks

\* When read_client returns without an error the target is the source file,
\* unless the server met a read error.
THEOREM ClientSuccessIsTrue == Spec => []ClientSuccess
<1>1. ASSUME IInv, client.pc = "ok", ~CutShort(client.server)
      PROVE  target = FirstChunks(NumBlocks)
  <2>1. /\ client.server \in Ports /\ client.cur \in Nat \ {0}
        /\ client.last < ChunkSize
        /\ client.cur <= NumBlocks /\ Len(target) = client.cur
        /\ client.last = target[client.cur].size
    BY <1>1 DEF IInv, TypeOK, Clients, ClientInv, BlockNumbers
  <2>2. target \in Seq([chunk : Nat \ {0}, size : Sizes])
    BY <1>1 DEF IInv, TypeOK
  <2>3. DOMAIN target = 1 .. client.cur
    BY <2>1, <2>2
  <2>4. \A i \in DOMAIN target : target[i].size = ChunkLen(i)
    BY <1>1, <2>1 DEF IInv, TargetInv, NothingAfter, CutShort
  <2>5. ChunkLen(client.cur) < ChunkSize
    BY <1>1, <2>1, <2>3, <2>4
  <2>6. client.cur = NumBlocks
    BY <2>1, <2>5, ChunkLenFacts, SizeAssumption
  <2> QED
    BY <1>1, <2>4, <2>6, WholeFile
<1>2. IInv => ClientSuccess
  BY <1>1 DEF ClientSuccess
<1> QED
  BY <1>2, Invariance, PTL

\* A connection that ends without an error has sent the whole file to its
\* client, which has written all of it.  An empty file is the exception: it is
\* never sent.
THEOREM ServerSuccessIsTrue ==
    ASSUME FullChunks + TailSize > 0
    PROVE  Spec => []ServerSuccess
<1>1. ASSUME IInv, NEW p \in Ports, conn[p].pc = "ok"
      PROVE  /\ client.server = p
             /\ client.pc = "failed" \/ target = FirstChunks(NumBlocks)
  <2>1. StreamOf(conn[p]) /\ conn[p] \in Senders /\ conn[p].chunk \in Nat \ {0}
    BY <1>1 DEF IInv, StreamInv, TypeOK, Senders
  <2>2. conn[p].chunk = NumBlocks + 1 /\ conn[p].stream = "eof"
    BY <1>1, <2>1, OkIsAtEnd
  <2>3. client.server = p /\ client.cur = NumBlocks
    <3>1. conn[p].chunk \in {Acked(p), Acked(p) + 1} /\ client.cur \in Nat
          /\ client.cur <= NumBlocks /\ NumBlocks \in Nat \ {0}
      BY <1>1, ChunkLenFacts DEF IInv, ConnInv, ClientInv, TypeOK, Clients, BlockNumbers
    <3> QED
      BY <2>2, <3>1 DEF Acked
  <2>4. \A i \in DOMAIN target : target[i].size = ChunkLen(i)
    BY <1>1, <2>2, <2>3 DEF IInv, TargetInv, NothingAfter
  <2> QED
    BY <1>1, <2>3, <2>4, WholeFile
<1>2. IInv => ServerSuccess
  BY <1>1 DEF ServerSuccess
<1> QED
  BY <1>2, Invariance, PTL

-----------------------------------------------------------------------------
(***************************************************************************)
(* TftpRead implements FileTransfer, for every file that is not empty,     *)
(* every number of connections and set of faults.  The steps of the client *)
(* are deliveries or reports of the receiver, those of the connection it   *)
(* is locked on to are reports of the sender, and all others are stutters. *)
(***************************************************************************)

\* The report of the connection that is locked on to.
LEMMA SenderReportIs ==
    /\ client.server = NoPort => SenderReport = "open"
    /\ client.server # NoPort => SenderReport = ReportOfSender(conn[client.server])
BY DEF SenderReport

\* A client that may report success has every chunk, or its connection met a
\* read error.
LEMMA ShortIsLast ==
    ASSUME FullChunks + TailSize > 0, IInv,
           client.pc = "receiving", client.last < ChunkSize
    PROVE  client.cur = NumBlocks \/ SenderReport = "cut"
<1>1. /\ client.server \in Ports /\ client.server # NoPort
      /\ client.cur \in Nat \ {0}
      /\ client.cur <= NumBlocks /\ Len(target) = client.cur
      /\ client.last = target[client.cur].size
  BY DEF IInv, TypeOK, Clients, ClientInv, BlockNumbers
<1>2. client.cur \in DOMAIN target
  BY <1>1 DEF IInv, TypeOK
<1>3. CASE target[client.cur].size = ChunkLen(client.cur)
  BY <1>1, <1>3, ChunkLenFacts, SizeAssumption
<1>4. CASE conn[client.server].stream = "bad"
  <2>1. conn[client.server].pc # "ok"
    BY <1>1, <1>4 DEF IInv, StreamInv, StreamOf
  <2> QED
    BY <1>1, <1>4, <2>1, SenderReportIs, ReportFacts
<1> QED
  BY <1>1, <1>2, <1>3, <1>4 DEF IInv, TargetInv, NothingAfter

-----------------------------------------------------------------------------
\* A step of the client that writes nothing is a report or a stutter.
LEMMA ReceiverStep ==
    ASSUME FullChunks + TailSize > 0, IInv, UNCHANGED conn,
           client'.cur = client.cur, client'.server = client.server,
           client.pc \in {"start", "response", "receiving"},
           client'.pc \in ClientPcs,
           client'.pc = "ok" => client.pc = "receiving" /\ client.last < ChunkSize
    PROVE  [Transfer!Next]_(Transfer!vars)
<1>1. ReceiverReport = "open" /\ SenderReport' = SenderReport
  BY DEF ReceiverReport, SenderReport
<1>2. /\ ReceiverReport' \in {"open", "failed", "done"}
      /\ ReceiverReport' = "done" => client'.pc = "ok"
  BY DEF ReceiverReport, ClientPcs
<1>3. CASE ReceiverReport' = "open"
  BY <1>1, <1>3 DEF Transfer!vars
<1>4. CASE ReceiverReport' = "failed"
  BY <1>1, <1>4 DEF Transfer!Next, Transfer!ReceiverFails, Transfer!SenderStays
<1>5. CASE ReceiverReport' = "done"
  <2>1. client.cur = NumBlocks \/ SenderReport = "cut"
    BY <1>2, <1>5, ShortIsLast
  <2> QED
    BY <1>1, <1>5, <2>1 DEF Transfer!Next, Transfer!ReceiverSucceeds
<1> QED
  BY <1>2, <1>3, <1>4, <1>5

\* A step in which the client writes a chunk is a delivery.  The connection
\* that it locks on to cannot have succeeded already.
LEMMA WriteStep ==
    ASSUME FullChunks + TailSize > 0, IInv, IInv', UNCHANGED conn,
           client.pc \in {"response", "receiving"},
           client'.pc \in {"receiving", "failed"},
           client'.cur = client.cur + 1,
           client.pc = "receiving" => client'.server = client.server
    PROVE  [Transfer!Next]_(Transfer!vars)
<1>1. /\ ReceiverReport = "open" /\ ReceiverReport' \in {"open", "failed"}
  BY DEF ReceiverReport
<1>2. /\ client.cur \in Nat /\ client.cur + 1 <= NumBlocks /\ NumBlocks \in Nat
      /\ client.cur < NumBlocks
  <2>1. client.cur \in Nat /\ client.cur + 1 <= NumBlocks
    BY DEF IInv, TypeOK, Clients, BlockNumbers, ClientInv
  <2> QED
    BY <2>1, ChunkLenFacts
<1>3. Transfer!SenderStays
  <2>1. CASE client.pc = "receiving"
    BY <2>1 DEF Transfer!SenderStays, SenderReport
  <2>2. CASE client.pc = "response"
    <3>1. client.cur = 0 /\ client.server = NoPort /\ SenderReport = "open"
      BY <2>2, SenderReportIs DEF IInv, ClientInv
    <3>2. client'.server # NoPort /\ client'.server \in Ports
      BY <1>2, <3>1 DEF IInv, ClientInv, TypeOK, Clients
    <3> DEFINE p == client'.server
    <3>3. conn[p].pc # "ok"
      <4> SUFFICES ASSUME conn[p].pc = "ok" PROVE FALSE
        OBVIOUS
      <4>1. conn[p] \in Senders /\ StreamOf(conn[p])
        BY <3>2 DEF IInv, TypeOK, StreamInv
      <4>2. conn[p].chunk = NumBlocks + 1
        BY <4>1, OkIsAtEnd
      <4>3. conn[p].chunk \in {0, 1}
        BY <3>1, <3>2 DEF IInv, ConnInv, Acked
      <4> QED
        BY <4>2, <4>3, ChunkLenFacts
    <3>4. SenderReport' = ReportOfSender(conn[p])
      BY <3>2 DEF SenderReport
    <3>5. SenderReport' \in {"open", "cut", "failed"}
      BY <3>3, <3>4, ReportFacts
    <3> QED
      BY <3>1, <3>5 DEF Transfer!SenderStays
  <2> QED
    BY <2>1, <2>2
<1> QED
  BY <1>1, <1>2, <1>3 DEF Transfer!Next, Transfer!Deliver

\* A step of the connections is a report of the one that is locked on to, or
\* a stutter, if that one takes nothing back.
LEMMA SenderStep ==
    ASSUME FullChunks + TailSize > 0, IInv, IInv', UNCHANGED client,
           \A p \in Ports : \/ ReportOfSender(conn[p]) = "open"
                            \/ ReportOfSender(conn'[p]) = ReportOfSender(conn[p])
    PROVE  [Transfer!Next]_(Transfer!vars)
<1>1. ReceiverReport' = ReceiverReport
  BY DEF ReceiverReport
<1>2. CASE SenderReport' = SenderReport
  BY <1>1, <1>2 DEF Transfer!vars
<1>3. CASE SenderReport' # SenderReport
  <2> DEFINE p == client.server
  <2>1. p # NoPort /\ p \in Ports
    BY <1>3 DEF SenderReport, IInv, TypeOK, Clients
  <2>2. SenderReport = ReportOfSender(conn[p]) /\ SenderReport' = ReportOfSender(conn'[p])
    BY <2>1 DEF SenderReport
  <2>3. SenderReport = "open" /\ SenderReport' \in {"cut", "failed", "done"}
    BY <1>3, <2>1, <2>2, ReportFacts
  <2>4. ASSUME SenderReport' = "done"
        PROVE  client.cur = NumBlocks
    <3>1. conn'[p].pc = "ok"
      BY <2>2, <2>4, ReportFacts
    <3>2. conn'[p] \in Senders /\ StreamOf(conn'[p])
      BY <2>1, <3>1 DEF IInv, TypeOK, StreamInv, StreamOf
    <3>3. conn'[p].chunk = NumBlocks + 1
      BY <3>1, <3>2, OkIsAtEnd
    <3>4. /\ conn'[p].chunk \in {client.cur, client.cur + 1}
          /\ client.cur \in Nat /\ client.cur <= NumBlocks
      BY <2>1 DEF IInv, ConnInv, Acked, ClientInv, TypeOK, Clients, BlockNumbers
    <3> QED
      BY <3>3, <3>4, ChunkLenFacts
  <2> QED
    BY <1>1, <2>3, <2>4
       DEF Transfer!Next, Transfer!SenderEnds, Transfer!SenderSucceeds
<1> QED
  BY <1>2, <1>3

-----------------------------------------------------------------------------
\* The loop of the client goes on without a write.
LEMMA RepeatStep ==
    ASSUME FullChunks + TailSize > 0, IInv, client.pc = "receiving",
           NEW rest, ClientContinues(ReceiverTop(client), rest, target), ServerSame
    PROVE  [Transfer!Next]_(Transfer!vars)
<1>1. /\ client'.pc \in {"receiving", "failed"} /\ client'.cur = client.cur
      /\ client'.server = client.server
  BY ReceiverTopFacts DEF ClientContinues, IInv, TypeOK
<1> QED
  BY <1>1, ReceiverStep DEF ServerSame, ClientPcs

\* The client writes what it has accepted and goes on.
LEMMA AcceptStep ==
    ASSUME FullChunks + TailSize > 0, IInv, IInv',
           client.pc \in {"response", "receiving"},
           NEW r \in Clients, r.cur = client.cur + 1,
           client.pc = "receiving" => r.server = client.server,
           NEW rest, NEW written,
           ClientContinues(ReceiverAfterWrite(r), rest, written), ServerSame
    PROVE  [Transfer!Next]_(Transfer!vars)
<1>1. /\ client'.pc \in {"receiving", "failed"} /\ client'.cur = r.cur
      /\ client'.server = r.server
  BY ReceiverAfterWriteFacts DEF ClientContinues
<1> QED
  BY <1>1, WriteStep DEF ServerSame

\* Every step of the client is a step of the abstract transfer.
LEMMA ClientRefines ==
    ASSUME FullChunks + TailSize > 0, IInv, IInv', ClientNext
    PROVE  [Transfer!Next]_(Transfer!vars)
<1>0. client \in Clients
  BY DEF IInv, TypeOK
<1>1. CASE SendRequest
  BY <1>0, <1>1, ReceiverStep DEF SendRequest, ServerSame, Clients, ClientPcs
<1>2. CASE ResponseTimeout
  BY <1>0, <1>2, ReceiverStep DEF ResponseTimeout, ServerSame, Clients, ClientPcs
<1>3. CASE ResponseUnusable
  BY <1>0, <1>3, ReceiverStep DEF ResponseUnusable, ServerSame, Clients, ClientPcs
<1>4. CASE ResponseData
  <2>1. PICK m \in ToClient, rest \in SUBSET net :
          /\ IsFirstData(m)
          /\ \/ ClientContinues(ReceiverAfterWrite(LockedOn(m)), rest,
                              <<[chunk |-> m.chunk, size |-> m.size]>>)
             \/ client' = [client EXCEPT !.pc = "threw"]
    BY <1>4, AfterFacts DEF ResponseData
  <2>2. /\ client.pc = "response" /\ client.cur = 0 /\ ServerSame
        /\ m \in net /\ m.op = "data"
    BY <1>4, <2>1 DEF ResponseData, IInv, ClientInv, ToClient, IsFirstData
  <2>3. CASE client' = [client EXCEPT !.pc = "threw"]
    BY <1>0, <2>2, <2>3, ReceiverStep DEF ServerSame, Clients, ClientPcs
  <2>4. CASE ClientContinues(ReceiverAfterWrite(LockedOn(m)), rest,
                             <<[chunk |-> m.chunk, size |-> m.size]>>)
    <3>1. m.port \in Ports /\ m.size \in Sizes /\ 1 \in BlockNumbers
      BY <2>2, DataFacts, ModulusAssumption DEF BlockNumbers
    <3>2. LockedOn(m) \in Clients /\ LockedOn(m).cur = 1
      BY <1>0, <3>1 DEF LockedOn, Clients
    <3>3. LockedOn(m).cur = client.cur + 1
      BY <2>2, <3>2
    <3> QED
      BY <2>2, <2>4, <3>2, <3>3, AcceptStep
  <2> QED
    BY <2>1, <2>3, <2>4
<1>5. CASE ClientTimeout
  BY <1>5, RepeatStep DEF ClientTimeout
<1>6. CASE ClientFinish
  BY <1>0, <1>6, ReceiverStep DEF ClientFinish, ServerSame, Clients, ClientPcs
<1>7. CASE ClientRejects
  BY <1>7, RepeatStep DEF ClientRejects
<1>8. CASE ClientIgnores
  BY <1>8, RepeatStep DEF ClientIgnores
<1>9. CASE ClientAccepts
  <2>1. PICK m \in ToClient, rest \in SUBSET net :
          /\ m.port = client.server
          /\ IsNextData(m.op, m.block, client.cur)
          /\ ClientContinues(ReceiverAfterWrite(AcceptedBy(m)), rest,
                             Append(target, [chunk |-> m.chunk, size |-> m.size]))
    BY <1>9, AfterFacts DEF ClientAccepts
  <2>2. /\ client.pc = "receiving" /\ ServerSame /\ m \in net /\ m.op = "data"
    BY <1>9, <2>1 DEF ClientAccepts, ToClient, IsNextData
  <2>3. NextBlock(client.cur) = client.cur + 1 /\ NextBlock(client.cur) \in BlockNumbers
        /\ m.size \in Sizes
    BY <1>0, <2>1, <2>2, AcceptedIsNext, NextBlockFacts, DataFacts DEF Clients
  <2>4. /\ AcceptedBy(m) \in Clients /\ AcceptedBy(m).cur = client.cur + 1
        /\ AcceptedBy(m).server = client.server
    BY <1>0, <2>3 DEF AcceptedBy, Clients
  <2> QED
    BY <2>1, <2>2, <2>4, AcceptStep
<1>10. CASE ClientWatchdog
  BY <1>0, <1>10, ReceiverStep DEF ClientWatchdog, ServerSame, Clients
<1>11. CASE ClientInterrupted
  BY <1>0, <1>11, ReceiverStep DEF ClientInterrupted, ServerSame, Clients, ClientPcs
<1> QED
  BY <1>1, <1>2, <1>3, <1>4, <1>5, <1>6, <1>7, <1>8, <1>9, <1>10, <1>11
     DEF ClientNext, ClientLoop

\* A step of one connection is one of the abstract transfer if the connection
\* takes nothing back.
LEMMA ConnRefines ==
    ASSUME FullChunks + TailSize > 0, IInv, IInv', UNCHANGED client,
           NEW p \in Ports, NEW s, conn' = [conn EXCEPT ![p] = s],
           \/ ReportOfSender(conn[p]) = "open"
           \/ ReportOfSender(s) = ReportOfSender(conn[p])
    PROVE  [Transfer!Next]_(Transfer!vars)
<1>1. /\ conn'[p] = s
      /\ \A q \in Ports : q # p => conn'[q] = conn[q]
  BY DEF IInv, TypeOK
<1> QED
  BY <1>1, SenderStep

\* Every step of the server is a step of the abstract transfer.
LEMMA ServerRefines ==
    ASSUME FullChunks + TailSize > 0, IInv, IInv', ServerNext
    PROVE  [Transfer!Next]_(Transfer!vars)
<1>0. conn \in [Ports -> Senders]
  BY DEF IInv, TypeOK
<1>1. CASE ServerStops
  <2> SUFFICES ASSUME NEW p \in Ports
               PROVE  \/ ReportOfSender(conn[p]) = "open"
                      \/ ReportOfSender(conn'[p]) = ReportOfSender(conn[p])
    BY <1>1, SenderStep DEF ServerStops
  <2>1. CASE conn[p].pc = "sending"
    <3>1. conn'[p] = [conn[p] EXCEPT !.pc = "stopped"]
      BY <1>1, <2>1 DEF ServerStops
    <3>2. conn'[p].pc = "stopped" /\ conn'[p].stream = conn[p].stream
      BY <1>0, <3>1 DEF Senders
    <3> QED
      BY <2>1, <3>2, ReportFacts
  <2>2. CASE conn[p].pc # "sending"
    BY <1>1, <2>2 DEF ServerStops
  <2> QED
    BY <2>1, <2>2
<1>2. ASSUME NEW p \in Ports, Accept(p)
      PROVE  [Transfer!Next]_(Transfer!vars)
  <2>1. ReportOfSender(conn[p]) = "open" /\ UNCHANGED client
    BY <1>2, ReportFacts DEF Accept, ClientSame, IInv, ConnInv, IdleSender
  <2>2. \E s : conn' = [conn EXCEPT ![p] = s]
    BY <1>2 DEF Accept, ConnContinues
  <2> QED
    BY <2>1, <2>2, ConnRefines
<1>3. ASSUME NEW p \in Ports, ConnLoop(p)
      PROVE  [Transfer!Next]_(Transfer!vars)
  <2>1. /\ UNCHANGED client /\ conn[p].pc = "sending"
        /\ \E s \in SenderTop(conn[p]) \cup SenderAfterAck(conn[p]) :
              conn' = [conn EXCEPT ![p] = s]
    BY <1>3 DEF ConnLoop, ConnTimeout, ConnIgnores, ConnAdvances, ConnContinues,
                ClientSame
  <2>2. conn[p] \in Senders /\ StreamOf(conn[p])
    BY <1>0, <2>1 DEF IInv, StreamInv
  <2> QED
    BY <2>1, <2>2, ReportIsFinal, ConnRefines
<1>4. ASSUME NEW p \in Ports, ConnWatchdog(p)
      PROVE  [Transfer!Next]_(Transfer!vars)
  <2> DEFINE s == [conn[p] EXCEPT !.expired = TRUE]
  <2>1. /\ conn' = [conn EXCEPT ![p] = s] /\ UNCHANGED client
        /\ s.pc = conn[p].pc /\ s.stream = conn[p].stream
    BY <1>0, <1>4 DEF ConnWatchdog, ClientSame, Senders
  <2> HIDE DEF s
  <2>2. ReportOfSender(s) = ReportOfSender(conn[p])
    BY <2>1 DEF ReportOfSender
  <2> QED
    BY <2>1, <2>2, ConnRefines
<1> QED
  BY <1>1, <1>2, <1>3, <1>4 DEF ServerNext

-----------------------------------------------------------------------------
\* A read of a file that is not empty does nothing that the abstract transfer
\* does not allow: chunks are written one at a time, the connection reports
\* success only when the client has all of them, the client only then or
\* after a read error, and neither takes its report back.
THEOREM Refinement ==
    ASSUME FullChunks + TailSize > 0
    PROVE  Spec => ImplementsTransfer
<1>1. Init => Transfer!Init
  BY DEF Init, NewClient, Transfer!Init, SenderReport, ReceiverReport
<1>2. IInv /\ IInv' /\ [Next]_vars => [Transfer!Next]_(Transfer!vars)
  <2> SUFFICES ASSUME IInv, IInv', [Next]_vars
               PROVE  [Transfer!Next]_(Transfer!vars)
    OBVIOUS
  <2>1. CASE ClientNext
    BY <2>1, ClientRefines
  <2>2. CASE ServerNext
    BY <2>2, ServerRefines
  <2>3. CASE Lose \/ UNCHANGED vars
    BY <2>3 DEF Lose, vars, Transfer!vars, SenderReport, ReceiverReport
  <2> QED
    BY <2>1, <2>2, <2>3 DEF Next
<1> QED
  BY <1>1, <1>2, Invariance, PTL DEF Spec, ImplementsTransfer, Transfer!Spec
=============================================================================
