--------------------------- MODULE TftpCommonProofs ---------------------------
(***************************************************************************)
(* What the operators of TftpCommon return, for every file and every kind  *)
(* of fault.                                                               *)
(***************************************************************************)
EXTENDS TftpCommon, TLAPS

\* A chunk is at most ChunkSize bytes long, and shorter exactly when it is
\* the last one.
LEMMA ChunkLenFacts ==
    /\ NumBlocks \in Nat \ {0}
    /\ \A i \in Nat : ChunkLen(i) \in Sizes
    /\ \A i \in Nat : ChunkLen(i) = ChunkSize <=> i < NumBlocks
    /\ ChunkLen(NumBlocks) = TailSize
BY SizeAssumption DEF NumBlocks, ChunkLen, Sizes

\* ++block stays a block number: it is the next one or, after the last, 0.
LEMMA NextBlockFacts ==
    ASSUME NEW b \in BlockNumbers
    PROVE  /\ NextBlock(b) \in BlockNumbers
           /\ NextBlock(b) = IF b + 1 = BlockModulus THEN 0 ELSE b + 1
BY ModulusAssumption DEF NextBlock, BlockNumbers

\* The top of send_loop changes nothing but the pc; it sends only when there
\* is something to send and ends with success only at the end of the file.
LEMMA SenderTopFacts ==
    ASSUME NEW s \in Senders, NEW t \in SenderTop(s)
    PROVE  /\ t \in Senders
           /\ t = [s EXCEPT !.pc = t.pc]
           /\ t.pc \in {"sending", "ok", "failed"}
           /\ t.pc = "sending" => MoreToSend(s.size, s.last)
           /\ ~MoreToSend(s.size, s.last) => t.pc = SenderResult(s.stream)
           /\ t.pc = "ok" => s.stream = "eof" /\ ~MoreToSend(s.size, s.last)
BY DEF SenderTop, SenderResult, Senders, SenderPcs

\* A read at chunk i of a good stream returns that chunk or fails; a stream
\* that is not good returns nothing.
LEMMA FileReadsFacts ==
    ASSUME NEW i \in Nat \ {0}, NEW stream \in Streams,
           NEW r \in FileReads(i, stream)
    PROVE  /\ r.size \in Sizes /\ r.stream \in Streams
           /\ stream # "good" => r.size = 0 /\ r.stream = stream
           /\ stream = "good" =>
                \/ r.stream = "bad" /\ r.size = 0
                \/ r.stream = "good" /\ i < NumBlocks /\ r.size = ChunkSize
                \/ r.stream = "eof" /\ i >= NumBlocks /\ r.size = TailSize
BY SizeAssumption DEF FileReads, Streams, Sizes, ChunkLen, NumBlocks

\* The state of a sender before it opens its file is one of a sender.
LEMMA IdleSenderType == IdleSender \in Senders
<1>1. 1 \in BlockNumbers /\ 0 \in Sizes
  BY SizeAssumption, ModulusAssumption DEF BlockNumbers, Sizes
<1> QED
  BY <1>1 DEF Senders, SenderPcs, IdleSender, Streams

\* A sender starts at the first chunk.
LEMMA SenderStartFacts ==
    ASSUME NEW stream \in {"good", "bad"}, NEW t \in SenderStart(stream)
    PROVE  /\ t \in Senders
           /\ t.chunk = 1 /\ t.block = 1 /\ t.last = 0 /\ ~t.expired
           /\ t.pc \in {"sending", "ok", "failed"}
           /\ t.pc = "sending" => t.size > 0
           /\ t.pc = "ok" => t.stream = "eof" /\ t.size = 0
           /\ \/ t.stream = "bad" /\ t.size = 0
              \/ t.stream = "good" /\ 1 < NumBlocks /\ t.size = ChunkSize
              \/ t.stream = "eof" /\ 1 = NumBlocks /\ t.size = TailSize
<1>1. PICK s \in NewSenders(stream) : t \in SenderTop(s)
  BY DEF SenderStart
<1>2. PICK r \in FileReads(1, stream) :
        s = [IdleSender EXCEPT !.size = r.size, !.stream = r.stream]
  BY <1>1 DEF NewSenders
<1>3. 1 \in Nat \ {0} /\ stream \in Streams
  BY DEF Streams
<1>4. r.size \in Sizes /\ r.stream \in Streams
  BY <1>2, <1>3, FileReadsFacts
<1>5. s \in Senders
  <2>1. IdleSender \in Senders
    BY IdleSenderType
  <2> QED
    BY <1>2, <1>4, <2>1 DEF Senders
<1>6. /\ s.chunk = 1 /\ s.block = 1 /\ s.last = 0 /\ ~s.expired
      /\ s.size = r.size /\ s.stream = r.stream
  BY <1>2 DEF IdleSender
<1>7. /\ t \in Senders /\ t = [s EXCEPT !.pc = t.pc]
      /\ t.pc \in {"sending", "ok", "failed"}
      /\ t.pc = "sending" => MoreToSend(s.size, s.last)
      /\ t.pc = "ok" => s.stream = "eof" /\ ~MoreToSend(s.size, s.last)
  BY <1>1, <1>5, SenderTopFacts
<1>8. /\ t.chunk = 1 /\ t.block = 1 /\ t.last = 0 /\ ~t.expired
      /\ t.size = r.size /\ t.stream = r.stream
  BY <1>5, <1>6, <1>7 DEF Senders
<1>9. NumBlocks \in Nat \ {0}
  BY ChunkLenFacts
<1>10. \/ r.stream = "bad" /\ r.size = 0
       \/ r.stream = "good" /\ 1 < NumBlocks /\ r.size = ChunkSize
       \/ r.stream = "eof" /\ 1 = NumBlocks /\ r.size = TailSize
  BY <1>2, <1>3, <1>9, FileReadsFacts
<1> QED
  BY <1>4, <1>6, <1>7, <1>8, <1>10, SizeAssumption DEF MoreToSend, Sizes

\* An acknowledged sender has read the chunk after the one it has sent.
LEMMA SenderAfterAckFacts ==
    ASSUME NEW s \in Senders, NEW t \in SenderAfterAck(s)
    PROVE  /\ t \in Senders
           /\ t.chunk = s.chunk + 1 /\ t.block = NextBlock(s.block)
           /\ t.last = s.size /\ t.expired = s.expired
           /\ t.pc \in {"sending", "ok", "failed"}
           /\ t.pc = "sending" => MoreToSend(t.size, t.last)
           /\ ~MoreToSend(t.size, t.last) => t.pc = SenderResult(t.stream)
           /\ t.pc = "ok" => t.stream = "eof" /\ ~MoreToSend(t.size, t.last)
           /\ s.stream # "good" => t.size = 0 /\ t.stream = s.stream
           /\ s.stream = "good" =>
                \/ t.stream = "bad" /\ t.size = 0
                \/ t.stream = "good" /\ t.chunk < NumBlocks /\ t.size = ChunkSize
                \/ t.stream = "eof" /\ t.chunk >= NumBlocks /\ t.size = TailSize
<1>1. PICK u \in AdvancedSenders(s) : t \in SenderTop(u)
  BY DEF SenderAfterAck
<1>2. PICK r \in FileReads(s.chunk + 1, s.stream) :
        u = [s EXCEPT !.last = s.size, !.size = r.size, !.stream = r.stream,
                      !.chunk = s.chunk + 1, !.block = NextBlock(s.block)]
  BY <1>1 DEF AdvancedSenders
<1>3. s.chunk + 1 \in Nat \ {0} /\ s.stream \in Streams
  BY DEF Senders
<1>4. /\ r.size \in Sizes /\ r.stream \in Streams
      /\ s.stream # "good" => r.size = 0 /\ r.stream = s.stream
      /\ s.stream = "good" =>
           \/ r.stream = "bad" /\ r.size = 0
           \/ r.stream = "good" /\ s.chunk + 1 < NumBlocks /\ r.size = ChunkSize
           \/ r.stream = "eof" /\ s.chunk + 1 >= NumBlocks /\ r.size = TailSize
  BY <1>2, <1>3, FileReadsFacts
<1>5. NextBlock(s.block) \in BlockNumbers
  BY NextBlockFacts DEF Senders
<1>6. /\ u \in Senders
      /\ u.chunk = s.chunk + 1 /\ u.block = NextBlock(s.block)
      /\ u.last = s.size /\ u.expired = s.expired
      /\ u.size = r.size /\ u.stream = r.stream
  BY <1>2, <1>3, <1>4, <1>5 DEF Senders
<1>7. /\ t \in Senders /\ t = [u EXCEPT !.pc = t.pc]
      /\ t.pc \in {"sending", "ok", "failed"}
      /\ t.pc = "sending" => MoreToSend(u.size, u.last)
      /\ ~MoreToSend(u.size, u.last) => t.pc = SenderResult(u.stream)
      /\ t.pc = "ok" => u.stream = "eof" /\ ~MoreToSend(u.size, u.last)
  BY <1>1, <1>6, SenderTopFacts
<1>8. /\ t.chunk = u.chunk /\ t.block = u.block /\ t.last = u.last
      /\ t.expired = u.expired /\ t.size = u.size /\ t.stream = u.stream
  BY <1>6, <1>7 DEF Senders
<1> QED
  BY <1>4, <1>6, <1>7, <1>8

\* A block that is sent is a chunk of the file, or empty.
LEMMA SentIsChunk ==
    ASSUME NEW s \in Senders, s.pc = "sending", StreamOf(s)
    PROVE  /\ s.chunk \in Nat \ {0} /\ s.chunk <= NumBlocks
           /\ \/ s.size = ChunkLen(s.chunk)
              \/ s.size = 0 /\ s.stream = "bad"
BY SizeAssumption DEF StreamOf, Senders, Streams, ChunkLen, NumBlocks

\* The loop invariant of send_loop holds when the file was opened ...
LEMMA StreamOfAtStart ==
    ASSUME NEW stream \in {"good", "bad"}, NEW t \in SenderStart(stream)
    PROVE  StreamOf(t)
BY SenderStartFacts, SizeAssumption DEF StreamOf, NumBlocks

\* ... is kept where the block is sent once more ...
LEMMA StreamOfAtTop ==
    ASSUME NEW s \in Senders, s.pc = "sending", StreamOf(s),
           NEW t \in SenderTop(s)
    PROVE  /\ StreamOf(t) /\ t \in Senders
           /\ t.pc \in {"sending", "ok", "failed"}
           /\ t.block = s.block /\ t.chunk = s.chunk /\ t.size = s.size
           /\ t.last = s.last /\ t.stream = s.stream
<1>1. /\ t \in Senders /\ t = [s EXCEPT !.pc = t.pc]
      /\ t.pc \in {"sending", "ok", "failed"}
      /\ t.pc = "ok" => s.stream = "eof" /\ ~MoreToSend(s.size, s.last)
  BY SenderTopFacts
<1>2. /\ t.block = s.block /\ t.chunk = s.chunk /\ t.size = s.size
      /\ t.last = s.last /\ t.stream = s.stream
  BY <1>1 DEF Senders
<1>3. StreamOf(t)
  BY <1>1, <1>2 DEF StreamOf, MoreToSend, Senders, Sizes
<1> QED
  BY <1>1, <1>2, <1>3

\* ... and where the next one is read; after an error none is sent any more.
LEMMA StreamOfAfterAck ==
    ASSUME NEW s \in Senders, s.pc = "sending", StreamOf(s),
           NEW t \in SenderAfterAck(s)
    PROVE  /\ StreamOf(t) /\ t \in Senders
           /\ t.pc \in {"sending", "ok", "failed"}
           /\ t.chunk = s.chunk + 1 /\ t.block = NextBlock(s.block)
           /\ s.stream # "good" => t.stream = s.stream
           /\ t.pc = "sending" => s.stream = "good"
<1>1. /\ t \in Senders
      /\ t.chunk = s.chunk + 1 /\ t.block = NextBlock(s.block)
      /\ t.last = s.size
      /\ t.pc \in {"sending", "ok", "failed"}
      /\ t.pc = "sending" => MoreToSend(t.size, t.last)
      /\ ~MoreToSend(t.size, t.last) => t.pc = SenderResult(t.stream)
      /\ t.pc = "ok" => t.stream = "eof" /\ ~MoreToSend(t.size, t.last)
      /\ s.stream # "good" => t.size = 0 /\ t.stream = s.stream
      /\ s.stream = "good" =>
           \/ t.stream = "bad" /\ t.size = 0
           \/ t.stream = "good" /\ t.chunk < NumBlocks /\ t.size = ChunkSize
           \/ t.stream = "eof" /\ t.chunk >= NumBlocks /\ t.size = TailSize
  BY SenderAfterAckFacts
<1>2. t.pc = "sending" => s.stream = "good"
  BY <1>1, SizeAssumption
     DEF StreamOf, MoreToSend, Senders, Streams, Sizes, NumBlocks
<1>3. CASE s.stream = "good"
  <2>1. s.chunk <= FullChunks /\ s.size = ChunkSize
    BY <1>3 DEF StreamOf
  <2>2. StreamOf(t)
    BY <1>1, <1>3, <2>1, SizeAssumption
       DEF StreamOf, MoreToSend, NumBlocks, Senders, Sizes
  <2> QED
    BY <1>1, <1>2, <2>2
<1>4. CASE s.stream = "eof"
  <2>1. s.chunk = NumBlocks /\ s.size = TailSize
    BY <1>4 DEF StreamOf
  <2>2. t.pc = "ok"
    BY <1>1, <1>4, <2>1, SizeAssumption DEF MoreToSend, SenderResult
  <2>3. StreamOf(t)
    BY <1>1, <1>4, <2>1, <2>2, SizeAssumption DEF StreamOf, NumBlocks
  <2> QED
    BY <1>1, <1>2, <2>3
<1>5. CASE s.stream = "bad"
  <2>1. StreamOf(t)
    BY <1>1, <1>2, <1>5 DEF StreamOf
  <2> QED
    BY <1>1, <1>2, <2>1
<1> QED
  BY <1>3, <1>4, <1>5 DEF Senders, Streams
\* The four reports of a sender, one at a time.
LEMMA ReportFacts ==
    ASSUME NEW s
    PROVE  /\ ReportOfSender(s) \in {"open", "cut", "failed", "done"}
           /\ ReportOfSender(s) = "done" <=> s.pc = "ok"
           /\ ReportOfSender(s) = "cut" <=> s.pc # "ok" /\ s.stream = "bad"
           /\ ReportOfSender(s) = "failed" <=>
                s.pc \in {"failed", "refused", "stopped"} /\ s.stream # "bad"
BY DEF ReportOfSender
\* A sender of a file that is not empty succeeds only after its last chunk.
LEMMA OkIsAtEnd ==
    ASSUME FullChunks + TailSize > 0,
           NEW s \in Senders, StreamOf(s), s.pc = "ok"
    PROVE  s.chunk = NumBlocks + 1 /\ s.stream = "eof"
BY SizeAssumption DEF StreamOf, NumBlocks, Senders, Sizes

\* A sender that goes on does not take back what it has said.
LEMMA ReportIsFinal ==
    ASSUME NEW s \in Senders, s.pc = "sending", StreamOf(s),
           NEW t \in SenderTop(s) \cup SenderAfterAck(s)
    PROVE  ReportOfSender(s) = "open" \/ ReportOfSender(t) = ReportOfSender(s)
<1>1. s.stream = "bad" => t.stream = "bad" /\ StreamOf(t)
  BY StreamOfAtTop, StreamOfAfterAck
<1>2. s.stream = "bad" => t.stream = "bad" /\ t.pc # "ok"
  BY <1>1 DEF StreamOf
<1> QED
  BY <1>2, ReportFacts
=============================================================================
