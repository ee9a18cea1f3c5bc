--------------------------- MODULE FtpClientProofs ---------------------------
(***************************************************************************)
(* IInv is an invariant of FtpClient, for all names, files and numbers of  *)
(* commands, and for every server that the model allows; the safety        *)
(* properties of the client follow from it.                                *)
(*                                                                         *)
(* The heart of it: when the client leaves the window of a PASV for a data *)
(* connection, its reply is the last thing that was on its way (Quiet), so *)
(* whatever comes after the next line is about that line.                  *)
(***************************************************************************)
EXTENDS FtpClient, SequenceTheorems, TLAPS

\* How many lines were written, by what the client is waiting for.
WritesInv ==
    /\ pc \in {"connect", "greeting"} => writes = 0
    /\ pc = "opts" => writes = 1
    /\ pc = "user" => writes = 2
    /\ pc = "pass" => writes = 3
    /\ pc = "prompt" => writes <= 3 + 2 * commands
    /\ pc \in {"passive", "open"} => commands > 0 /\ writes <= 2 + 2 * commands
    /\ pc \in {"transfer", "data"} => writes <= 3 + 2 * commands

\* A reply that lets the user in comes from a server that did.
LoginTrue(r) == r.code = "login" => loggedIn

LoginInv ==
    /\ \A i \in DOMAIN control : LoginTrue(control[i])
    /\ last # NoLine => LoginTrue(last)
    /\ pc \in {"prompt", "passive", "open", "transfer", "data"} => loggedIn

\* Nothing is on its way, and the server has nothing to do.
Quiet == control = <<>> /\ requests = <<>> /\ serving = 0

\* A PASV that was not answered, or its answer that was not read, is the one
\* the client waits for, and the last thing on its way.
PassiveInv ==
    /\ \A i \in DOMAIN control : control[i].code = "passive" =>
        /\ pc = "passive" /\ i = Len(control) /\ control[i].of = writes
        /\ requests = <<>> /\ serving = 0
    /\ \A i \in DOMAIN requests : requests[i].verb = "PASV" =>
        /\ pc = "passive" /\ i = Len(requests) /\ requests[i].number = writes
    /\ pc = "passive" /\ requests # <<>> => ~Says({"passive"})
    /\ pc \in {"passive", "open"} /\ Says({"passive"}) =>
        Quiet /\ last.of = writes
    /\ pc = "open" => Says({"passive"})

\* A reply to the transfer the client waits for says how it is.
TransferTrue(r) ==
    /\ r.of = writes
    /\ r.code = "closing" =>
        /\ data.state \in {"whole", "broken"} /\ data.name = asked
        /\ requests = <<>> /\ serving = 0
    /\ r.code = "failed" => asked \notin Files

\* While the client waits for a transfer everything is about that transfer.
TransferInv ==
    pc \in {"transfer", "data"} =>
        /\ data.state \in {"open", "whole", "part", "broken"}
        /\ \A i \in DOMAIN control : TransferTrue(control[i])
        /\ last # NoLine => TransferTrue(last)
        /\ \A i \in DOMAIN requests :
            /\ i = 1 /\ requests[i].verb = "TRANSFER"
            /\ requests[i].name = asked /\ requests[i].number = writes
            /\ serving = 0 /\ data.state \in {"open", "broken"}
        /\ serving # 0 =>
            /\ requests = <<>> /\ serving = writes
            /\ data.state \in {"open", "broken"} /\ data.name = asked
        /\ pc = "data" => Says({"closing"})

TypeInv == TypeOK /\ WritesInv
StepInv == pc # "ended" => LoginInv /\ PassiveInv /\ TransferInv
IInv == TypeInv /\ StepInv /\ OutputTrue

\* What the server has to handle.
Lines == [verb : Verbs, name : Names \cup {NoName}, number : 1 .. MaxWrites]

-----------------------------------------------------------------------------
(* Sequences.                                                              *)

\* What is left of the replies when a window closes: at the same distance
\* from the end the same reply, or a torn one that answers the same line.
Rest(c, d) ==
    \A i \in DOMAIN d : \E j \in DOMAIN c :
        /\ Len(c) - j = Len(d) - i
        /\ d[i] = c[j] \/ (d[i].code = "other" /\ d[i].of = c[j].of)

\* A torn line is a reply.
LEMMA TornReply ==
    ASSUME NEW r \in Replies
    PROVE  Reply("other", r.of) \in Replies
BY DEF Reply, Replies, Codes

\* The replies without the first are a rest of them.
LEMMA TailIsRest ==
    ASSUME NEW c \in Seq(Replies), c # <<>>
    PROVE  Tail(c) \in Seq(Replies) /\ Rest(c, Tail(c))
<1>1. /\ Tail(c) \in Seq(Replies) /\ Len(Tail(c)) = Len(c) - 1
      /\ \A i \in 1 .. Len(Tail(c)) : Tail(c)[i] = c[i + 1]
  BY HeadTailProperties
<1>2. ASSUME NEW i \in DOMAIN Tail(c)
      PROVE  /\ i + 1 \in DOMAIN c /\ Len(c) - (i + 1) = Len(Tail(c)) - i
             /\ Tail(c)[i] = c[i + 1]
  BY <1>1, LenProperties
<1> QED
  BY <1>1, <1>2 DEF Rest

\* The replies without the first few: which they are, and that they are a rest.
LEMMA EndFacts ==
    ASSUME NEW c \in Seq(Replies), NEW lost \in 0 .. Len(c)
    PROVE  LET d == SubSeq(c, lost + 1, Len(c))
           IN /\ d \in Seq(Replies) /\ Len(d) = Len(c) - lost
              /\ \A i \in 1 .. Len(c) - lost : d[i] = c[lost + i]
<1> DEFINE d == SubSeq(c, lost + 1, Len(c))
<1>1. Len(c) \in Nat /\ DOMAIN c = 1 .. Len(c) /\ lost \in Nat /\ lost <= Len(c)
  BY LenProperties
<1>2. \A i \in lost + 1 .. Len(c) : c[i] \in Replies
  BY <1>1, ElementOfSeq
<1>3. lost + 1 \in Int /\ Len(c) \in Int
  BY <1>1
<1>4. /\ d \in Seq(Replies)
      /\ Len(d) = IF lost + 1 <= Len(c) THEN Len(c) - (lost + 1) + 1 ELSE 0
      /\ \A i \in 1 .. Len(c) - (lost + 1) + 1 : d[i] = c[lost + 1 + i - 1]
  BY <1>2, <1>3, SubSeqProperties
<1> HIDE DEF d
<1>5. Len(d) = Len(c) - lost
  <2>1. \A n \in Nat : \A k \in 0 .. n :
            (IF k + 1 <= n THEN n - (k + 1) + 1 ELSE 0) = n - k
    OBVIOUS
  <2> QED
    BY <1>1, <1>4, <2>1
<1>6. ASSUME NEW i \in 1 .. Len(c) - lost PROVE d[i] = c[lost + i]
  <2>1. i \in 1 .. Len(c) - (lost + 1) + 1 /\ lost + 1 + i - 1 = lost + i
    BY <1>1
  <2> QED
    BY <1>4, <2>1
<1> QED
  BY <1>4, <1>5, <1>6 DEF d

LEMMA EndIsRest ==
    ASSUME NEW c \in Seq(Replies), NEW lost \in 0 .. Len(c)
    PROVE  /\ SubSeq(c, lost + 1, Len(c)) \in Seq(Replies)
           /\ Rest(c, SubSeq(c, lost + 1, Len(c)))
<1> DEFINE d == SubSeq(c, lost + 1, Len(c))
<1>1. Len(c) \in Nat /\ DOMAIN c = 1 .. Len(c) /\ lost \in Nat /\ lost <= Len(c)
  BY LenProperties
<1>3. /\ d \in Seq(Replies) /\ Len(d) = Len(c) - lost
      /\ \A i \in 1 .. Len(c) - lost : d[i] = c[lost + i]
  BY EndFacts
<1> HIDE DEF d
<1>4. ASSUME NEW i \in DOMAIN d
      PROVE  /\ lost + i \in DOMAIN c /\ Len(c) - (lost + i) = Len(d) - i
             /\ d[i] = c[lost + i]
  BY <1>1, <1>3, LenProperties
<1>5. Rest(c, d)
  BY <1>4 DEF Rest
<1> QED
  BY <1>3, <1>5 DEF d

\* Also when a torn line stands for the last one lost.
LEMMA TornIsRest ==
    ASSUME NEW c \in Seq(Replies), NEW lost \in 1 .. Len(c), NEW d \in Seq(Replies),
           d = SubSeq(c, lost + 1, Len(c))
    PROVE  /\ <<Reply("other", c[lost].of)>> \o d \in Seq(Replies)
           /\ Rest(c, <<Reply("other", c[lost].of)>> \o d)
<1> DEFINE torn == Reply("other", c[lost].of)
<1> DEFINE e == <<torn>> \o d
<1>1. Len(c) \in Nat /\ DOMAIN c = 1 .. Len(c) /\ lost \in DOMAIN c /\ lost \in Nat
  BY LenProperties
<1>2. c[lost] \in Replies
  BY <1>1, ElementOfSeq
<1>3. /\ Len(d) = Len(c) - lost
      /\ \A i \in 1 .. Len(c) - lost : d[i] = c[lost + i]
  BY <1>1, EndFacts
<1>4. <<torn>> \in Seq(Replies) /\ Len(<<torn>>) = 1 /\ <<torn>>[1] = torn
  BY <1>2, TornReply
<1>5. torn.code = "other" /\ torn.of = c[lost].of
  BY DEF Reply
<1> HIDE DEF torn
<1>6. /\ e \in Seq(Replies) /\ Len(e) = Len(c) - lost + 1
      /\ \A i \in 1 .. Len(e) : e[i] = IF i = 1 THEN torn ELSE d[i - 1]
  BY <1>1, <1>3, <1>4, ConcatProperties
<1> HIDE DEF e
<1>7. DOMAIN e = 1 .. Len(e)
  BY <1>6, LenProperties
<1>8. ASSUME NEW i \in DOMAIN e
      PROVE  /\ lost + i - 1 \in DOMAIN c
             /\ Len(c) - (lost + i - 1) = Len(e) - i
             /\ \/ e[i] = c[lost + i - 1]
                \/ e[i].code = "other" /\ e[i].of = c[lost + i - 1].of
  <2>1. i \in 1 .. Len(c) - lost + 1
    BY <1>6, <1>7
  <2>2. CASE i = 1
    <3>1. e[i] = torn /\ lost + i - 1 = lost
      BY <1>1, <1>6, <1>7, <2>2
    <3> QED
      BY <1>1, <1>5, <1>6, <2>2, <3>1
  <2>3. CASE i # 1
    <3>1. i - 1 \in 1 .. Len(c) - lost /\ lost + (i - 1) = lost + i - 1
      BY <1>1, <2>1, <2>3
    <3>2. e[i] = d[i - 1] /\ d[i - 1] = c[lost + (i - 1)]
      BY <1>3, <1>6, <1>7, <2>3, <3>1
    <3>3. e[i] = c[lost + i - 1]
      BY <3>1, <3>2
    <3> QED
      BY <1>1, <1>6, <2>1, <2>3, <3>3
  <2> QED
    BY <2>2, <2>3
<1>9. Rest(c, e)
  BY <1>8 DEF Rest
<1> QED
  BY <1>6, <1>9 DEF e, torn

\* When a window closes.
LEMMA ClosesFacts ==
    ASSUME TypeOK, NEW wait, Closes(wait)
    PROVE  control' \in Seq(Replies) /\ Rest(control, control') /\ pc = wait
<1>1. PICK lost \in 0 .. Len(control) :
        \/ control' = SubSeq(control, lost + 1, Len(control))
        \/ /\ lost > 0
           /\ control' = <<Reply("other", control[lost].of)>>
                            \o SubSeq(control, lost + 1, Len(control))
  BY DEF Closes
<1>2. /\ SubSeq(control, lost + 1, Len(control)) \in Seq(Replies)
      /\ Rest(control, SubSeq(control, lost + 1, Len(control)))
  BY EndIsRest DEF TypeOK
<1>3. CASE control' = SubSeq(control, lost + 1, Len(control))
  BY <1>2, <1>3 DEF Closes
<1>4. CASE /\ lost > 0
           /\ control' = <<Reply("other", control[lost].of)>>
                            \o SubSeq(control, lost + 1, Len(control))
  <2>1. lost \in 1 .. Len(control)
    BY <1>4
  <2> QED
    BY <1>2, <1>4, <2>1, TornIsRest DEF TypeOK, Closes
<1> QED
  BY <1>1, <1>3, <1>4

\* When a reply or a line is added.
LEMMA AppendFacts ==
    ASSUME NEW S, NEW c \in Seq(S), NEW e \in S
    PROVE  /\ Append(c, e) \in Seq(S) /\ Append(c, e) # <<>>
           /\ Len(Append(c, e)) = Len(c) + 1
           /\ \A i \in DOMAIN Append(c, e) :
                \/ i = Len(c) + 1 /\ Append(c, e)[i] = e
                \/ i \in DOMAIN c /\ Append(c, e)[i] = c[i]
BY AppendProperties, LenProperties

\* When the first is taken.
LEMMA TailFacts ==
    ASSUME NEW S, NEW c \in Seq(S), c # <<>>
    PROVE  /\ Tail(c) \in Seq(S) /\ Head(c) \in S
           /\ 1 \in DOMAIN c /\ Head(c) = c[1]
           /\ Len(Tail(c)) = Len(c) - 1 /\ Len(c) \in Nat
           /\ Len(c) = 1 => Tail(c) = <<>>
           /\ \A i \in DOMAIN Tail(c) :
                i + 1 \in DOMAIN c /\ Tail(c)[i] = c[i + 1]
<1>1. /\ Tail(c) \in Seq(S) /\ Head(c) \in S /\ Len(Tail(c)) = Len(c) - 1
      /\ \A i \in 1 .. Len(Tail(c)) : Tail(c)[i] = c[i + 1]
  BY HeadTailProperties
<1>2. DOMAIN Tail(c) = 1 .. Len(Tail(c)) /\ DOMAIN c = 1 .. Len(c)
      /\ Len(c) \in Nat
  BY <1>1, LenProperties
<1>3. ASSUME Len(c) = 1 PROVE Tail(c) = <<>>
  <2>1. Len(Tail(c)) = 0
    BY <1>1, <1>3
  <2> QED
    BY <1>1, <2>1, EmptySeq
<1>4. Head(c) = c[1] /\ Len(c) > 0
  BY <1>2
<1> QED
  BY <1>1, <1>2, <1>3, <1>4

-----------------------------------------------------------------------------
(* Types.                                                                  *)

\* A line that is written has a number within the bound.
LEMMA WriteFacts ==
    ASSUME TypeInv, NEW verb \in Verbs, NEW name \in Names \cup {NoName},
           NEW next, Write(verb, name, next), writes < MaxWrites
    PROVE  /\ requests' \in Seq(Lines)
           /\ requests' # <<>> /\ Len(requests') = Len(requests) + 1
           /\ \A i \in DOMAIN requests' :
                \/ /\ i = Len(requests')
                   /\ requests'[i] = [verb |-> verb, name |-> name,
                                      number |-> writes + 1]
                \/ i \in DOMAIN requests /\ requests'[i] = requests[i]
           /\ writes' = writes + 1 /\ writes' \in 0 .. MaxWrites
           /\ pc' = next /\ last' = NoLine
<1> DEFINE line == [verb |-> verb, name |-> name, number |-> writes + 1]
<1>1. writes \in Nat /\ MaxWrites \in Nat /\ requests \in Seq(Lines)
  BY BoundAssumption DEF TypeInv, TypeOK, MaxWrites, Lines
<1>2. line \in Lines
  BY <1>1 DEF Lines
<1>3. /\ requests' = Append(requests, line) /\ writes' = writes + 1
      /\ pc' = next /\ last' = NoLine
  BY DEF Write
<1> HIDE DEF line
<1>4. /\ Append(requests, line) \in Seq(Lines) /\ Append(requests, line) # <<>>
      /\ Len(Append(requests, line)) = Len(requests) + 1
      /\ \A i \in DOMAIN Append(requests, line) :
            \/ i = Len(requests) + 1 /\ Append(requests, line)[i] = line
            \/ i \in DOMAIN requests /\ Append(requests, line)[i] = requests[i]
  BY <1>1, <1>2, AppendFacts
<1> QED
  BY <1>1, <1>3, <1>4 DEF line

\* Such a line has the type of a request.
LEMMA WriteTypes ==
    ASSUME TypeInv, NEW verb \in Verbs, NEW name \in Names \cup {NoName},
           NEW next, Write(verb, name, next), writes < MaxWrites
    PROVE  /\ requests' \in Seq(Lines)
           /\ writes' = writes + 1 /\ writes' \in 0 .. MaxWrites
           /\ pc' = next /\ last' = NoLine
BY WriteFacts

\* A reply that is sent.
LEMMA SendsFacts ==
    ASSUME TypeOK, NEW code \in Codes, NEW of \in 0 .. MaxWrites, Sends(code, of)
    PROVE  /\ control' \in Seq(Replies) /\ control' # <<>>
           /\ Len(control') = Len(control) + 1
           /\ \A i \in DOMAIN control' :
                \/ /\ i = Len(control')
                   /\ control'[i] = [code |-> code, of |-> of]
                \/ i \in DOMAIN control /\ control'[i] = control[i]
<1>1. control \in Seq(Replies) /\ Reply(code, of) \in Replies
  BY DEF TypeOK, Reply, Replies
<1> QED
  BY <1>1, AppendFacts DEF Sends, Reply

\* A line that the server takes.
LEMMA HandlesFacts ==
    ASSUME TypeOK, NEW verb, Handles(verb)
    PROVE  /\ Head(requests) \in [verb : {verb}, name : Names \cup {NoName},
                                  number : 1 .. MaxWrites]
           /\ requests' \in Seq(Lines)
           /\ serving = 0 /\ requests # <<>> /\ UNCHANGED clientVars
           /\ 1 \in DOMAIN requests /\ Head(requests) = requests[1]
           /\ Len(requests') = Len(requests) - 1 /\ Len(requests) \in Nat
           /\ Len(requests) = 1 => requests' = <<>>
           /\ \A i \in DOMAIN requests' :
                i + 1 \in DOMAIN requests /\ requests'[i] = requests[i + 1]
<1>1. /\ requests \in Seq(Lines) /\ requests # <<>> /\ requests' = Tail(requests)
      /\ serving = 0 /\ Head(requests).verb = verb /\ UNCHANGED clientVars
  BY DEF TypeOK, Handles, Lines
<1>2. /\ Tail(requests) \in Seq(Lines) /\ Head(requests) \in Lines
      /\ 1 \in DOMAIN requests /\ Head(requests) = requests[1]
      /\ Len(Tail(requests)) = Len(requests) - 1 /\ Len(requests) \in Nat
      /\ Len(requests) = 1 => Tail(requests) = <<>>
      /\ \A i \in DOMAIN Tail(requests) :
            i + 1 \in DOMAIN requests /\ Tail(requests)[i] = requests[i + 1]
  BY <1>1, TailFacts
<1> QED
  BY <1>1, <1>2 DEF Lines

\* The bound on the lines that are written is a number.
LEMMA MaxWritesFacts ==
    MaxCommands \in Nat /\ MaxWrites \in Nat /\ MaxWrites = 3 + 2 * MaxCommands
BY BoundAssumption DEF MaxWrites

\* Initially everything has its type.
LEMMA InitType == Init => TypeInv
<1> SUFFICES ASSUME Init PROVE TypeInv
  OBVIOUS
<1>1. control \in Seq(Replies) /\ requests \in Seq(Lines)
  BY EmptySeq DEF Init
<1>2. 0 \in 0 .. MaxWrites /\ 0 \in 0 .. MaxCommands
  BY MaxWritesFacts
<1> QED
  BY <1>1, <1>2
     DEF Init, TypeInv, TypeOK, WritesInv, Pcs, Reading, Nothing, DataStates, Lines

\* The steps of the client keep the types.
LEMMA ClientKeepsTypes == ASSUME TypeInv, Client PROVE TypeInv'
<1> USE DEF TypeInv
<1>0. CloseData => data' \in [state : DataStates, port : 0 .. MaxWrites,
                              name : Names \cup {NoName}]
  BY DEF TypeOK, CloseData, DataStates
<1>1. CASE Connect \/ Quit \/ DataRefused
  BY <1>1 DEF Connect, Quit, DataRefused, GoTo, TypeOK, WritesInv, Pcs,
              Reading, serverVars
<1>2. CASE ReadLine
  BY <1>2, TailFacts DEF ReadLine, TypeOK, WritesInv, serverVars, Reading
<1>3. CASE Greeted
  <2>1. Closes("greeting") /\ Write("OPTS", NoName, "opts")
    BY <1>3 DEF Greeted
  <2>2. writes < MaxWrites
    BY <2>1, MaxWritesFacts DEF Closes, WritesInv
  <2>9. /\ requests' \in Seq(Lines)
        /\ writes' = writes + 1 /\ writes' \in 0 .. MaxWrites
        /\ pc' = "opts" /\ last' = NoLine
    BY <2>1, <2>2, WriteTypes DEF Verbs
  <2>8. control' \in Seq(Replies) /\ pc = "greeting"
    BY <2>1, ClosesFacts
  <2> QED
    BY <1>3, <2>9, <2>8
       DEF Greeted, TypeOK, WritesInv, Lines, Pcs, Reading, Verbs, serverVars
<1>4. CASE OptsRead
  <2>1. Closes("opts") /\ Write("USER", NoName, "user")
    BY <1>4 DEF OptsRead
  <2>2. writes < MaxWrites
    BY <2>1, MaxWritesFacts DEF Closes, WritesInv
  <2>9. /\ requests' \in Seq(Lines)
        /\ writes' = writes + 1 /\ writes' \in 0 .. MaxWrites
        /\ pc' = "user" /\ last' = NoLine
    BY <2>1, <2>2, WriteTypes DEF Verbs
  <2>8. control' \in Seq(Replies) /\ pc = "opts"
    BY <2>1, ClosesFacts
  <2> QED
    BY <1>4, <2>9, <2>8
       DEF OptsRead, TypeOK, WritesInv, Lines, Pcs, Reading, Verbs, serverVars
<1>5. CASE UserRead
  <2>1. Closes("user")
    BY <1>5 DEF UserRead
  <2>2. writes < MaxWrites /\ writes = 2
    BY <2>1, MaxWritesFacts DEF Closes, WritesInv
  <2>3. CASE Write("PASS", NoName, "pass")
    <3>1. /\ requests' \in Seq(Lines)
          /\ writes' = writes + 1 /\ writes' \in 0 .. MaxWrites
          /\ pc' = "pass" /\ last' = NoLine
      BY <2>2, <2>3, WriteTypes DEF Verbs
    <3>2. control' \in Seq(Replies) /\ pc = "user"
      BY <2>1, ClosesFacts
    <3> QED
      BY <1>5, <2>2, <3>1, <3>2
         DEF UserRead, TypeOK, WritesInv, Pcs, Reading, Verbs, serverVars, Lines
  <2>4. CASE GoTo("prompt")
    BY <1>5, <2>1, <2>2, <2>4, ClosesFacts
       DEF UserRead, GoTo, TypeOK, WritesInv, Pcs, Reading, serverVars
  <2> QED
    BY <1>5, <2>3, <2>4 DEF UserRead
<1>6. CASE PassRead
  BY <1>6, ClosesFacts
     DEF PassRead, GoTo, TypeOK, WritesInv, Pcs, Reading, serverVars
<1>7. CASE LoginFails
  BY <1>7, ClosesFacts
     DEF LoginFails, GoTo, TypeOK, WritesInv, Pcs, Reading, serverVars
<1>8. CASE PassiveRead
  BY <1>8, ClosesFacts
     DEF PassiveRead, GoTo, TypeOK, WritesInv, Pcs, Reading, serverVars
<1>9. ASSUME NEW n \in Names, Ask(n) PROVE TypeInv'
  <2>1. writes < MaxWrites /\ commands' = commands + 1
        /\ commands' \in 0 .. MaxCommands /\ writes <= 1 + 2 * commands'
    BY <1>9, MaxWritesFacts DEF Ask, TypeOK, WritesInv
  <2>2. Write("PASV", NoName, "passive") /\ "PASV" \in Verbs
    BY <1>9 DEF Ask, Verbs
  <2>9. /\ requests' \in Seq(Lines)
        /\ writes' = writes + 1 /\ writes' \in 0 .. MaxWrites
        /\ pc' = "passive" /\ last' = NoLine
    BY <2>1, <2>2, <1>9, WriteTypes DEF Verbs
  <2> QED
    BY <1>9, <2>1, <2>9
       DEF Ask, TypeOK, WritesInv, Lines, Pcs, Reading, Nothing, serverVars
<1>10. CASE DataConnects
  <2>1. writes < MaxWrites
    BY <1>10, MaxWritesFacts DEF DataConnects, TypeOK, WritesInv
  <2>2. Write("TRANSFER", asked, "transfer") /\ "TRANSFER" \in Verbs
    BY <1>10 DEF DataConnects, Verbs
  <2>3. asked \in Names \cup {NoName}
    BY DEF TypeOK
  <2>9. /\ requests' \in Seq(Lines)
        /\ writes' = writes + 1 /\ writes' \in 0 .. MaxWrites
        /\ pc' = "transfer" /\ last' = NoLine
    BY <2>1, <2>2, <2>3, WriteTypes DEF Verbs
  <2>4. data' \in [state : DataStates, port : 0 .. MaxWrites,
                   name : Names \cup {NoName}]
    BY <1>10 DEF DataConnects, TypeOK, DataStates
  <2> QED
    BY <1>10, <2>9, <2>4
       DEF DataConnects, TypeOK, WritesInv, Lines, Pcs, Reading, DataStates, serverVars
<1>11. CASE TransferMissing
  BY <1>11, <1>0, ClosesFacts
     DEF TransferMissing, GoTo, TypeOK, WritesInv, Pcs, Reading, serverVars
<1>12. CASE TransferCompleted
  BY <1>12, ClosesFacts
     DEF TransferCompleted, GoTo, TypeOK, WritesInv, Pcs, Reading, serverVars
<1>13. CASE TransferGivenUp
  BY <1>13, <1>0, ClosesFacts
     DEF TransferGivenUp, GoTo, TypeOK, WritesInv, Pcs, Reading, serverVars
<1>14. CASE DataRead
  BY <1>14, <1>0
     DEF DataRead, GoTo, TypeOK, WritesInv, Pcs, Reading, serverVars
<1>15. CASE DataFails \/ Breaks
  BY <1>15, <1>0
     DEF DataFails, Breaks, GoTo, TypeOK, WritesInv, Pcs, Reading, serverVars
<1> QED
  BY <1>1, <1>2, <1>3, <1>4, <1>5, <1>6, <1>7, <1>8, <1>9, <1>10, <1>11,
     <1>12, <1>13, <1>14, <1>15 DEF Client, Waits

\* So do those of the server.
LEMMA ServerKeepsTypes == ASSUME TypeInv, Server PROVE TypeInv'
<1> USE DEF TypeInv
<1>1. CASE ServerGreets
  <2>1. 0 \in 0 .. MaxWrites /\ {"ready", "other"} \subseteq Codes
    BY MaxWritesFacts DEF Codes
  <2> QED
    BY <1>1, <2>1, SendsFacts
       DEF ServerGreets, TypeOK, WritesInv, Lines, clientVars, serverVars
<1>2. CASE ServerOpts
  <2>0. Handles("OPTS")
    BY <1>2 DEF ServerOpts
  <2>1. /\ Head(requests).number \in 0 .. MaxWrites
        /\ requests' \in Seq(Lines)
        /\ UNCHANGED clientVars
    BY <2>0, HandlesFacts, MaxWritesFacts
  <2>2. control' \in Seq(Replies)
    BY <1>2, <2>1, SendsFacts DEF ServerOpts, Codes
  <2> QED
    BY <1>2, <2>1, <2>2
       DEF ServerOpts, TypeOK, WritesInv, Lines, clientVars, serverVars
<1>3. CASE ServerLogsIn
  <2>1. /\ Head(requests).number \in 0 .. MaxWrites
        /\ requests' \in Seq(Lines)
        /\ UNCHANGED clientVars
    <3>1. CASE Handles("USER")
      BY <3>1, HandlesFacts, MaxWritesFacts
    <3>2. CASE Handles("PASS")
      BY <3>2, HandlesFacts, MaxWritesFacts
    <3> QED
      BY <1>3, <3>1, <3>2 DEF ServerLogsIn
  <2>2. control' \in Seq(Replies) /\ loggedIn' \in BOOLEAN
    BY <1>3, <2>1, SendsFacts DEF ServerLogsIn, Codes, TypeOK
  <2> QED
    BY <1>3, <2>1, <2>2
       DEF ServerLogsIn, TypeOK, WritesInv, Lines, clientVars
<1>4. CASE ServerPassive
  <2>0. Handles("PASV")
    BY <1>4 DEF ServerPassive
  <2>1. /\ Head(requests).number \in 0 .. MaxWrites
        /\ requests' \in Seq(Lines)
        /\ UNCHANGED clientVars
    BY <2>0, HandlesFacts, MaxWritesFacts
  <2>2. control' \in Seq(Replies)
    BY <1>4, <2>1, SendsFacts DEF ServerPassive, Codes
  <2>3. data' \in [state : DataStates, port : 0 .. MaxWrites,
                   name : Names \cup {NoName}]
    BY <1>4, <2>1 DEF ServerPassive, TypeOK, DataStates
  <2> QED
    BY <1>4, <2>1, <2>2, <2>3
       DEF ServerPassive, TypeOK, WritesInv, Lines, clientVars, serverVars
<1>5. CASE ServerBegins
  <2>0. Handles("TRANSFER")
    BY <1>5 DEF ServerBegins
  <2>1. /\ Head(requests).number \in 0 .. MaxWrites
        /\ Head(requests).name \in Names \cup {NoName}
        /\ requests' \in Seq(Lines)
        /\ UNCHANGED clientVars
    BY <2>0, HandlesFacts, MaxWritesFacts
  <2>2. control' \in Seq(Replies)
    BY <1>5, <2>1, SendsFacts DEF ServerBegins, Codes
  <2>3. serving' \in 0 .. MaxWrites
        /\ data' \in [state : DataStates, port : 0 .. MaxWrites,
                      name : Names \cup {NoName}]
    BY <1>5, <2>1 DEF ServerBegins, TypeOK
  <2> QED
    BY <1>5, <2>1, <2>2, <2>3
       DEF ServerBegins, TypeOK, WritesInv, Lines, clientVars
<1>6. CASE ServerEnds
  <2>1. control' \in Seq(Replies)
    BY <1>6, SendsFacts DEF ServerEnds, Codes, TypeOK
  <2>2. data' \in [state : DataStates, port : 0 .. MaxWrites,
                   name : Names \cup {NoName}]
    BY <1>6 DEF ServerEnds, TypeOK, DataStates
  <2>3. serving' \in 0 .. MaxWrites
    BY <1>6, MaxWritesFacts DEF ServerEnds
  <2> QED
    BY <1>6, <2>1, <2>2, <2>3 DEF ServerEnds, TypeOK, WritesInv, clientVars
<1>7. CASE DataBreaks
  <2>1. data' \in [state : DataStates, port : 0 .. MaxWrites,
                   name : Names \cup {NoName}]
    BY <1>7 DEF DataBreaks, TypeOK, DataStates
  <2> QED
    BY <1>7, <2>1 DEF DataBreaks, TypeOK, WritesInv, clientVars, serverVars
<1> QED
  BY <1>1, <1>2, <1>3, <1>4, <1>5, <1>6, <1>7 DEF Server

-----------------------------------------------------------------------------
(* The replies and what they are about.                                    *)

\* The lines that are read, or that remain, are among those that came: what a
\* step of the client does to the replies.
LEMMA ClientReplies ==
    ASSUME TypeInv, Client
    PROVE  /\ Rest(control, control') /\ control' \in Seq(Replies)
           /\ last' # NoLine => last' = last \/ (ReadLine /\ last' = control[1])
           /\ UNCHANGED serverVars
<1>1. CASE ReadLine
  <2>1. control \in Seq(Replies) /\ control # <<>>
    BY <1>1 DEF ReadLine, TypeInv, TypeOK
  <2> QED
    BY <1>1, <2>1, TailIsRest, TailFacts DEF ReadLine
<1>2. control' = control =>
        Rest(control, control') /\ control' \in Seq(Replies)
  BY DEF Rest, TypeInv, TypeOK
<1>3. ASSUME NEW wait, Closes(wait)
      PROVE  Rest(control, control') /\ control' \in Seq(Replies)
  BY <1>3, ClosesFacts DEF TypeInv
<1>4. CASE Connect \/ DataConnects \/ DataRefused \/ DataRead \/ DataFails
           \/ Quit \/ Breaks \/ \E n \in Names : Ask(n)
  BY <1>4, <1>2 DEF Connect, DataConnects, DataRefused, DataRead, DataFails,
                    Quit, Breaks, Ask, GoTo, Write, serverVars
<1>5. CASE Greeted \/ OptsRead \/ UserRead \/ PassRead \/ LoginFails
           \/ PassiveRead \/ TransferMissing \/ TransferCompleted
           \/ TransferGivenUp
  <2>1. Rest(control, control') /\ control' \in Seq(Replies)
    BY <1>5, <1>3 DEF Greeted, OptsRead, UserRead, PassRead, LoginFails,
       PassiveRead, TransferMissing, TransferCompleted, TransferGivenUp
  <2> QED
    BY <1>5, <2>1 DEF Greeted, OptsRead, UserRead, PassRead, LoginFails,
       PassiveRead, TransferMissing, TransferCompleted, TransferGivenUp, GoTo,
       Write, serverVars
<1> QED
  BY <1>1, <1>4, <1>5 DEF Client, Waits

\* The client lets the user go on only after 230.
LEMMA ClientKeepsLogin ==
    ASSUME TypeInv, LoginInv, Client
    PROVE  LoginInv'
<1>1. /\ Rest(control, control')
      /\ last' # NoLine => last' = last \/ (ReadLine /\ last' = control[1])
      /\ loggedIn' = loggedIn
  BY ClientReplies DEF serverVars
<1>2. (\A i \in DOMAIN control : LoginTrue(control[i]))'
  BY <1>1 DEF LoginInv, LoginTrue, Rest
<1>3. last' # NoLine => LoginTrue(last)'
  <2>1. ReadLine => 1 \in DOMAIN control
    BY TailFacts DEF ReadLine, TypeInv, TypeOK
  <2> QED
    BY <1>1, <2>1 DEF LoginInv, LoginTrue
<1>4. pc' \in {"prompt", "passive", "open", "transfer", "data"} => loggedIn
  <2>1. LoginAccepted => loggedIn
    BY DEF LoginAccepted, Says, LoginInv, LoginTrue
  <2> QED
    BY <2>1 DEF LoginInv, Client, Waits, Connect, ReadLine, Greeted, OptsRead,
       UserRead, PassRead, LoginFails, Ask, Quit, PassiveRead, DataConnects,
       DataRefused, TransferMissing, TransferCompleted, TransferGivenUp,
       DataRead, DataFails, Breaks, GoTo, Write, Closes
<1> QED
  BY <1>1, <1>2, <1>3, <1>4 DEF LoginInv

\* A server says 230 when it has let the user in.
LEMMA ServerKeepsLogin ==
    ASSUME TypeInv, LoginInv, Server
    PROVE  LoginInv'
<1> USE DEF TypeInv
<1>1. ASSUME NEW code \in Codes \ {"login"}, NEW of \in 0 .. MaxWrites,
             Sends(code, of), UNCHANGED <<clientVars, loggedIn>>
      PROVE  LoginInv'
  BY <1>1, SendsFacts DEF LoginInv, LoginTrue, clientVars
<1>2. CASE ServerGreets
  BY <1>1, <1>2, MaxWritesFacts DEF ServerGreets, Codes, serverVars
<1>3. CASE ServerOpts
  <2>1. Handles("OPTS") /\ Head(requests).number \in 0 .. MaxWrites
    BY <1>3, HandlesFacts, MaxWritesFacts DEF ServerOpts
  <2> QED
    BY <1>1, <1>3, <2>1, HandlesFacts DEF ServerOpts, Codes, serverVars
<1>4. CASE ServerLogsIn
  <2>1. Head(requests).number \in 0 .. MaxWrites /\ UNCHANGED clientVars
    <3>1. CASE Handles("USER")
      BY <3>1, HandlesFacts, MaxWritesFacts
    <3>2. CASE Handles("PASS")
      BY <3>2, HandlesFacts, MaxWritesFacts
    <3> QED
      BY <1>4, <3>1, <3>2 DEF ServerLogsIn
  <2> DEFINE of == Head(requests).number
  <2>2. CASE Sends("login", of) /\ loggedIn' = TRUE
    BY <2>1, <2>2 DEF LoginInv, LoginTrue, clientVars
  <2>3. CASE Sends("invalid", of) /\ UNCHANGED loggedIn
    BY <1>1, <2>1, <2>3 DEF Codes
  <2>4. CASE Sends("password", of) /\ UNCHANGED loggedIn
    BY <1>1, <2>1, <2>4 DEF Codes
  <2> QED
    BY <1>4, <2>2, <2>3, <2>4 DEF ServerLogsIn
<1>5. CASE ServerPassive
  <2>1. Handles("PASV")
    BY <1>5 DEF ServerPassive
  <2>2. Head(requests).number \in 0 .. MaxWrites /\ UNCHANGED clientVars
    BY <2>1, HandlesFacts, MaxWritesFacts
  <2> QED
    BY <1>1, <1>5, <2>2 DEF ServerPassive, Codes, serverVars
<1>6. CASE ServerBegins
  <2>1. Handles("TRANSFER")
    BY <1>6 DEF ServerBegins
  <2>2. Head(requests).number \in 0 .. MaxWrites /\ UNCHANGED clientVars
    BY <2>1, HandlesFacts, MaxWritesFacts
  <2> QED
    BY <1>1, <1>6, <2>2 DEF ServerBegins, Codes
<1>7. CASE ServerEnds
  BY <1>1, <1>7 DEF ServerEnds, Codes, TypeOK
<1>8. CASE DataBreaks
  BY <1>8 DEF DataBreaks, LoginInv, LoginTrue, clientVars, serverVars
<1> QED
  BY <1>2, <1>3, <1>4, <1>5, <1>6, <1>7, <1>8 DEF Server

\* The steps of the client keep the replies to PASV in step.
LEMMA ClientKeepsPassive ==
    ASSUME TypeInv, PassiveInv, Client, pc' # "ended"
    PROVE  PassiveInv'
<1> USE DEF TypeInv
<1>1. /\ Rest(control, control') /\ control' \in Seq(Replies)
      /\ control \in Seq(Replies) /\ requests \in Seq(Lines)
      /\ Len(control) \in Nat /\ Len(requests) \in Nat
      /\ DOMAIN control = 1 .. Len(control) /\ DOMAIN requests = 1 .. Len(requests)
      /\ last' # NoLine => last' = last \/ (ReadLine /\ last' = control[1])
      /\ serving' = serving
  BY ClientReplies, LenProperties DEF serverVars, TypeOK, Lines
<1>2. ASSUME control = <<>> PROVE control' = <<>>
  <2>1. DOMAIN control' = 1 .. Len(control') /\ Len(control') \in Nat
    BY <1>1, LenProperties
  <2>2. DOMAIN control' = {}
    <3>1. DOMAIN control = {}
      BY <1>2
    <3> QED
      BY <1>1, <3>1 DEF Rest
  <2> QED
    BY <1>1, <2>1, <2>2, EmptySeq
<1>3. CASE ReadLine
  <2>1. /\ control # <<>> /\ control' = Tail(control) /\ last' = control[1]
        /\ Len(control) = 1 => control' = <<>>
        /\ 1 \in DOMAIN control
        /\ UNCHANGED <<pc, requests, writes>>
    BY <1>1, <1>3, TailFacts DEF ReadLine
  <2>2. pc # "open"
    BY <1>3 DEF ReadLine, Reading
  <2> QED
    BY <1>1, <2>1, <2>2 DEF PassiveInv, Rest, Quiet, Says
<1>4. ASSUME UNCHANGED <<requests, writes, last>>, pc # "passive", pc # "open",
             pc' # "open", pc' # "passive"
      PROVE  PassiveInv'
  BY <1>1, <1>4 DEF PassiveInv, Rest, Quiet, Says
<1>5. ASSUME NEW verb \in Verbs \ {"PASV"}, NEW name \in Names \cup {NoName},
             NEW next \in {"opts", "user", "pass", "transfer"},
             Write(verb, name, next), writes < MaxWrites,
             pc # "passive"
      PROVE  PassiveInv'
  <2>1. /\ \A i \in DOMAIN requests' :
            \/ requests'[i].verb = verb
            \/ i \in DOMAIN requests /\ requests'[i] = requests[i]
        /\ pc' = next /\ last' = NoLine
    BY <1>5, WriteFacts
  <2> QED
    BY <1>1, <1>5, <2>1 DEF PassiveInv, Rest, Quiet, Says
<1>6. CASE Connect \/ Quit
  BY <1>4, <1>6 DEF Connect, Quit, GoTo
<1>7. CASE Greeted \/ OptsRead \/ UserRead
  <2>1. pc \in {"greeting", "opts", "user"}
    BY <1>7 DEF Greeted, OptsRead, UserRead, Closes
  <2>2. writes < MaxWrites
    BY <2>1, MaxWritesFacts DEF WritesInv
  <2> QED
    BY <1>4, <1>5, <1>7, <2>1, <2>2
       DEF Greeted, OptsRead, UserRead, GoTo, Verbs
<1>8. CASE PassRead \/ LoginFails
  BY <1>4, <1>8 DEF PassRead, LoginFails, GoTo, Closes
<1>9. ASSUME NEW n \in Names, Ask(n) PROVE PassiveInv'
  <2>1. writes < MaxWrites /\ "PASV" \in Verbs /\ pc = "prompt"
        /\ Write("PASV", NoName, "passive")
    BY <1>9, MaxWritesFacts DEF Ask, TypeOK, WritesInv, Verbs
  <2>2. /\ requests' # <<>>
        /\ \A i \in DOMAIN requests' :
                \/ /\ i = Len(requests')
                   /\ requests'[i] = [verb |-> "PASV", name |-> NoName,
                                      number |-> writes + 1]
                \/ i \in DOMAIN requests /\ requests'[i] = requests[i]
        /\ pc' = "passive" /\ last' = NoLine /\ writes' = writes + 1
    BY <2>1, WriteFacts
  <2>3. (\A i \in DOMAIN control : control[i].code # "passive")'
    BY <1>1, <2>1 DEF PassiveInv, Rest
  <2>4. \A i \in DOMAIN requests' : requests'[i].verb = "PASV" =>
            i = Len(requests') /\ requests'[i].number = writes'
    BY <2>1, <2>2 DEF PassiveInv
  <2> QED
    BY <2>2, <2>3, <2>4 DEF PassiveInv, Says
<1>10. CASE PassiveRead
  BY <1>1, <1>2, <1>10 DEF PassiveRead, PassiveAccepted, PassiveInv, Rest, Quiet,
                           Says, GoTo, Closes
<1>11. CASE DataConnects
  <2>1. writes < MaxWrites /\ pc = "open" /\ asked \in Names \cup {NoName}
        /\ Write("TRANSFER", asked, "transfer")
    BY <1>11, MaxWritesFacts DEF DataConnects, TypeOK, WritesInv
  <2> QED
    BY <1>5, <2>1 DEF Verbs
<1>12. CASE TransferMissing \/ TransferCompleted \/ TransferGivenUp \/ DataRead
  BY <1>4, <1>12 DEF TransferMissing, TransferCompleted, TransferGivenUp,
                     DataRead, GoTo, Closes
<1>13. ~(DataRefused \/ DataFails \/ Breaks)
  BY DEF DataRefused, DataFails, Breaks, GoTo
<1> QED
  BY <1>3, <1>6, <1>7, <1>8, <1>9, <1>10, <1>11, <1>12, <1>13 DEF Client, Waits

\* A server answers a PASV once, and 227 is the answer to nothing else.
LEMMA ServerKeepsPassive ==
    ASSUME TypeInv, PassiveInv, Server
    PROVE  PassiveInv'
<1> USE DEF TypeInv
<1>1. /\ control \in Seq(Replies) /\ requests \in Seq(Lines)
      /\ Len(control) \in Nat /\ Len(requests) \in Nat
      /\ DOMAIN control = 1 .. Len(control) /\ DOMAIN requests = 1 .. Len(requests)
  BY LenProperties DEF TypeOK, Lines
<1>2. ASSUME NEW verb \in Verbs \ {"PASV"}, Handles(verb),
             NEW code \in Codes \ {"passive"}, Sends(code, Head(requests).number)
      PROVE  PassiveInv'
  <2>1. /\ Head(requests).number \in 0 .. MaxWrites
        /\ requests # <<>> /\ UNCHANGED <<pc, last, writes>>
        /\ Len(requests') = Len(requests) - 1
        /\ \A i \in DOMAIN requests' :
             i + 1 \in DOMAIN requests /\ requests'[i] = requests[i + 1]
        /\ requests' \in Seq(Lines)
    BY <1>2, HandlesFacts, MaxWritesFacts DEF clientVars
  <2>2. DOMAIN requests' = 1 .. Len(requests')
    BY <2>1, LenProperties
  <2>3. \A i \in DOMAIN control' :
            \/ control'[i].code = code
            \/ i \in DOMAIN control /\ control'[i] = control[i]
    BY <1>2, <2>1, SendsFacts
  <2> QED
    BY <1>1, <1>2, <2>1, <2>2, <2>3 DEF PassiveInv, Quiet, Says
<1>3. ASSUME NEW code \in Codes \ {"passive"}, NEW of \in 0 .. MaxWrites,
             Sends(code, of), UNCHANGED <<clientVars, requests>>,
             serving # 0 \/ pc = "greeting"
      PROVE  PassiveInv'
  BY <1>3, SendsFacts DEF PassiveInv, Quiet, Says, clientVars
<1>4. CASE ServerGreets
  BY <1>3, <1>4, MaxWritesFacts DEF ServerGreets, Codes
<1>5. CASE ServerOpts
  BY <1>2, <1>5 DEF ServerOpts, Codes, Verbs
<1>6. CASE ServerLogsIn
  BY <1>2, <1>6 DEF ServerLogsIn, Codes, Verbs
<1>7. CASE ServerPassive
  <2>1. Handles("PASV") /\ serving' = serving
    BY <1>7 DEF ServerPassive, serverVars
  <2>2. /\ Head(requests).number \in 0 .. MaxWrites
        /\ Head(requests).verb = "PASV"
        /\ requests # <<>> /\ UNCHANGED <<pc, last, writes>>
        /\ 1 \in DOMAIN requests /\ Head(requests) = requests[1]
        /\ Len(requests) = 1 => requests' = <<>>
        /\ serving = 0
    BY <2>1, HandlesFacts, MaxWritesFacts DEF clientVars
  <2>3. requests' = <<>> /\ pc = "passive" /\ Head(requests).number = writes
    BY <2>2 DEF PassiveInv
  <2>4. ASSUME NEW code \in Codes, Sends(code, Head(requests).number)
        PROVE  \A i \in DOMAIN control' :
                \/ i = Len(control') /\ control'[i].of = writes
                \/ i \in DOMAIN control /\ control'[i] = control[i]
    BY <2>2, <2>3, <2>4, SendsFacts
  <2>5. \A i \in DOMAIN control' :
            \/ i = Len(control') /\ control'[i].of = writes
            \/ i \in DOMAIN control /\ control'[i] = control[i]
    BY <1>7, <2>4 DEF ServerPassive, Codes
  <2> QED
    BY <2>1, <2>2, <2>3, <2>5, EmptySeq DEF PassiveInv, Quiet, Says
<1>8. CASE ServerBegins
  <2>1. \/ Sends("other", Head(requests).number)
        \/ Sends("failed", Head(requests).number)
    BY <1>8 DEF ServerBegins
  <2> QED
    BY <1>2, <1>8, <2>1 DEF ServerBegins, Codes, Verbs
<1>9. CASE ServerEnds
  BY <1>3, <1>9 DEF ServerEnds, Codes, TypeOK
<1>10. CASE DataBreaks
  BY <1>10 DEF DataBreaks, PassiveInv, Quiet, Says, clientVars, serverVars
<1> QED
  BY <1>4, <1>5, <1>6, <1>7, <1>8, <1>9, <1>10 DEF Server

\* The client begins to wait for a transfer when nothing is on its way.
LEMMA ClientKeepsTransfer ==
    ASSUME TypeInv, PassiveInv, TransferInv, Client, pc' # "ended"
    PROVE  TransferInv'
<1> USE DEF TypeInv
<1>1. /\ Rest(control, control') /\ control' \in Seq(Replies)
      /\ last' # NoLine => last' = last \/ (ReadLine /\ last' = control[1])
      /\ serving' = serving
  BY ClientReplies DEF serverVars
<1>2. CASE ReadLine
  <2>1. /\ 1 \in DOMAIN control /\ last' = control[1]
        /\ UNCHANGED <<pc, requests, writes, data, asked>> /\ pc # "data"
    BY <1>2, TailFacts DEF ReadLine, TypeOK, Reading
  <2> QED
    BY <1>1, <2>1 DEF TransferInv, TransferTrue, Rest
<1>3. CASE DataConnects
  <2>1. writes < MaxWrites /\ asked \in Names \cup {NoName} /\ asked' = asked
        /\ "TRANSFER" \in Verbs /\ Write("TRANSFER", asked, "transfer")
        /\ control' = <<>> /\ requests = <<>> /\ serving' = 0
        /\ data'.state = "open"
    BY <1>1, <1>3, MaxWritesFacts
       DEF DataConnects, TypeOK, WritesInv, PassiveInv, Quiet, serverVars, Verbs
  <2>2. /\ requests' \in Seq(Lines) /\ Len(requests') = Len(requests) + 1
        /\ \A i \in DOMAIN requests' :
             \/ /\ i = Len(requests')
                /\ requests'[i] = [verb |-> "TRANSFER", name |-> asked,
                                   number |-> writes + 1]
             \/ i \in DOMAIN requests /\ requests'[i] = requests[i]
        /\ writes' = writes + 1 /\ last' = NoLine /\ pc' = "transfer"
    BY <2>1, WriteFacts
  <2>3. Len(requests) = 0 /\ DOMAIN requests = {} /\ DOMAIN control' = {}
    BY <2>1
  <2> QED
    BY <2>1, <2>2, <2>3 DEF TransferInv, TransferTrue
<1>4. CASE TransferCompleted
  <2>1. /\ UNCHANGED <<requests, writes, last, data, asked>>
        /\ pc = "transfer" /\ pc' = "data" /\ Says({"closing"})
    BY <1>4 DEF TransferCompleted, GoTo, Closes, Completed
  <2> QED
    BY <1>1, <2>1 DEF TransferInv, TransferTrue, Rest, Says
<1>5. CASE pc' \notin {"transfer", "data"}
  BY <1>5 DEF TransferInv
<1>6. pc' \in {"transfer", "data"} => ReadLine \/ DataConnects \/ TransferCompleted
  BY DEF Client, Waits, Connect, Greeted, OptsRead, UserRead, PassRead,
     LoginFails, Ask, Quit, PassiveRead, DataRefused, TransferMissing,
     TransferGivenUp, DataRead, DataFails, Breaks, GoTo, Write
<1> QED
  BY <1>2, <1>3, <1>4, <1>5, <1>6

\* What the server says of the transfer it was asked for is true.
LEMMA ServerKeepsTransfer ==
    ASSUME TypeInv, TransferInv, Server
    PROVE  TransferInv'
<1> USE DEF TypeInv
<1> SUFFICES ASSUME pc \in {"transfer", "data"} PROVE TransferInv'
  BY DEF TransferInv, Server, ServerGreets, ServerOpts, ServerLogsIn,
     ServerPassive, ServerBegins, ServerEnds, DataBreaks, Handles, clientVars
<1>1. ASSUME NEW verb, Handles(verb), verb # "TRANSFER"
      PROVE  FALSE
  BY <1>1, HandlesFacts DEF TransferInv
<1>2. CASE ServerGreets \/ ServerOpts \/ ServerLogsIn \/ ServerPassive
  BY <1>1, <1>2 DEF ServerGreets, ServerOpts, ServerLogsIn, ServerPassive
<1>3. CASE ServerBegins
  <2>1. Handles("TRANSFER") /\ loggedIn' = loggedIn
    BY <1>3 DEF ServerBegins
  <2>2. /\ Head(requests).number \in 0 .. MaxWrites
        /\ requests \in Seq(Lines) /\ requests' \in Seq(Lines)
        /\ Head(requests) = requests[1] /\ 1 \in DOMAIN requests
        /\ UNCHANGED <<pc, last, asked, writes>>
        /\ \A i \in DOMAIN requests' :
            i + 1 \in DOMAIN requests /\ requests'[i] = requests[i + 1]
        /\ Len(requests') = Len(requests) - 1 /\ Len(requests) \in Nat
        /\ Len(requests) = 1 => requests' = <<>>
    BY <2>1, HandlesFacts, MaxWritesFacts DEF clientVars, TypeOK, Lines
  <2>3. /\ Head(requests).number = writes /\ Head(requests).name = asked
        /\ data.state \in {"open", "broken"} /\ pc # "data"
        /\ \A i \in DOMAIN control : control[i].code # "closing"
        /\ last # NoLine => last.code # "closing"
    BY <2>2 DEF TransferInv, TransferTrue, Says
  <2>4. requests' = <<>> /\ DOMAIN requests' = {}
    <3>1. DOMAIN requests = 1 .. Len(requests)
      BY <2>2, LenProperties
    <3>2. Len(requests) = 1
      BY <2>2, <3>1 DEF TransferInv
    <3> QED
      BY <2>2, <3>2
  <2>5. CASE asked \in Files
    <3>1. /\ Sends("other", writes) /\ serving' = writes
          /\ data'.state \in {"open", "broken"} /\ data'.name = asked
      BY <1>3, <2>3, <2>5 DEF ServerBegins, TypeOK
    <3>2. \A i \in DOMAIN control' :
            \/ control'[i] = [code |-> "other", of |-> writes]
            \/ i \in DOMAIN control /\ control'[i] = control[i]
      BY <2>2, <2>3, <3>1, SendsFacts DEF Codes
    <3> QED
      BY <2>2, <2>3, <2>4, <3>1, <3>2 DEF TransferInv, TransferTrue
  <2>6. CASE asked \notin Files
    <3>1. Sends("failed", writes) /\ UNCHANGED <<serving, data>>
      BY <1>3, <2>3, <2>6 DEF ServerBegins
    <3>2. \A i \in DOMAIN control' :
            \/ control'[i] = [code |-> "failed", of |-> writes]
            \/ i \in DOMAIN control /\ control'[i] = control[i]
      BY <2>2, <2>3, <3>1, SendsFacts DEF Codes
    <3>3. serving = 0
      BY <2>2 DEF TransferInv
    <3> QED
      BY <2>2, <2>3, <2>4, <2>6, <3>1, <3>2, <3>3 DEF TransferInv, TransferTrue
  <2> QED
    BY <2>5, <2>6
<1>4. CASE ServerEnds
  <2>1. /\ serving = writes /\ requests = <<>> /\ data.state \in {"open", "broken"}
        /\ data.name = asked /\ pc # "data"
        /\ UNCHANGED <<pc, last, asked, writes, requests>> /\ serving' = 0
        /\ \A i \in DOMAIN control : control[i].code # "closing"
        /\ last # NoLine => last.code # "closing"
    BY <1>4 DEF ServerEnds, TransferInv, TransferTrue, Says, clientVars
  <2>2. PICK code \in {"closing", "other"} :
            /\ Sends(code, writes) /\ data'.name = asked
            /\ data'.state \in {"whole", "part", "broken"}
            /\ code = "closing" => data'.state \in {"whole", "broken"}
    BY <1>4, <2>1 DEF ServerEnds, TypeOK
  <2>3. \A i \in DOMAIN control' :
            \/ control'[i] = [code |-> code, of |-> writes]
            \/ i \in DOMAIN control /\ control'[i] = control[i]
    BY <2>2, SendsFacts DEF Codes, TypeOK
  <2> QED
    BY <2>1, <2>2, <2>3 DEF TransferInv, TransferTrue
\* What the server has said stays true of the name, and of a connection that
\* broke nothing is read.
<1>5. CASE DataBreaks
  <2>1. /\ data'.state = "broken" /\ data'.name = data.name
        /\ data.state \in {"open", "whole", "part"}
        /\ UNCHANGED <<pc, last, asked, writes, control, requests, serving>>
    BY <1>5 DEF DataBreaks, TypeOK, clientVars, serverVars
  <2> QED
    BY <2>1 DEF TransferInv, TransferTrue, Says
<1> QED
  BY <1>2, <1>3, <1>4, <1>5 DEF Server

\* What is printed was sent for the name that was asked for, and nothing else
\* prints.
LEMMA ClientKeepsOutput ==
    ASSUME TypeInv, StepInv, OutputTrue, Client
    PROVE  OutputTrue'
<1> USE DEF TypeInv
<1>1. ASSUME NEW n \in Names, Ask(n) PROVE OutputTrue'
  BY <1>1 DEF Ask, OutputTrue, Nothing
<1>2. CASE TransferMissing
  <2>1. asked \notin Files
    BY <1>2 DEF TransferMissing, Closes, Says, StepInv, TransferInv, TransferTrue
  <2> QED
    BY <1>2, <2>1 DEF TransferMissing, OutputTrue
<1>3. CASE DataRead
  <2>1. data.state = "whole" /\ data.name = asked
    BY <1>3 DEF DataRead, EndOfData, Says, StepInv, TransferInv, TransferTrue
  <2> QED
    BY <1>3, <2>1 DEF DataRead, OutputTrue
<1>4. ASSUME UNCHANGED <<output, asked>> PROVE OutputTrue'
  BY <1>4 DEF OutputTrue
<1>5. \/ TransferMissing \/ DataRead \/ (\E n \in Names : Ask(n))
      \/ UNCHANGED <<output, asked>>
  BY DEF Client, Waits, Connect, ReadLine, Greeted, OptsRead, UserRead, PassRead,
     LoginFails, Quit, PassiveRead, DataConnects, DataRefused, TransferCompleted,
     TransferGivenUp, DataFails, Breaks
<1> QED
  BY <1>1, <1>2, <1>3, <1>4, <1>5

-----------------------------------------------------------------------------
(* The invariant and what follows from it.                                 *)

\* Initially nothing was written or read.
LEMMA InitIInv == Init => IInv
<1> SUFFICES ASSUME Init PROVE IInv
  OBVIOUS
<1>1. TypeInv
  BY InitType
<1>2. DOMAIN control = {} /\ DOMAIN requests = {}
  BY DEF Init
<1> QED
  BY <1>1, <1>2 DEF Init, IInv, StepInv, LoginInv, PassiveInv, TransferInv, Says,
                    OutputTrue, Nothing

\* Every step keeps the invariant.
LEMMA NextIInv == IInv /\ [Next]_vars => IInv'
<1> SUFFICES ASSUME IInv, [Next]_vars PROVE IInv'
  OBVIOUS
<1> USE DEF IInv
<1>1. CASE Client
  <2>1. TypeInv'
    BY <1>1, ClientKeepsTypes
  <2>2. OutputTrue'
    BY <1>1, ClientKeepsOutput
  <2>3. ASSUME pc' # "ended" PROVE (LoginInv /\ PassiveInv /\ TransferInv)'
    <3>1. pc # "ended"
      BY <1>1, <2>3 DEF Client, Waits, Connect, ReadLine, Greeted, OptsRead,
         UserRead, PassRead, LoginFails, Ask, Quit, PassiveRead, DataConnects,
         DataRefused, TransferMissing, TransferCompleted, TransferGivenUp,
         DataRead, DataFails, Breaks, Closes, Reading
    <3>2. LoginInv /\ PassiveInv /\ TransferInv
      BY <3>1 DEF StepInv
    <3> QED
      BY <1>1, <2>3, <3>2, ClientKeepsLogin, ClientKeepsPassive,
         ClientKeepsTransfer
  <2> QED
    BY <2>1, <2>2, <2>3 DEF StepInv
<1>2. CASE Server
  <2>1. TypeInv'
    BY <1>2, ServerKeepsTypes
  <2>2. UNCHANGED <<pc, output, asked>>
    BY <1>2 DEF Server, ServerGreets, ServerOpts, ServerLogsIn, ServerPassive,
       ServerBegins, ServerEnds, DataBreaks, Handles, clientVars
  <2>3. ASSUME pc # "ended" PROVE (LoginInv /\ PassiveInv /\ TransferInv)'
    BY <1>2, <2>3, ServerKeepsLogin, ServerKeepsPassive, ServerKeepsTransfer
       DEF StepInv
  <2> QED
    BY <2>1, <2>2, <2>3 DEF StepInv, OutputTrue
<1>3. CASE UNCHANGED vars
  BY <1>3 DEF vars, clientVars, serverVars, TypeInv, TypeOK, WritesInv, StepInv,
     LoginInv, LoginTrue, PassiveInv, Quiet, Says, TransferInv, TransferTrue,
     OutputTrue
<1> QED
  BY <1>1, <1>2, <1>3 DEF Next

\* The inductive invariant of the FTP client holds whatever the server does.
THEOREM Invariance == Spec => []IInv
<1>1. Init => IInv
  BY InitIInv
<1>2. IInv /\ [Next]_vars => IInv'
  BY NextIInv
<1> QED
  BY <1>1, <1>2, PTL DEF Spec

\* Every variable keeps its type; no more lines are written than the commands
\* account for.
THEOREM TypeCorrectness == Spec => []TypeOK
<1>1. IInv => TypeOK
  BY DEF IInv, TypeInv
<1> QED
  BY <1>1, Invariance, PTL

\* Commands are given only when the server has let the user in.
THEOREM LoginIsTrue == Spec => []LetIn
<1>1. IInv => LetIn
  BY DEF IInv, StepInv, LoginInv, LetIn
<1> QED
  BY <1>1, Invariance, PTL

\* The reply on which a data connection is opened or read answers the line
\* that was written last, however late replies come.
THEOREM RepliesInStep == Spec => []InStep
<1>1. IInv => InStep
  BY DEF IInv, StepInv, PassiveInv, TransferInv, TransferTrue, Says, InStep
<1> QED
  BY <1>1, Invariance, PTL

\* What is printed is the whole file that was asked for, and what is said to be
\* missing is.
THEOREM OutputIsTrue == Spec => []OutputTrue
<1>1. IInv => OutputTrue
  BY DEF IInv
<1> QED
  BY <1>1, Invariance, PTL
=============================================================================
