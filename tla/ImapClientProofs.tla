--------------------------- MODULE ImapClientProofs ---------------------------
(***************************************************************************)
(* IInv is an invariant of the IMAP client and its server, for any         *)
(* mailboxes with any number of mails; the safety properties of ImapClient *)
(* follow.                                                                 *)
(***************************************************************************)
EXTENDS ImapClient, SelectionProofs

-----------------------------------------------------------------------------
(* The inductive invariant.                                                *)

Before == {"greeting", "LOGIN", "LIST"}
InLoop == {"EXAMINE", "FETCH"}

\* The mailbox that is being fetched, and what the server has selected then.
Box == storage[current].name
Selection == IF Box \in Refused THEN NoBox ELSE Box

\* The command of which the client waits for the answer.
Asked == Request(pc, IF pc = "EXAMINE" THEN Box ELSE NoBox,
                 IF pc = "FETCH" THEN Len(mails) + 1 ELSE 0)

\* The answer to FETCH, with the header of a mail.
Full(box, n, shapes) == Header(box, n, shapes) \o <<Reply("ok")>>

\* What the server answers it with, at some time since it was sent.
Replies ==
    IF pc = "EXAMINE"
    THEN IF Box \in Refused THEN {<<Reply("no")>>}
         ELSE UNION {{<<Line("exists", Box, n), Reply("ok"), Reply("ok")>>,
                      <<Reply("ok"), Line("exists", Box, n), Reply("ok")>>} :
                        n \in Held[Box] .. held[Box]}
    ELSE IF pc = "FETCH"
    THEN IF Box \in Refused THEN {<<Reply("no")>>}
         ELSE {Full(Box, Len(mails) + 1, shapes) : shapes \in Headers}
    ELSE Answers(Asked)

\* The lines the server sends without being asked.
Counts == {line \in Lines :
            line.kind = "exists" /\ line.reads = "none" /\ line.fields = {}}

\* What has come is counts, or the answer with counts before and after it.
Come == lines \o wire

AnswerAt(answer, p) ==
    /\ p + Len(answer) <= Len(Come)
    /\ \A i \in 1 .. Len(answer) : Come[p + i] = answer[i]
    /\ \A i \in 1 .. Len(Come) :
            i <= p \/ i > p + Len(answer) => Come[i] \in Counts

Pending == requests = <<Asked>> /\ \A i \in 1 .. Len(Come) : Come[i] \in Counts
Answered ==
    /\ requests = <<>>
    /\ \E answer \in Replies, p \in 0 .. Len(Come) : AnswerAt(answer, p)

LinesInv ==
    /\ \A i \in 1 .. Len(lines) : ~HasStatus(lines[i])
    /\ \A i \in 1 .. Len(wire) : wire[i].kind = "exists" => wire[i] \in Counts
    /\ \A box \in Boxes : Held[box] <= held[box]

\* No mailbox is examined that the server does not have.
RequestsInv ==
    \A i \in 1 .. Len(requests) :
        requests[i].verb = "EXAMINE" => requests[i].box \in Boxes

\* The names that were heard are stored, or none, if the reply to LOGIN was
\* read as the answer to LIST.
NamesKept ==
    \/ /\ [k \in DOMAIN storage |-> storage[k].name] = Selected(Heard, Quoted)
       /\ storage # <<>> => reading[Last(Heard)] # "no"
    \/ storage = <<>> /\ reading[NoBox] = "ok"

\* The loop over the mailboxes, also when answers are out of step.  Before it
\* they are only if the reply to LOGIN was left, when LIST has been written.
LoopInv ==
    /\ pc \in Before =>
        /\ storage = <<>> /\ current = 0 /\ mails = <<>> /\ examined = NoBox
        /\ \A i \in 1 .. Len(requests) : requests[i].verb \in Before
        /\ \A i \in 1 .. Len(Come) : Come[i].kind # "exists"
        /\ lost => /\ pc = "LIST" /\ reading[NoBox] = "ok"
                   /\ lines = <<>> /\ Len(wire) > 0 /\ wire[1] = Reply("ok")
    /\ pc \in InLoop => current \in 1 .. Len(storage)
    /\ pc = "EXAMINE" => mails = <<>>
    /\ pc = "FETCH" => Len(mails) < exists
    /\ storage # <<>> \/ pc \in InLoop \cup {"LOGOUT", "done"} => NamesKept

\* As long as nothing was lost, the answers are in step with the requests.
StepInv ==
    ~lost =>
        /\ pc \in Waits => Pending \/ Answered
        /\ pc = "EXAMINE" /\ requests = <<>> => examined = Selection
        /\ pc = "FETCH" =>
            /\ examined = Selection
            /\ IF Box \in Refused
               THEN \A i \in DOMAIN mails : mails[i] = Blank
               ELSE /\ mails = [i \in 1 .. Len(mails) |-> Whole(Box, i)]
                    /\ exists \in Held[Box] .. held[Box]

IInv == TypeOK /\ LinesInv /\ RequestsInv /\ LoopInv /\ StepInv /\ Shown

-----------------------------------------------------------------------------
(* Lines and answers.                                                      *)

\* The lines that say how an answer ends.
LEMMA ReplyFacts ==
    \A reads \in {"ok", "no"} :
        /\ Reply(reads) \in Lines /\ HasStatus(Reply(reads))
        /\ IsOk(Reply(reads)) <=> reads = "ok"
        /\ Reply(reads).kind = "reply" /\ Reply(reads).fields = {}
<1> SUFFICES ASSUME NEW reads \in {"ok", "no"}
             PROVE  /\ Reply(reads) \in Lines /\ HasStatus(Reply(reads))
                    /\ IsOk(Reply(reads)) <=> reads = "ok"
                    /\ Reply(reads).kind = "reply" /\ Reply(reads).fields = {}
  OBVIOUS
<1>1. NoBox \in Boxes \cup {NoBox} /\ 0 \in 0 .. MaxMails
  BY HeldAssumption
<1>2. Reply(reads) = [kind |-> "reply", box |-> NoBox, n |-> 0,
                      reads |-> reads, fields |-> {}]
  BY DEF Reply, Line
<1> QED
  BY <1>1, <1>2 DEF HasStatus, IsOk, Lines, Readings

LEMMA CountFacts ==
    /\ \A line \in Counts : /\ line \in Lines /\ ~HasStatus(line)
                            /\ line.kind = "exists" /\ line.fields = {}
    /\ \A box \in Boxes, n \in 0 .. MaxMails : Line("exists", box, n) \in Counts
<1>1. ASSUME NEW box \in Boxes, NEW n \in 0 .. MaxMails
      PROVE  Line("exists", box, n) \in Counts
  BY DEF Counts, Line, Lines, Readings
<1> QED
  BY <1>1 DEF Counts, HasStatus

\* The answer to FETCH: the header of a mail, and the status.
LEMMA HeaderFacts ==
    ASSUME NEW box \in Boxes, NEW n \in 0 .. MaxMails, NEW shapes \in Headers
    PROVE  /\ Len(shapes) \in Nat /\ Full(box, n, shapes) \in Seq(Lines)
           /\ Len(Full(box, n, shapes)) = Len(shapes) + 1
           /\ Full(box, n, shapes)[Len(shapes) + 1] = Reply("ok")
           /\ \A i \in 1 .. Len(shapes) :
                /\ Full(box, n, shapes)[i].kind = "header"
                /\ Full(box, n, shapes)[i].box = box
                /\ Full(box, n, shapes)[i].n = n
                /\ Full(box, n, shapes)[i].fields = shapes[i].fields
<1> DEFINE h == Header(box, n, shapes)
<1> DEFINE ok == Reply("ok")
<1>1. /\ Len(shapes) \in Nat /\ DOMAIN shapes = 1 .. Len(shapes)
      /\ \A i \in 1 .. Len(shapes) :
            shapes[i].reads \in Readings /\ shapes[i].fields \in SUBSET Fields
  <2>1. shapes \in Seq([reads : Readings, fields : SUBSET Fields])
    BY HeadersAssumption
  <2>2. Len(shapes) \in Nat /\ DOMAIN shapes = 1 .. Len(shapes)
    BY <2>1, LenProperties
  <2>3. \A i \in 1 .. Len(shapes) : shapes[i] \in [reads : Readings, fields : SUBSET Fields]
    BY <2>1, ElementOfSeq
  <2> QED
    BY <2>2, <2>3
<1>2. ASSUME NEW i \in 1 .. Len(shapes)
      PROVE  h[i] = [kind |-> "header", box |-> box, n |-> n,
                     reads |-> shapes[i].reads, fields |-> shapes[i].fields]
  BY <1>1 DEF Header, Line
<1>3. ASSUME NEW i \in 1 .. Len(shapes)
      PROVE  /\ h[i] \in Lines /\ h[i].kind = "header" /\ h[i].box = box /\ h[i].n = n
             /\ h[i].fields = shapes[i].fields
  <2> DEFINE line == h[i]
  <2>1. /\ line = [kind |-> "header", box |-> box, n |-> n,
                   reads |-> shapes[i].reads, fields |-> shapes[i].fields]
        /\ shapes[i].reads \in Readings /\ shapes[i].fields \in SUBSET Fields
    BY <1>1, <1>2
  <2> HIDE DEF line
  <2>2. /\ line \in Lines /\ line.kind = "header" /\ line.box = box /\ line.n = n
        /\ line.fields = shapes[i].fields
    BY <2>1 DEF Lines
  <2> QED
    BY <2>2 DEF line
<1>4. DOMAIN h = 1 .. Len(shapes) /\ h = [i \in 1 .. Len(shapes) |-> h[i]]
  BY <1>1 DEF Header
<1>5. Full(box, n, shapes) = h \o <<ok>>
  BY DEF Full
<1>6. ok \in Lines
  BY ReplyFacts
<1> HIDE DEF h, ok
<1>7. h \in Seq(Lines) /\ Len(h) = Len(shapes)
  BY <1>1, <1>3, <1>4
<1>8. h \o <<ok>> = Append(h, ok)
  BY <1>6, <1>7, AppendIsConcat
<1>9. /\ Append(h, ok) \in Seq(Lines) /\ Len(Append(h, ok)) = Len(h) + 1
      /\ Append(h, ok)[Len(h) + 1] = ok
      /\ \A i \in 1 .. Len(h) : Append(h, ok)[i] = h[i]
  BY <1>6, <1>7, AppendProperties
<1> QED
  BY <1>1, <1>3, <1>5, <1>7, <1>8, <1>9 DEF ok

\* The lines of the listing.
Names == [k \in DOMAIN Listing |-> TextLine(Listing[k])]
Named == Names \o <<Reply("ok")>>

LEMMA TextFacts ==
    ASSUME reading \in [Boxes \cup {NoBox} -> Readings], NEW box \in Boxes \cup {NoBox}
    PROVE  /\ TextLine(box) \in Lines /\ TextLine(box).kind \in {"entry", "text"}
           /\ TextLine(box).kind = "entry" <=> box \in Quoted
           /\ TextLine(box).box = box /\ TextLine(box).fields = {}
           /\ HasStatus(TextLine(box)) <=> reading[box] # "none"
           /\ IsOk(TextLine(box)) <=> reading[box] = "ok"
<1> DEFINE kind == IF box \in Quoted THEN "entry" ELSE "text"
<1>1. TextLine(box) = [kind |-> kind, box |-> box, n |-> 0,
                       reads |-> reading[box], fields |-> {}]
  BY DEF TextLine, Line
<1>2. kind \in {"entry", "text"} /\ (kind = "entry" <=> box \in Quoted)
  OBVIOUS
<1>3. 0 \in 0 .. MaxMails /\ reading[box] \in Readings
  BY HeldAssumption
<1> HIDE DEF kind
<1> QED
  BY <1>1, <1>2, <1>3 DEF HasStatus, IsOk, Lines

LEMMA NamesFacts ==
    ASSUME reading \in [Boxes \cup {NoBox} -> Readings]
    PROVE  /\ Len(Listing) \in Nat /\ DOMAIN Listing = 1 .. Len(Listing)
           /\ \A k \in 1 .. Len(Listing) : Listing[k] \in Boxes
           /\ Named \in Seq(Lines) /\ Len(Named) = Len(Listing) + 1
           /\ Named[Len(Listing) + 1] = Reply("ok")
           /\ \A k \in 1 .. Len(Listing) : Named[k] = TextLine(Listing[k])
           /\ \A k \in 1 .. Len(Named) : Named[k].kind \in {"entry", "text", "reply"}
<1>1. /\ Len(Listing) \in Nat /\ DOMAIN Listing = 1 .. Len(Listing)
      /\ \A k \in 1 .. Len(Listing) : Listing[k] \in Boxes
  BY ListingAssumption, LenProperties
<1>2. \A k \in 1 .. Len(Listing) :
        /\ Names[k] = TextLine(Listing[k]) /\ TextLine(Listing[k]) \in Lines
        /\ TextLine(Listing[k]).kind \in {"entry", "text"}
  BY <1>1, TextFacts DEF Names
<1>3. DOMAIN Names = 1 .. Len(Listing) /\ Names = [k \in 1 .. Len(Listing) |-> Names[k]]
  BY <1>1 DEF Names
<1> DEFINE ok == Reply("ok")
<1> DEFINE names == Names
<1>4. ok \in Lines /\ ok.kind = "reply"
  BY ReplyFacts
<1>5. /\ Named = names \o <<ok>>
      /\ \A k \in 1 .. Len(Listing) : names[k] \in Lines
      /\ names = [k \in 1 .. Len(Listing) |-> names[k]]
  BY <1>2, <1>3 DEF Named
<1> HIDE DEF ok, names
<1>6. names \in Seq(Lines) /\ Len(names) = Len(Listing)
  BY <1>1, <1>5
<1>7. names \o <<ok>> = Append(names, ok)
  BY <1>4, <1>6, AppendIsConcat
<1>8. /\ Append(names, ok) \in Seq(Lines) /\ Len(Append(names, ok)) = Len(names) + 1
      /\ Append(names, ok)[Len(names) + 1] = ok
      /\ \A i \in 1 .. Len(names) : Append(names, ok)[i] = names[i]
  BY <1>4, <1>6, AppendProperties
<1>9. /\ Named \in Seq(Lines) /\ Len(Named) = Len(Listing) + 1
      /\ Named[Len(Listing) + 1] = ok
      /\ \A k \in 1 .. Len(Listing) : Named[k] = names[k]
  BY <1>5, <1>6, <1>7, <1>8
<1>10. ASSUME NEW k \in 1 .. Len(Named) PROVE Named[k].kind \in {"entry", "text", "reply"}
  <2>1. k \in 1 .. Len(Listing) \/ k = Len(Listing) + 1
    BY <1>1, <1>9
  <2> QED
    BY <1>2, <1>4, <1>9, <2>1 DEF names
<1> QED
  BY <1>1, <1>2, <1>9, <1>10 DEF ok, names

LEMMA AnswersAre ==
    ASSUME NEW r
    PROVE  /\ r.verb = "greeting" => Answers(r) = {<<Reply("ok")>>, <<Reply("no")>>}
           /\ r.verb = "LOGIN" => Answers(r) =
                {<<TextLine(NoBox), Reply("ok")>>, <<Reply("no")>>}
           /\ r.verb = "LIST" => Answers(r) = {Named, <<Reply("no")>>}
           /\ r.verb = "EXAMINE" => Answers(r) =
                IF r.box \in Refused THEN {<<Reply("no")>>}
                ELSE {<<Line("exists", r.box, held[r.box]), Reply("ok"), Reply("ok")>>,
                      <<Reply("ok"), Line("exists", r.box, held[r.box]), Reply("ok")>>}
           /\ r.verb = "FETCH" => Answers(r) =
                IF examined = NoBox \/ r.n > held[examined]
                THEN {<<Reply("no")>>}
                ELSE {Full(examined, r.n, shapes) : shapes \in Headers}
           /\ r.verb = "LOGOUT" => Answers(r) = {<<Reply("ok"), Reply("ok")>>}
<1>1. r.verb = "greeting" => Answers(r) = {<<Reply("ok")>>, <<Reply("no")>>}
  BY Zenon DEF Answers
<1>2. r.verb = "LOGIN" => Answers(r) =
                {<<TextLine(NoBox), Reply("ok")>>, <<Reply("no")>>}
  BY Zenon DEF Answers
<1>3. r.verb = "LIST" => Answers(r) = {Named, <<Reply("no")>>}
  BY Zenon DEF Answers, Names, Named
<1>4. r.verb = "EXAMINE" => Answers(r) =
                IF r.box \in Refused THEN {<<Reply("no")>>}
                ELSE {<<Line("exists", r.box, held[r.box]), Reply("ok"), Reply("ok")>>,
                      <<Reply("ok"), Line("exists", r.box, held[r.box]), Reply("ok")>>}
  BY Zenon DEF Answers
<1>5. r.verb = "FETCH" => Answers(r) =
                IF examined = NoBox \/ r.n > held[examined]
                THEN {<<Reply("no")>>}
                ELSE {Full(examined, r.n, shapes) : shapes \in Headers}
  BY Zenon DEF Answers, Full
<1>6. r.verb = "LOGOUT" => Answers(r) = {<<Reply("ok"), Reply("ok")>>}
  BY Zenon DEF Answers
<1> QED
  BY <1>1, <1>2, <1>3, <1>4, <1>5, <1>6

\* An answer of one, two or three lines.
LEMMA Short ==
    /\ \A a \in Lines : /\ <<a>> \in Seq(Lines) /\ Len(<<a>>) = 1 /\ <<a>>[1] = a
    /\ \A a, b \in Lines :
        /\ <<a, b>> \in Seq(Lines) /\ Len(<<a, b>>) = 2
        /\ <<a, b>>[1] = a /\ <<a, b>>[2] = b
    /\ \A a, b, c \in Lines :
        /\ <<a, b, c>> \in Seq(Lines) /\ Len(<<a, b, c>>) = 3
        /\ <<a, b, c>>[1] = a /\ <<a, b, c>>[2] = b /\ <<a, b, c>>[3] = c
OBVIOUS

\* What every answer is like: it ends with a status, and only counts are of
\* the kind "exists".
Proper(answer) ==
    /\ answer \in Seq(Lines) /\ Len(answer) \in Nat \ {0}
    /\ HasStatus(answer[Len(answer)]) /\ answer[Len(answer)].kind = "reply"
    /\ \A i \in 1 .. Len(answer) : answer[i].kind = "exists" => answer[i] \in Counts

\* Before the mailboxes are known, answers are names, capabilities and statuses.
Plain(answer) == \A i \in 1 .. Len(answer) : answer[i].kind \notin {"header", "exists"}

LEMMA ProperAnswers ==
    /\ \A reads \in {"ok", "no"} :
        Proper(<<Reply(reads)>>) /\ Len(<<Reply(reads)>>) = 1 /\ Plain(<<Reply(reads)>>)
    /\ \A count \in Counts : /\ Proper(<<count, Reply("ok"), Reply("ok")>>)
                             /\ Proper(<<Reply("ok"), count, Reply("ok")>>)
    /\ \A box \in Boxes : \A n \in 0 .. MaxMails : \A shapes \in Headers :
        Proper(Full(box, n, shapes))
<1> DEFINE ok == Reply("ok")
<1>0. ok \in Lines /\ HasStatus(ok) /\ ok.kind = "reply"
  BY ReplyFacts
<1>1. ASSUME NEW reads \in {"ok", "no"}
      PROVE  /\ Proper(<<Reply(reads)>>) /\ Len(<<Reply(reads)>>) = 1
             /\ Plain(<<Reply(reads)>>)
  <2> DEFINE line == Reply(reads)
  <2> DEFINE answer == <<line>>
  <2>1. line \in Lines /\ HasStatus(line) /\ line.kind = "reply"
    BY ReplyFacts
  <2> HIDE DEF line
  <2>2. answer \in Seq(Lines) /\ Len(answer) = 1 /\ answer[1] = line
    BY <2>1, Short
  <2> HIDE DEF answer
  <2>3. Proper(answer) /\ Plain(answer)
    BY <2>1, <2>2 DEF Proper, Plain
  <2> QED
    BY <2>2, <2>3 DEF answer, line
<1> HIDE DEF ok
<1>2. ASSUME NEW count \in Counts PROVE Proper(<<count, ok, ok>>)
  <2> DEFINE answer == <<count, ok, ok>>
  <2>1. /\ answer \in Seq(Lines) /\ Len(answer) = 3 /\ answer[1] = count
        /\ answer[2] = ok /\ answer[3] = ok
    BY <1>0, CountFacts, Short
  <2> HIDE DEF answer
  <2>2. Proper(answer)
    BY <1>0, <2>1 DEF Proper
  <2> QED
    BY <2>2 DEF answer
<1>3. ASSUME NEW count \in Counts PROVE Proper(<<ok, count, ok>>)
  <2> DEFINE answer == <<ok, count, ok>>
  <2>1. /\ answer \in Seq(Lines) /\ Len(answer) = 3 /\ answer[1] = ok
        /\ answer[2] = count /\ answer[3] = ok
    BY <1>0, CountFacts, Short
  <2> HIDE DEF answer
  <2>2. Proper(answer)
    BY <1>0, <2>1 DEF Proper
  <2> QED
    BY <2>2 DEF answer
<1>4. ASSUME NEW box \in Boxes, NEW n \in 0 .. MaxMails, NEW shapes \in Headers
      PROVE  Proper(Full(box, n, shapes))
  <2> DEFINE answer == Full(box, n, shapes)
  <2>1. /\ Len(shapes) \in Nat /\ answer \in Seq(Lines) /\ Len(answer) = Len(shapes) + 1
        /\ answer[Len(shapes) + 1] = ok
        /\ \A i \in 1 .. Len(shapes) : answer[i].kind = "header"
    BY HeaderFacts DEF ok
  <2> HIDE DEF answer
  <2>2. \A i \in 1 .. Len(answer) : answer[i].kind # "exists"
    BY <1>0, <2>1
  <2>3. Proper(answer)
    BY <1>0, <2>1, <2>2 DEF Proper
  <2> QED
    BY <2>3 DEF answer
<1> QED
  BY <1>1, <1>2, <1>3, <1>4 DEF ok

LEMMA AnswersProper ==
    ASSUME NEW r, r.verb \in Waits, r.n \in 0 .. MaxMails,
           r.verb = "EXAMINE" => r.box \in Boxes,
           held \in [Boxes -> 0 .. MaxMails], examined \in Boxes \cup {NoBox},
           reading \in [Boxes \cup {NoBox} -> Readings],
           NEW answer \in Answers(r)
    PROVE  Proper(answer) /\ (r.verb \in Before => Plain(answer))
<1>1. ASSUME NEW reads \in {"ok", "no"}, answer = <<Reply(reads)>>
      PROVE  Proper(answer) /\ Plain(answer)
  BY <1>1, ProperAnswers
<1>2. CASE r.verb = "greeting"
  BY <1>1, <1>2, AnswersAre
<1>3. CASE r.verb = "LOGIN"
  <2>1. CASE answer = <<TextLine(NoBox), Reply("ok")>>
    <3> DEFINE text == TextLine(NoBox)
    <3> DEFINE ok == Reply("ok")
    <3>1. text \in Lines /\ text.kind \in {"entry", "text"}
      BY TextFacts
    <3>2. answer = <<text, ok>> /\ ok \in Lines /\ HasStatus(ok) /\ ok.kind = "reply"
      BY <2>1, ReplyFacts
    <3> HIDE DEF text, ok
    <3>3. /\ answer \in Seq(Lines) /\ Len(answer) = 2
          /\ answer[1] = text /\ answer[2] = ok
      BY <3>1, <3>2, Short
    <3> QED
      BY <3>1, <3>2, <3>3 DEF Proper, Plain
  <2> QED
    BY <1>1, <1>3, <2>1, AnswersAre
<1>4. CASE r.verb = "LIST"
  <2>1. CASE answer = Named
    <3> DEFINE n == Len(Listing)
    <3>1. /\ n \in Nat /\ answer \in Seq(Lines) /\ Len(answer) = n + 1
          /\ answer[n + 1] = Reply("ok")
          /\ \A i \in 1 .. Len(answer) : answer[i].kind \in {"entry", "text", "reply"}
      BY <2>1, NamesFacts
    <3> HIDE DEF n
    <3>2. /\ HasStatus(answer[Len(answer)]) /\ Len(answer) \in Nat \ {0}
          /\ answer[Len(answer)].kind = "reply"
          /\ \A i \in 1 .. Len(answer) : answer[i].kind \notin {"header", "exists"}
      BY <3>1, ReplyFacts
    <3> QED
      BY <3>1, <3>2 DEF Proper, Plain
  <2> QED
    BY <1>1, <1>4, <2>1, AnswersAre
<1>5. CASE r.verb = "EXAMINE"
  <2>1. Line("exists", r.box, held[r.box]) \in Counts
    BY <1>5, CountFacts
  <2> QED
    BY <1>1, <1>5, <2>1, ProperAnswers, AnswersAre DEF Before
<1>6. CASE r.verb = "FETCH"
  BY <1>1, <1>6, ProperAnswers, AnswersAre DEF Before
<1>7. CASE r.verb = "LOGOUT"
  <2> DEFINE ok == Reply("ok")
  <2>1. ok \in Lines /\ HasStatus(ok) /\ ok.kind = "reply" /\ answer = <<ok, ok>>
    BY <1>7, AnswersAre, ReplyFacts
  <2> HIDE DEF ok
  <2>2. answer \in Seq(Lines) /\ Len(answer) = 2 /\ answer[1] = ok /\ answer[2] = ok
    BY <2>1, Short
  <2> QED
    BY <1>7, <2>1, <2>2 DEF Proper, Before
<1> QED
  BY <1>2, <1>3, <1>4, <1>5, <1>6, <1>7 DEF Waits

\* So are the replies the client may get.
LEMMA RepliesProper ==
    ASSUME TypeOK, LinesInv, LoopInv, pc \in Waits, NEW answer \in Replies
    PROVE  Proper(answer) /\ (pc \in Before => Plain(answer))
<1>1. pc \in InLoop => Box \in Boxes
  <2> SUFFICES ASSUME pc \in InLoop PROVE Box \in Boxes
    OBVIOUS
  <2>1. /\ current \in 1 .. Len(storage)
        /\ storage \in Seq([name : Boxes, mails : Seq(Mail)])
    BY DEF LoopInv, TypeOK
  <2>2. storage[current] \in [name : Boxes, mails : Seq(Mail)]
    BY <2>1, ElementOfSeq
  <2> QED
    BY <2>2 DEF Box
<1>2. CASE pc = "EXAMINE"
  <2>1. CASE answer = <<Reply("no")>>
    BY <1>2, <2>1, ProperAnswers DEF Before
  <2>2. CASE Box \notin Refused
    <3>1. PICK n \in Held[Box] .. held[Box] :
             \/ answer = <<Line("exists", Box, n), Reply("ok"), Reply("ok")>>
             \/ answer = <<Reply("ok"), Line("exists", Box, n), Reply("ok")>>
      BY <1>2, <2>2 DEF Replies
    <3>2. n \in 0 .. MaxMails
      BY <1>1, <1>2, HeldAssumption DEF InLoop, TypeOK
    <3>3. Line("exists", Box, n) \in Counts
      BY <1>1, <1>2, <3>2, CountFacts DEF InLoop
    <3> QED
      BY <1>2, <3>1, <3>3, ProperAnswers DEF Before
  <2> QED
    BY <1>2, <2>1, <2>2 DEF Replies
<1>3. CASE pc = "FETCH"
  <2>1. CASE answer = <<Reply("no")>>
    BY <1>3, <2>1, ProperAnswers DEF Before
  <2>2. CASE Box \notin Refused
    <3>1. Len(mails) + 1 \in 0 .. MaxMails
      BY <1>3, HeldAssumption, LenProperties DEF LoopInv, TypeOK
    <3>2. PICK shapes \in Headers : answer = Full(Box, Len(mails) + 1, shapes)
      BY <1>3, <2>2 DEF Replies
    <3>3. Proper(Full(Box, Len(mails) + 1, shapes))
      BY <1>1, <1>3, <3>1, ProperAnswers DEF InLoop
    <3> QED
      BY <1>3, <3>2, <3>3 DEF Before
  <2> QED
    BY <1>3, <2>1, <2>2 DEF Replies
<1>4. CASE pc \notin InLoop
  <2> DEFINE r == Asked
  <2>1. r.verb = pc /\ r.n = 0 /\ r.verb # "EXAMINE" /\ answer \in Answers(r)
    BY <1>4 DEF Asked, Request, InLoop, Replies
  <2>2. r.n \in 0 .. MaxMails
    BY <2>1, HeldAssumption
  <2> HIDE DEF r
  <2> QED
    BY <2>1, <2>2, AnswersProper DEF TypeOK
<1> QED
  BY <1>2, <1>3, <1>4 DEF InLoop

-----------------------------------------------------------------------------
(* Reading.                                                                *)

LEMMA ComeFacts ==
    ASSUME TypeOK
    PROVE  /\ Come \in Seq(Lines) /\ Len(Come) = Len(lines) + Len(wire)
           /\ Len(lines) \in Nat /\ Len(wire) \in Nat
           /\ \A i \in 1 .. Len(lines) : Come[i] = lines[i]
           /\ \A i \in 1 .. Len(wire) : Come[Len(lines) + i] = wire[i]
<1>1. /\ lines \in Seq(Lines) /\ wire \in Seq(Lines)
      /\ Len(lines) \in Nat /\ Len(wire) \in Nat
  BY LenProperties DEF TypeOK
<1>2. /\ Come \in Seq(Lines) /\ Len(Come) = Len(lines) + Len(wire)
      /\ \A i \in 1 .. Len(lines) + Len(wire) :
            Come[i] = IF i <= Len(lines) THEN lines[i] ELSE wire[i - Len(lines)]
  BY <1>1, ConcatProperties DEF Come
<1>3. ASSUME NEW i \in 1 .. Len(wire) PROVE Come[Len(lines) + i] = wire[i]
  <2>1. /\ Len(lines) + i \in 1 .. Len(lines) + Len(wire)
        /\ ~(Len(lines) + i <= Len(lines)) /\ (Len(lines) + i) - Len(lines) = i
    BY <1>1
  <2> QED
    BY <1>2, <2>1
<1>4. \A i \in 1 .. Len(lines) : Come[i] = lines[i]
  BY <1>1, <1>2
<1> QED
  BY <1>1, <1>2, <1>3, <1>4

\* The lines of the answer that ends at wire[j].
LEMMA AnswerLines ==
    ASSUME TypeOK, NEW j \in 1 .. Len(wire)
    PROVE  /\ Answer(j) \in Seq(Lines) /\ Len(Answer(j)) = Len(lines) + j
           /\ \A i \in 1 .. Len(lines) + j : Answer(j)[i] = Come[i]
<1>1. /\ lines \in Seq(Lines) /\ wire \in Seq(Lines)
      /\ Len(lines) \in Nat /\ Len(wire) \in Nat
  BY LenProperties DEF TypeOK
<1> DEFINE part == SubSeq(wire, 1, j)
<1>2. /\ part \in Seq(Lines) /\ Len(part) = j
      /\ \A i \in 1 .. j : part[i] = wire[i]
  <2>1. \A i \in 1 .. j : wire[i] \in Lines
    BY <1>1
  <2>2. 1 \in Int /\ j \in Int /\ 1 <= j /\ j - 1 + 1 = j
        /\ \A i \in 1 .. j : 1 + i - 1 = i
    BY <1>1
  <2> QED
    BY <2>1, <2>2, SubSeqProperties
<1> HIDE DEF part
<1>3. Answer(j) = lines \o part
  BY DEF Answer, part
<1>4. /\ Answer(j) \in Seq(Lines) /\ Len(Answer(j)) = Len(lines) + j
      /\ \A i \in 1 .. Len(lines) + j :
            Answer(j)[i] = IF i <= Len(lines) THEN lines[i] ELSE part[i - Len(lines)]
  <2> DEFINE a == lines \o part
  <2>1. /\ a \in Seq(Lines) /\ Len(a) = Len(lines) + Len(part)
        /\ \A i \in 1 .. Len(lines) + Len(part) :
                a[i] = IF i <= Len(lines) THEN lines[i] ELSE part[i - Len(lines)]
    BY <1>1, <1>2, ConcatProperties
  <2>2. Answer(j) = a
    BY <1>3
  <2> HIDE DEF a
  <2> QED
    BY <1>2, <2>1, <2>2
<1>5. ASSUME NEW i \in 1 .. Len(lines) + j PROVE Answer(j)[i] = Come[i]
  <2>1. CASE i <= Len(lines)
    <3>1. i \in 1 .. Len(lines)
      BY <1>1, <2>1
    <3>2. Come[i] = lines[i]
      BY <3>1, ComeFacts
    <3> QED
      BY <1>4, <2>1, <3>2
  <2>2. CASE ~(i <= Len(lines))
    <3>1. /\ i - Len(lines) \in 1 .. j /\ i - Len(lines) \in 1 .. Len(wire)
          /\ Len(lines) + (i - Len(lines)) = i
      BY <1>1, <2>2
    <3>2. Come[Len(lines) + (i - Len(lines))] = wire[i - Len(lines)]
      BY <3>1, ComeFacts
    <3> QED
      BY <1>2, <1>4, <2>2, <3>1, <3>2
  <2> QED
    BY <2>1, <2>2
<1> QED
  BY <1>4, <1>5

\* The first status of the wire, and what that is in an answer behind p counts.
EndAt(j) == HasStatus(wire[j]) /\ \A i \in 1 .. j - 1 : ~HasStatus(wire[i])
EndOf(answer, p, j, m) ==
    /\ HasStatus(answer[m]) /\ \A i \in 1 .. m - 1 : ~HasStatus(answer[i])
    /\ Len(lines) + j = p + m
    /\ \A i \in m + 1 .. Len(answer) :
            j + (i - m) \in 1 .. Len(wire) /\ wire[j + (i - m)] = answer[i]

\* The first status of the wire is the first one of the reply: what is read is
\* the reply up to it, with the counts before.
LEMMA TheEnd ==
    ASSUME TypeOK, LinesInv, NEW answer, Proper(answer),
           NEW p \in 0 .. Len(Come), AnswerAt(answer, p),
           NEW j \in 1 .. Len(wire), EndAt(j)
    PROVE  \E m \in 1 .. Len(answer) : EndOf(answer, p, j, m)
<1> DEFINE n == Len(answer)
<1> DEFINE l == Len(lines)
<1>1. /\ l \in Nat /\ Len(wire) \in Nat /\ Len(Come) = l + Len(wire)
      /\ \A i \in 1 .. l : Come[i] = lines[i]
      /\ \A i \in 1 .. Len(wire) : Come[l + i] = wire[i]
  BY ComeFacts
<1>2. n \in Nat \ {0} /\ HasStatus(answer[n])
  BY DEF Proper
<1>3. /\ p + n <= Len(Come) /\ \A i \in 1 .. n : Come[p + i] = answer[i]
      /\ \A i \in 1 .. Len(Come) : i <= p => ~HasStatus(Come[i])
  BY CountFacts DEF AnswerAt
<1> HIDE DEF n, l
<1>4. ASSUME NEW i \in 1 .. l + j - 1 PROVE ~HasStatus(Come[i])
  <2>1. CASE i \in 1 .. l
    BY <1>1, <2>1 DEF LinesInv, l
  <2>2. CASE i \notin 1 .. l
    <3>1. i - l \in 1 .. j - 1 /\ i - l \in 1 .. Len(wire) /\ l + (i - l) = i
      BY <1>1, <2>2
    <3>2. ~HasStatus(wire[i - l])
      BY <3>1 DEF EndAt
    <3>3. Come[l + (i - l)] = wire[i - l]
      BY <1>1, <3>1
    <3> QED
      BY <3>1, <3>2, <3>3
  <2> QED
    BY <2>1, <2>2
<1>5. HasStatus(Come[l + j]) /\ l + j \in 1 .. Len(Come)
  BY <1>1 DEF EndAt
<1>6. p < l + j
  BY <1>1, <1>3, <1>5
<1>7. l + j <= p + n
  <2>1. n \in 1 .. n /\ HasStatus(Come[p + n])
    BY <1>2, <1>3
  <2>2. ~(p + n \in 1 .. l + j - 1)
    BY <1>4, <2>1
  <2> QED
    BY <1>1, <1>2, <2>2
<1> DEFINE m == l + j - p
<1>8. m \in 1 .. n /\ l + j = p + m
  BY <1>1, <1>2, <1>6, <1>7
<1> HIDE DEF m
<1>9. HasStatus(answer[m])
  BY <1>3, <1>5, <1>8
<1>10. ASSUME NEW i \in 1 .. m - 1 PROVE ~HasStatus(answer[i])
  <2>1. i \in 1 .. n /\ p + i \in 1 .. l + j - 1
    BY <1>1, <1>2, <1>8
  <2> QED
    BY <1>3, <1>4, <2>1
<1>11. ASSUME NEW i \in m + 1 .. n
       PROVE  j + (i - m) \in 1 .. Len(wire) /\ wire[j + (i - m)] = answer[i]
  <2>1. i \in 1 .. n /\ p + i = l + (j + (i - m)) /\ j + (i - m) \in 1 .. Len(wire)
    BY <1>1, <1>2, <1>3, <1>8
  <2> QED
    BY <1>1, <1>3, <2>1
<1> QED
  BY <1>8, <1>9, <1>10, <1>11 DEF n, l, EndOf

-----------------------------------------------------------------------------
(* The steps, but for the end of an answer.                                *)

LEMMA HeardStays == ASSUME reading' = reading PROVE Heard' = Heard
BY DEF Heard

LEMMA Nothing == /\ Len(<<>>) = 0 /\ DOMAIN <<>> = {} /\ <<>> \o <<>> = <<>>
                 /\ \A S : <<>> \in Seq(S)
BY EmptySeq

LEMMA Initially == Init => IInv
<1> SUFFICES ASSUME Init PROVE IInv
  OBVIOUS
<1>1. /\ pc = "greeting" /\ lines = <<>> /\ storage = <<>> /\ current = 0
      /\ exists = 0 /\ mails = <<>> /\ lost = FALSE /\ wire = <<>>
      /\ requests = <<Request("greeting", NoBox, 0)>>
      /\ reading \in [Boxes \cup {NoBox} -> Readings]
      /\ held = Held /\ examined = NoBox
  BY DEF Init
<1>2. /\ Len(lines) = 0 /\ Len(wire) = 0 /\ Len(storage) = 0 /\ Len(mails) = 0
      /\ DOMAIN storage = {} /\ Come = <<>>
  BY <1>1, Nothing DEF Come
<1>3. TypeOK
  <2>1. requests \in Seq([verb : Waits, box : Boxes \cup {NoBox}, n : 0 .. MaxMails])
    BY <1>1, HeldAssumption DEF Waits, Request
  <2>2. /\ exists \in 0 .. MaxMails /\ current \in 0 .. Len(storage) + 1
        /\ Len(mails) <= exists
    BY <1>1, <1>2, HeldAssumption
  <2>3. lines \in Seq(Lines) /\ wire \in Seq(Lines) /\ mails \in Seq(Mail)
        /\ storage \in Seq([name : Boxes, mails : Seq(Mail)])
    BY <1>1, Nothing
  <2> QED
    BY <1>1, <2>1, <2>2, <2>3, HeldAssumption DEF TypeOK, Waits
<1>4. LinesInv
  BY <1>1, <1>2, HeldAssumption DEF LinesInv
<1>5. /\ \A i \in 1 .. Len(requests) : requests[i].verb = "greeting"
      /\ RequestsInv
  BY <1>1 DEF Request, RequestsInv
<1>8. LoopInv
  BY <1>1, <1>2, <1>5, Nothing DEF LoopInv, Before, InLoop
<1>6. StepInv
  <2>1. Pending
    BY <1>1, <1>2, Nothing DEF Pending, Asked
  <2> QED
    BY <1>1, <2>1 DEF StepInv
<1>7. Shown
  BY <1>2 DEF Shown
<1> QED
  BY <1>3, <1>4, <1>5, <1>6, <1>7, <1>8 DEF IInv

LEMMA ThrowsKeeps ==
    ASSUME IInv, Throws PROVE IInv'
<1>1. /\ UNCHANGED <<lines, storage, current, exists, mails, lost, wire, requests,
                     reading, held, examined>>
      /\ pc' = "threw"
  BY DEF Throws, GoTo, serverVars
<1>2. TypeOK'
  BY <1>1 DEF IInv, TypeOK, Ends
<1>3. LinesInv' /\ RequestsInv' /\ Shown'
  BY <1>1 DEF IInv, LinesInv, RequestsInv, Shown, ShownWell
<1>4. LoopInv'
  <2>1. NamesKept' = NamesKept
    BY <1>1, HeardStays DEF NamesKept
  <2> QED
    BY <1>1, <2>1 DEF IInv, LoopInv, Before, InLoop
<1>5. StepInv'
  BY <1>1 DEF StepInv, Waits
<1> QED
  BY <1>2, <1>3, <1>4, <1>5 DEF IInv

\* A reply may come as long as the client waits for it, although mails arrive.
LEMMA RepliesStay ==
    ASSUME TypeOK, TypeOK', LoopInv,
           UNCHANGED <<pc, storage, current, mails, reading>>,
           \A box \in Boxes : held[box] <= held'[box], pc \in Waits,
           NEW answer \in Replies
    PROVE  answer \in Replies'
<1>1. Box' = Box /\ Asked' = Asked
  BY DEF Box, Asked
<1>2. CASE pc = "EXAMINE"
  <2>1. CASE Box \in Refused
    BY <1>1, <1>2, <2>1 DEF Replies
  <2>2. CASE Box \notin Refused
    <3>1. PICK n \in Held[Box] .. held[Box] :
             \/ answer = <<Line("exists", Box, n), Reply("ok"), Reply("ok")>>
             \/ answer = <<Reply("ok"), Line("exists", Box, n), Reply("ok")>>
      BY <1>2, <2>2 DEF Replies
    <3>2. Box \in Boxes
      <4>1. /\ current \in 1 .. Len(storage)
            /\ storage \in Seq([name : Boxes, mails : Seq(Mail)])
        BY <1>2 DEF LoopInv, TypeOK, InLoop
      <4>2. storage[current] \in [name : Boxes, mails : Seq(Mail)]
        BY <4>1, ElementOfSeq
      <4> QED
        BY <4>2 DEF Box
    <3>3. held[Box] <= held'[Box] /\ held[Box] \in Int /\ held'[Box] \in Int
          /\ Held[Box] \in Int
      BY <3>2, HeldAssumption DEF TypeOK
    <3>4. n \in Held[Box] .. held'[Box]
      BY <3>3
    <3> QED
      BY <1>1, <1>2, <2>2, <3>1, <3>4 DEF Replies
  <2> QED
    BY <2>1, <2>2
<1>3. CASE pc = "FETCH"
  BY <1>1, <1>3 DEF Replies
<1>4. CASE pc \notin InLoop
  <2>1. answer \in Answers(Asked) /\ Asked.verb = pc
    BY <1>4 DEF Replies, InLoop, Asked, Request
  <2>2. Answers(Asked)' = Answers(Asked)
    <3>0. \A box : TextLine(box)' = TextLine(box)
      BY DEF TextLine
    <3>1. CASE Asked.verb = "greeting"
      BY <1>1, <3>1, Zenon DEF Answers
    <3>2. CASE Asked.verb = "LOGIN"
      <4>1. TextLine(NoBox)' = TextLine(NoBox)
        BY <3>0
      <4> QED
        BY <1>1, <3>2, <4>1, Zenon DEF Answers
    <3>3. CASE Asked.verb = "LIST"
      <4>1. Names' = Names
        BY <3>0 DEF Names
      <4>2. Answers(Asked) = {Names \o <<Reply("ok")>>, <<Reply("no")>>}
        BY <3>3, Zenon DEF Answers, Names
      <4>3. Answers(Asked)' = {Names' \o <<Reply("ok")>>, <<Reply("no")>>}
        BY <1>1, <3>3, Zenon DEF Answers, Names
      <4> QED
        BY <4>1, <4>2, <4>3
    <3>4. CASE Asked.verb = "LOGOUT"
      BY <1>1, <3>4, Zenon DEF Answers
    <3> QED
      BY <1>4, <2>1, <3>1, <3>2, <3>3, <3>4 DEF Waits, InLoop
  <2> QED
    BY <1>4, <2>1, <2>2 DEF Replies, InLoop
<1> QED
  BY <1>2, <1>3, <1>4 DEF InLoop

LEMMA MoreKeeps ==
    ASSUME IInv, NEW k \in 1 .. Len(wire), ReadsMore(k) PROVE IInv'
<1>1. /\ UNCHANGED <<pc, storage, current, exists, mails, lost, requests,
                     reading, held, examined>>
      /\ pc \in Waits /\ \A j \in 1 .. k : ~HasStatus(wire[j])
      /\ lines' = lines \o SubSeq(wire, 1, k)
      /\ wire' = SubSeq(wire, k + 1, Len(wire))
  BY DEF ReadsMore, serverVars
<1>2. lines \in Seq(Lines) /\ wire \in Seq(Lines) /\ Len(wire) \in Nat
  BY LenProperties DEF IInv, TypeOK
<1>3. /\ lines' \in Seq(Lines) /\ wire' \in Seq(Lines) /\ Come' = Come
  <2>1. /\ SubSeq(wire, 1, k) \in Seq(Lines)
        /\ SubSeq(wire, k + 1, Len(wire)) \in Seq(Lines)
        /\ (lines \o SubSeq(wire, 1, k)) \o SubSeq(wire, k + 1, Len(wire))
                = lines \o wire
    <3>1. \A s, t \in Seq(Lines) : \A m \in 1 .. Len(t) :
              /\ SubSeq(t, 1, m) \in Seq(Lines) /\ SubSeq(t, m + 1, Len(t)) \in Seq(Lines)
              /\ (s \o SubSeq(t, 1, m)) \o SubSeq(t, m + 1, Len(t)) = s \o t
      BY SomeRead
    <3> QED
      BY <1>2, <3>1
  <2> QED
    BY <1>1, <1>2, <2>1, ConcatProperties DEF Come
<1>4. TypeOK'
  BY <1>1, <1>3 DEF IInv, TypeOK
<1>5. LinesInv'
  <2>1. ASSUME NEW i \in 1 .. Len(lines') PROVE ~HasStatus(lines'[i])
    <3>1. lines' = Answer(k)
      BY <1>1 DEF Answer
    <3>2. Len(lines') = Len(lines) + k /\ lines'[i] = Come[i] /\ Len(lines) \in Nat
      BY <2>1, <3>1, AnswerLines, ComeFacts DEF IInv
    <3>3. CASE i \in 1 .. Len(lines)
      BY <3>2, <3>3, ComeFacts DEF IInv, LinesInv
    <3>4. CASE i \notin 1 .. Len(lines)
      <4>1. i - Len(lines) \in 1 .. k /\ i - Len(lines) \in 1 .. Len(wire)
            /\ Len(lines) + (i - Len(lines)) = i
        BY <1>2, <3>2, <3>4
      <4>2. Come[Len(lines) + (i - Len(lines))] = wire[i - Len(lines)]
        BY <4>1, ComeFacts DEF IInv
      <4> QED
        BY <1>1, <3>2, <4>1, <4>2
    <3> QED
      BY <3>3, <3>4
  <2>2. ASSUME NEW i \in 1 .. Len(wire') PROVE \E j \in 1 .. Len(wire) : wire'[i] = wire[j]
    <3>1. \A j \in k + 1 .. Len(wire) : wire[j] \in Lines
      BY <1>2
    <3>2. k \in Nat /\ k <= Len(wire)
      BY <1>2
    <3>3. Len(wire') = Len(wire) - k /\ wire'[i] = wire[k + i]
      BY <1>1, <1>2, <2>2, <3>1, <3>2, PartOf
    <3>4. k + i \in 1 .. Len(wire)
      BY <1>2, <3>2, <3>3
    <3> QED
      BY <3>3, <3>4
  <2> QED
    BY <1>1, <2>1, <2>2 DEF IInv, LinesInv
<1>9. RequestsInv'
  BY <1>1 DEF IInv, RequestsInv
<1>6. LoopInv'
  <2>1. pc \in Before => ~lost
    <3>1. 1 \in 1 .. k /\ HasStatus(Reply("ok"))
      BY <1>2, ReplyFacts
    <3> QED
      BY <1>1, <3>1 DEF IInv, LoopInv
  <2>2. NamesKept' = NamesKept
    BY <1>1, HeardStays DEF NamesKept
  <2> QED
    BY <1>1, <1>3, <2>1, <2>2 DEF IInv, LoopInv
<1>7. StepInv'
  <2>1. Pending => Pending'
    BY <1>1, <1>3 DEF Pending, Asked, Box
  <2>2. Answered => Answered'
    <3> SUFFICES ASSUME Answered PROVE Answered'
      OBVIOUS
    <3>1. PICK answer \in Replies, p \in 0 .. Len(Come) : AnswerAt(answer, p)
      BY DEF Answered
    <3>2. \A box \in Boxes : held[box] <= held'[box]
      BY <1>1 DEF IInv, TypeOK
    <3>3. answer \in Replies'
      BY <1>1, <1>4, <3>2, RepliesStay DEF IInv
    <3>4. AnswerAt(answer, p)'
      BY <1>3, <3>1 DEF AnswerAt
    <3> QED
      BY <1>1, <1>3, <3>3, <3>4 DEF Answered
  <2> QED
    BY <1>1, <2>1, <2>2 DEF IInv, StepInv, Selection, Box
<1>8. Shown'
  BY <1>1 DEF IInv, Shown, ShownWell
<1> QED
  BY <1>4, <1>5, <1>6, <1>7, <1>8, <1>9 DEF IInv

\* The queue of the commands, when one is written and when one is answered.
Commands == [verb : Waits, box : Boxes \cup {NoBox}, n : 0 .. MaxMails]

LEMMA CommandWritten ==
    ASSUME TypeOK, RequestsInv, NEW verb \in Waits, NEW box \in Boxes \cup {NoBox},
           NEW n \in 0 .. MaxMails, verb = "EXAMINE" => box \in Boxes,
           Write(verb, box, n)
    PROVE  /\ pc' = verb /\ requests' \in Seq(Commands) /\ RequestsInv'
           /\ requests = <<>> => requests' = <<Request(verb, box, n)>>
           /\ verb \in Before /\ (\A i \in 1 .. Len(requests) : requests[i].verb \in Before)
                => \A i \in 1 .. Len(requests') : requests'[i].verb \in Before
<1> DEFINE r == Request(verb, box, n)
<1>1. r \in Commands /\ r.verb = verb /\ r.box = box
  BY DEF Commands, Request
<1>2. /\ requests \in Seq(Commands) /\ Len(requests) \in Nat
      /\ pc' = verb /\ requests' = Append(requests, r)
  BY LenProperties DEF TypeOK, Commands, Write
<1> HIDE DEF r
<1>3. /\ requests' \in Seq(Commands) /\ Len(requests') = Len(requests) + 1
      /\ requests'[Len(requests) + 1] = r
      /\ \A i \in 1 .. Len(requests) : requests'[i] = requests[i]
  BY <1>1, <1>2, AppendProperties
<1>4. \A i \in 1 .. Len(requests') : i \in 1 .. Len(requests) \/ requests'[i] = r
  BY <1>2, <1>3
<1>5. RequestsInv'
  BY <1>1, <1>3, <1>4 DEF RequestsInv
<1>6. requests = <<>> => requests' = <<r>>
  BY <1>2
<1> QED
  BY <1>1, <1>2, <1>3, <1>4, <1>5, <1>6 DEF r

LEMMA CommandAnswered ==
    ASSUME TypeOK, RequestsInv, requests # <<>>, requests' = Tail(requests)
    PROVE  /\ Head(requests) \in Commands /\ requests' \in Seq(Commands)
           /\ Head(requests) = requests[1] /\ 1 \in 1 .. Len(requests)
           /\ \A i \in 1 .. Len(requests') :
                i + 1 \in 1 .. Len(requests) /\ requests'[i] = requests[i + 1]
           /\ \A r : requests = <<r>> => Head(requests) = r /\ requests' = <<>>
           /\ RequestsInv'
<1>1. requests \in Seq(Commands) /\ Len(requests) \in Nat
  BY LenProperties DEF TypeOK, Commands
<1>2. /\ Head(requests) \in Commands /\ requests' \in Seq(Commands)
      /\ Len(requests') = Len(requests) - 1 /\ Len(requests) # 0
      /\ \A i \in 1 .. Len(requests') : requests'[i] = requests[i + 1]
      /\ Head(requests) = requests[1]
  BY <1>1, HeadTailProperties, EmptySeq
<1>3. \A i \in 1 .. Len(requests') : i + 1 \in 1 .. Len(requests)
  BY <1>1, <1>2
<1>4. ASSUME NEW r, requests = <<r>> PROVE Head(requests) = r /\ requests' = <<>>
  BY <1>4
<1>5. RequestsInv'
  BY <1>2, <1>3 DEF RequestsInv
<1> QED
  BY <1>1, <1>2, <1>3, <1>4, <1>5

\* The server answers what the client waits for.
LEMMA AnswerIsReply ==
    ASSUME IInv, ~lost, pc \in Waits, NEW request, request = Asked,
           NEW answer \in Answers(request)
    PROVE  answer \in Replies
<1>1. request = Asked /\ request.verb = pc
  BY DEF Asked, Request
<1>2. pc \in InLoop => Box \in Boxes
  <2> SUFFICES ASSUME pc \in InLoop PROVE Box \in Boxes
    OBVIOUS
  <2>1. /\ current \in 1 .. Len(storage)
        /\ storage \in Seq([name : Boxes, mails : Seq(Mail)])
    BY DEF IInv, LoopInv, TypeOK
  <2>2. storage[current] \in [name : Boxes, mails : Seq(Mail)]
    BY <2>1, ElementOfSeq
  <2> QED
    BY <2>2 DEF Box
<1>3. CASE pc = "EXAMINE"
  <2>1. request.box = Box /\ Box \in Boxes
    BY <1>1, <1>2, <1>3 DEF Asked, Request, InLoop
  <2>2. held[Box] \in Held[Box] .. held[Box]
    BY <2>1, HeldAssumption DEF IInv, TypeOK, LinesInv
  <2>3. CASE Box \in Refused
    BY <1>1, <1>3, <2>1, <2>3, AnswersAre DEF Replies
  <2>4. CASE Box \notin Refused
    <3>1. \/ answer = <<Line("exists", Box, held[Box]), Reply("ok"), Reply("ok")>>
          \/ answer = <<Reply("ok"), Line("exists", Box, held[Box]), Reply("ok")>>
      BY <1>1, <1>3, <2>1, <2>4, AnswersAre
    <3> QED
      BY <1>3, <2>2, <2>4, <3>1 DEF Replies
  <2> QED
    BY <2>3, <2>4
<1>4. CASE pc = "FETCH"
  <2>1. /\ request.n = Len(mails) + 1 /\ Box \in Boxes /\ examined = Selection
        /\ Box \notin Refused => exists \in Held[Box] .. held[Box]
    BY <1>1, <1>2, <1>4 DEF Asked, Request, InLoop, IInv, StepInv
  <2>2. CASE Box \in Refused
    BY <1>1, <1>4, <2>1, <2>2, AnswersAre DEF Replies, Selection
  <2>3. CASE Box \notin Refused
    <3>1. examined = Box /\ examined # NoBox
      BY <2>1, <2>3, ListingAssumption DEF Selection
    <3>2. ~(request.n > held[examined])
      <4>1. /\ Len(mails) \in Nat /\ Len(mails) < exists /\ held[Box] \in Int
            /\ exists \in Int /\ exists <= held[Box]
        BY <1>4, <2>1, <2>3, LenProperties, HeldAssumption DEF IInv, TypeOK, LoopInv
      <4> QED
        BY <2>1, <3>1, <4>1
    <3>3. answer \in {Full(Box, Len(mails) + 1, shapes) : shapes \in Headers}
      BY <1>1, <1>4, <2>1, <3>1, <3>2, AnswersAre
    <3> QED
      BY <1>4, <2>3, <3>3 DEF Replies
  <2> QED
    BY <2>2, <2>3
<1>5. CASE pc \notin InLoop
  BY <1>1, <1>5 DEF Replies, InLoop
<1> QED
  BY <1>3, <1>4, <1>5 DEF InLoop

LEMMA ServerKeeps ==
    ASSUME IInv, ServerAnswers PROVE IInv'
<1> DEFINE request == Head(requests)
<1>1. /\ UNCHANGED <<pc, lines, storage, current, exists, mails, lost, reading, held>>
      /\ pc \in Waits /\ requests # <<>> /\ requests' = Tail(requests)
      /\ examined' = IF request.verb # "EXAMINE" THEN examined
                     ELSE IF request.box \in Refused THEN NoBox ELSE request.box
  BY DEF ServerAnswers, clientVars
<1>2. PICK answer \in Answers(request) : wire' = wire \o answer
  BY DEF ServerAnswers
<1>11. /\ request \in Commands /\ requests' \in Seq(Commands)
       /\ request = requests[1] /\ 1 \in 1 .. Len(requests)
       /\ \A i \in 1 .. Len(requests') :
                i + 1 \in 1 .. Len(requests) /\ requests'[i] = requests[i + 1]
       /\ \A r : requests = <<r>> => request = r /\ requests' = <<>>
       /\ RequestsInv'
  BY <1>1, CommandAnswered DEF IInv
<1> HIDE DEF request
<1>12. request.verb = "EXAMINE" => request.box \in Boxes
  BY <1>11 DEF IInv, RequestsInv
<1>13. Proper(answer) /\ (request.verb \in Before => Plain(answer))
  BY <1>11, <1>12, AnswersProper DEF IInv, TypeOK, Commands
<1>3. /\ Proper(answer)
      /\ request.verb \in Before =>
            \A i \in 1 .. Len(answer) : answer[i].kind # "exists"
  BY <1>13 DEF Plain
<1>4. /\ answer \in Seq(Lines) /\ Len(answer) \in Nat
      /\ lines \in Seq(Lines) /\ wire \in Seq(Lines) /\ Len(wire) \in Nat
  BY <1>3, LenProperties DEF Proper, IInv, TypeOK
<1>5. /\ wire' \in Seq(Lines) /\ Len(wire') = Len(wire) + Len(answer)
      /\ \A i \in 1 .. Len(wire) + Len(answer) :
            wire'[i] = IF i <= Len(wire) THEN wire[i] ELSE answer[i - Len(wire)]
  BY <1>2, <1>4, ConcatProperties
<1>6. TypeOK'
  <2>1. examined' \in Boxes \cup {NoBox}
    BY <1>1, <1>12 DEF IInv, TypeOK
  <2> QED
    BY <1>1, <1>5, <1>11, <2>1 DEF IInv, TypeOK, Commands
<1>7. LinesInv'
  <2>1. ASSUME NEW i \in 1 .. Len(wire'), wire'[i].kind = "exists"
        PROVE  wire'[i] \in Counts
    <3>1. CASE i <= Len(wire)
      <4>1. i \in 1 .. Len(wire) /\ wire'[i] = wire[i]
        BY <1>4, <1>5, <2>1, <3>1
      <4> QED
        BY <2>1, <4>1 DEF IInv, LinesInv
    <3>2. CASE ~(i <= Len(wire))
      <4>1. i - Len(wire) \in 1 .. Len(answer) /\ wire'[i] = answer[i - Len(wire)]
        BY <1>4, <1>5, <2>1, <3>2
      <4> QED
        BY <1>3, <2>1, <4>1 DEF Proper
    <3> QED
      BY <3>1, <3>2
  <2> QED
    BY <1>1, <2>1 DEF IInv, LinesInv
<1>8. /\ Come' \in Seq(Lines) /\ Come \in Seq(Lines) /\ Len(Come) \in Nat
      /\ Len(Come') = Len(Come) + Len(answer)
      /\ \A i \in 1 .. Len(Come) : Come'[i] = Come[i]
      /\ \A i \in 1 .. Len(answer) : Come'[Len(Come) + i] = answer[i]
  <2> DEFINE come == Come
  <2>1. come \in Seq(Lines) /\ Len(come) \in Nat
    BY LenProperties, ComeFacts DEF IInv
  <2>2. Come' = come \o answer
    <3>1. \A a, b, c \in Seq(Lines) : a \o (b \o c) = (a \o b) \o c
      OBVIOUS
    <3>2. Come' = lines \o (wire \o answer)
      BY <1>1, <1>2 DEF Come
    <3> QED
      BY <1>4, <3>1, <3>2 DEF Come
  <2> HIDE DEF come
  <2> DEFINE longer == come \o answer
  <2>3. /\ longer \in Seq(Lines) /\ Len(longer) = Len(come) + Len(answer)
        /\ \A i \in 1 .. Len(come) + Len(answer) :
             longer[i] = IF i <= Len(come) THEN come[i] ELSE answer[i - Len(come)]
    BY <1>4, <2>1, ConcatProperties
  <2> HIDE DEF longer
  <2>4. ASSUME NEW i \in 1 .. Len(answer) PROVE longer[Len(come) + i] = answer[i]
    <3>1. /\ Len(come) + i \in 1 .. Len(come) + Len(answer)
          /\ ~(Len(come) + i <= Len(come)) /\ (Len(come) + i) - Len(come) = i
      BY <1>4, <2>1
    <3> QED
      BY <2>3, <3>1
  <2>5. \A i \in 1 .. Len(come) : longer[i] = come[i]
    BY <1>4, <2>1, <2>3
  <2> QED
    BY <2>1, <2>2, <2>3, <2>4, <2>5 DEF come, longer
<1>14. LoopInv'
  <2>1. ASSUME pc \in Before
        PROVE  /\ examined' = NoBox
               /\ \A i \in 1 .. Len(requests') : requests'[i].verb \in Before
               /\ \A i \in 1 .. Len(Come') : Come'[i].kind # "exists"
               /\ Len(wire) > 0 => Len(wire') > 0 /\ wire'[1] = wire[1]
    <3>1. request.verb \in Before /\ examined = NoBox
      BY <1>11, <2>1 DEF IInv, LoopInv
    <3>2. examined' = NoBox
      BY <1>1, <3>1 DEF Before
    <3>3. \A i \in 1 .. Len(requests') : requests'[i].verb \in Before
      BY <1>11, <2>1 DEF IInv, LoopInv
    <3>4. ASSUME NEW i \in 1 .. Len(Come') PROVE Come'[i].kind # "exists"
      <4>1. CASE i \in 1 .. Len(Come)
        BY <1>8, <2>1, <4>1 DEF IInv, LoopInv
      <4>2. CASE i \notin 1 .. Len(Come)
        <5>1. i - Len(Come) \in 1 .. Len(answer) /\ Len(Come) + (i - Len(Come)) = i
          BY <1>4, <1>8, <4>2
        <5> QED
          BY <1>3, <1>8, <3>1, <5>1
      <4> QED
        BY <4>1, <4>2
    <3>5. Len(wire) > 0 => Len(wire') > 0 /\ wire'[1] = wire[1]
      BY <1>4, <1>5
    <3> QED
      BY <3>2, <3>3, <3>4, <3>5
  <2>2. NamesKept' = NamesKept
    BY <1>1, HeardStays DEF NamesKept
  <2> QED
    BY <1>1, <2>1, <2>2 DEF IInv, LoopInv
<1>9. CASE lost
  BY <1>1, <1>6, <1>7, <1>9, <1>11, <1>14 DEF IInv, StepInv, Shown, ShownWell
<1>10. CASE ~lost
  <2>1. Pending
    BY <1>1, <1>10 DEF IInv, StepInv, Answered
  <2>2. request = Asked /\ request.verb = pc /\ requests' = <<>>
    BY <1>11, <2>1 DEF Pending, Asked, Request
  <2>3. answer \in Replies
    BY <1>1, <1>10, <2>2, AnswerIsReply
  <2>4. StepInv'
    <3>1. answer \in Replies'
      <4>1. \A box \in Boxes : held[box] <= held'[box]
        BY <1>1 DEF IInv, TypeOK
      <4> QED
        BY <1>1, <1>6, <2>3, <4>1, RepliesStay DEF IInv
    <3>2. \E p \in 0 .. Len(Come') : AnswerAt(answer, p)'
      <4>1. ASSUME NEW i \in 1 .. Len(Come'), i <= Len(Come) PROVE Come'[i] \in Counts
        BY <1>8, <2>1, <4>1 DEF Pending
      <4>2. PICK p \in Nat : p = Len(Come)
        BY <1>8
      <4>3. /\ p \in 0 .. Len(Come') /\ p + Len(answer) <= Len(Come')
            /\ \A i \in 1 .. Len(answer) : Come'[p + i] = answer[i]
        BY <1>4, <1>8, <4>2
      <4>4. \A i \in 1 .. Len(Come') : i <= p \/ i > p + Len(answer) => Come'[i] \in Counts
        BY <1>4, <1>8, <4>1, <4>2
      <4>5. AnswerAt(answer, p)'
        BY <4>3, <4>4 DEF AnswerAt
      <4> QED
        BY <4>3, <4>5
    <3>3. Answered'
      BY <2>2, <3>1, <3>2 DEF Answered
    <3>4. Box' = Box /\ Selection' = Selection
      BY <1>1 DEF Box, Selection
    <3>5. pc = "EXAMINE" => examined' = Selection'
      BY <1>1, <2>2, <3>4 DEF Asked, Request, Selection
    <3>6. pc = "FETCH" => examined' = examined
      BY <1>1, <2>2
    <3> QED
      BY <1>1, <1>10, <3>3, <3>4, <3>5, <3>6 DEF IInv, StepInv
  <2> QED
    BY <1>1, <1>6, <1>7, <1>11, <1>14, <2>4 DEF IInv, Shown, ShownWell
<1> QED
  BY <1>9, <1>10

\* The mailboxes of the storage are mailboxes of the server.
LEMMA Stored ==
    ASSUME TypeOK, NEW k \in DOMAIN storage
    PROVE  /\ k \in 1 .. Len(storage) /\ Len(storage) \in Nat
           /\ storage[k].name \in Boxes /\ storage[k].mails \in Seq(Mail)
           /\ storage[k] = [name |-> storage[k].name, mails |-> storage[k].mails]
<1>1. storage \in Seq([name : Boxes, mails : Seq(Mail)])
  BY DEF TypeOK
<1>2. k \in 1 .. Len(storage) /\ Len(storage) \in Nat
  BY <1>1, LenProperties
<1>3. storage[k] \in [name : Boxes, mails : Seq(Mail)]
  BY <1>1, <1>2, ElementOfSeq
<1> QED
  BY <1>2, <1>3

LEMMA ArrivesKeeps ==
    ASSUME IInv, Arrives PROVE IInv'
<1> DEFINE count == Line("exists", examined, held'[examined])
<1>1. /\ UNCHANGED <<pc, lines, storage, current, exists, mails, lost, requests,
                     reading, examined>>
      /\ pc \in Waits /\ examined # NoBox /\ held[examined] < MaxMails
      /\ held' = [held EXCEPT ![examined] = @ + 1]
      /\ wire' = Append(wire, count)
  BY DEF Arrives, clientVars
<1>2. /\ examined \in Boxes /\ held \in [Boxes -> 0 .. MaxMails]
      /\ lines \in Seq(Lines) /\ wire \in Seq(Lines) /\ Len(wire) \in Nat
      /\ MaxMails \in Nat /\ Held \in [Boxes -> 0 .. MaxMails]
  BY <1>1, HeldAssumption, LenProperties DEF IInv, TypeOK
<1>3. /\ held' \in [Boxes -> 0 .. MaxMails]
      /\ \A box \in Boxes : held[box] <= held'[box]
  BY <1>1, <1>2
<1>4. count \in Counts /\ count \in Lines
  BY <1>2, <1>3, CountFacts
<1> HIDE DEF count
<1>5. /\ wire' \in Seq(Lines) /\ Len(wire') = Len(wire) + 1
      /\ wire'[Len(wire) + 1] = count /\ \A i \in 1 .. Len(wire) : wire'[i] = wire[i]
  BY <1>1, <1>2, <1>4, AppendProperties
<1>6. TypeOK'
  BY <1>1, <1>3, <1>5 DEF IInv, TypeOK
<1>7. LinesInv'
  <2>1. ASSUME NEW i \in 1 .. Len(wire'), wire'[i].kind = "exists"
        PROVE  wire'[i] \in Counts
    <3>1. CASE i = Len(wire) + 1
      BY <1>4, <1>5, <3>1
    <3>2. CASE i # Len(wire) + 1
      <4>1. i \in 1 .. Len(wire)
        BY <1>2, <1>5, <3>2
      <4> QED
        BY <1>5, <2>1, <4>1 DEF IInv, LinesInv
    <3> QED
      BY <3>1, <3>2
  <2>2. \A box \in Boxes : Held[box] <= held'[box]
    BY <1>2, <1>3 DEF IInv, LinesInv
  <2> QED
    BY <1>1, <2>1, <2>2 DEF IInv, LinesInv
<1>8. /\ Come \in Seq(Lines) /\ Len(Come) \in Nat /\ Len(Come') = Len(Come) + 1
      /\ Come'[Len(Come) + 1] = count
      /\ \A i \in 1 .. Len(Come) : Come'[i] = Come[i]
  <2> DEFINE come == Come
  <2>1. come \in Seq(Lines) /\ Len(come) \in Nat
    BY LenProperties, ComeFacts DEF IInv
  <2>2. Come' = Append(come, count)
    BY <1>1, <1>2, <1>4 DEF Come
  <2> HIDE DEF come
  <2>3. /\ Len(Append(come, count)) = Len(come) + 1
        /\ Append(come, count)[Len(come) + 1] = count
        /\ \A i \in 1 .. Len(come) : Append(come, count)[i] = come[i]
    BY <1>4, <2>1, AppendProperties
  <2> QED
    BY <2>1, <2>2, <2>3 DEF come
<1>9. LoopInv' /\ RequestsInv'
  <2>1. NamesKept' = NamesKept
    BY <1>1, HeardStays DEF NamesKept
  <2> QED
    BY <1>1, <2>1 DEF IInv, LoopInv, RequestsInv
<1>10. StepInv'
  <2> SUFFICES ASSUME ~lost PROVE StepInv'
    BY <1>1 DEF StepInv
  <2>1. Box' = Box /\ Asked' = Asked /\ Selection' = Selection
    BY <1>1 DEF Box, Asked, Selection
  <2>2. ASSUME Pending PROVE Pending'
    <3>1. ASSUME NEW i \in 1 .. Len(Come') PROVE Come'[i] \in Counts
      BY <1>4, <1>8, <2>2 DEF Pending
    <3> QED
      BY <1>1, <2>1, <2>2, <3>1 DEF Pending
  <2>3. ASSUME Answered PROVE Answered'
    <3>1. PICK answer \in Replies, p \in 0 .. Len(Come) : AnswerAt(answer, p)
      BY <2>3 DEF Answered
    <3>2. answer \in Replies' /\ Len(answer) \in Nat
      BY <1>1, <1>3, <1>6, RepliesStay, RepliesProper DEF IInv, Proper
    <3>3. /\ p \in 0 .. Len(Come') /\ p + Len(answer) <= Len(Come')
          /\ \A i \in 1 .. Len(answer) : Come'[p + i] = answer[i]
      <4>1. /\ p + Len(answer) <= Len(Come)
            /\ \A i \in 1 .. Len(answer) : Come[p + i] = answer[i]
        BY <3>1 DEF AnswerAt
      <4>2. ASSUME NEW i \in 1 .. Len(answer) PROVE p + i \in 1 .. Len(Come)
        BY <1>8, <3>2, <4>1
      <4>3. p \in 0 .. Len(Come') /\ p + Len(answer) <= Len(Come')
        BY <1>8, <3>2, <4>1
      <4> QED
        BY <1>8, <4>1, <4>2, <4>3
    <3>4. ASSUME NEW i \in 1 .. Len(Come'), i <= p \/ i > p + Len(answer)
          PROVE  Come'[i] \in Counts
      BY <1>4, <1>8, <3>1, <3>4 DEF AnswerAt
    <3>5. AnswerAt(answer, p)'
      BY <3>3, <3>4 DEF AnswerAt
    <3> QED
      BY <1>1, <2>3, <3>2, <3>3, <3>5 DEF Answered
  <2>4. ASSUME pc = "FETCH", Box \notin Refused PROVE exists \in Held[Box] .. held'[Box]
    <3>1. Box \in Boxes
      BY <2>4, Stored DEF IInv, LoopInv, InLoop, Box
    <3>2. exists \in Held[Box] .. held[Box]
      BY <2>4 DEF IInv, StepInv
    <3>3. held[Box] \in Int /\ held'[Box] \in Int /\ Held[Box] \in Int
          /\ held[Box] <= held'[Box]
      BY <1>2, <1>3, <3>1
    <3> QED
      BY <3>2, <3>3
  <2> QED
    BY <1>1, <2>1, <2>2, <2>3, <2>4 DEF IInv, StepInv
<1>11. Shown'
  <2>1. ASSUME NEW k \in DOMAIN storage, ShownWell(k) PROVE ShownWell(k)'
    <3> DEFINE box == storage[k].name
    <3>1. /\ box \in Boxes /\ box' = box /\ UNCHANGED storage[k]
          /\ Len(storage[k].mails) \in Nat
      BY <1>1, Stored, LenProperties DEF IInv
    <3>2. held[box] \in Int /\ held'[box] \in Int /\ Held[box] \in Int
          /\ held[box] <= held'[box]
      BY <1>2, <1>3, <3>1
    <3>3. Len(storage[k].mails) \in Held[box] .. held[box] =>
            Len(storage[k].mails) \in Held[box] .. held'[box]
      BY <3>1, <3>2
    <3> QED
      BY <1>1, <2>1, <3>1, <3>3 DEF ShownWell
  <2> QED
    BY <1>1, <2>1 DEF IInv, Shown
<1> QED
  BY <1>6, <1>7, <1>9, <1>10, <1>11 DEF IInv

-----------------------------------------------------------------------------
(* The end of an answer.                                                   *)

\* What has come is then what the read has left; if nothing is lost by that,
\* these are counts.
LEMMA EndLeaves ==
    ASSUME IInv, NEW k \in 1 .. Len(wire), NEW j \in 1 .. k, Ended(j, k),
           UNCHANGED serverVars
    PROVE  /\ j \in 1 .. Len(wire) /\ lines' \in Seq(Lines) /\ wire' \in Seq(Lines)
           /\ Come' = wire' /\ Len(wire') = Len(wire) - k /\ lost' \in BOOLEAN
           /\ reading' = reading /\ held' = held /\ examined' = examined /\ LinesInv'
           /\ \A i \in 1 .. Len(Come') :
                k + i \in k + 1 .. Len(wire) /\ Come'[i] = wire[k + i]
           /\ pc \in Before => \A i \in 1 .. Len(Come') : Come'[i].kind # "exists"
           /\ ~lost' => ~lost /\ \A i \in 1 .. Len(Come') : Come'[i] \in Counts
<1>1. /\ wire' = SubSeq(wire, k + 1, Len(wire)) /\ lines' = <<>>
      /\ lost' = \/ lost
                 \/ \E i \in j + 1 .. k : wire[i].kind \in {"header", "exists"}
                 \/ \E i \in k + 1 .. Len(wire) : wire[i].kind # "exists"
  BY DEF Ended
<1>2. wire \in Seq(Lines) /\ Len(wire) \in Nat /\ lost \in BOOLEAN
  BY LenProperties DEF IInv, TypeOK
<1>3. /\ wire' \in Seq(Lines) /\ Len(wire') = Len(wire) - k
      /\ \A i \in 1 .. Len(wire') : /\ wire'[i] = wire[k + i]
                                    /\ k + i \in k + 1 .. Len(wire)
                                    /\ k + i \in 1 .. Len(wire)
  <2>1. (\A i \in k + 1 .. Len(wire) : wire[i] \in Lines) /\ k \in Nat /\ k <= Len(wire)
    BY <1>2
  <2> DEFINE rest == SubSeq(wire, k + 1, Len(wire))
  <2>2. /\ rest \in Seq(Lines) /\ Len(rest) = Len(wire) - k
        /\ \A i \in 1 .. Len(wire) - k : rest[i] = wire[k + i]
    BY <1>2, <2>1, PartOf
  <2>3. rest = wire'
    BY <1>1
  <2> HIDE DEF rest
  <2> QED
    BY <1>2, <2>1, <2>2, <2>3
<1>4. Come' = wire' /\ lines' \in Seq(Lines) /\ Len(lines') = 0
  <2>1. Come' = <<>> \o wire'
    BY <1>1 DEF Come
  <2>2. <<>> \o wire' = wire'
    BY <1>3, ConcatEmptySeq
  <2> QED
    BY <1>1, <2>1, <2>2, Nothing
<1>5. reading' = reading /\ held' = held /\ examined' = examined /\ j \in 1 .. Len(wire)
  BY <1>2 DEF serverVars
<1>6. LinesInv'
  <2>1. ASSUME NEW i \in 1 .. Len(wire'), wire'[i].kind = "exists"
        PROVE  wire'[i] \in Counts
    <3>1. k + i \in 1 .. Len(wire) /\ wire'[i] = wire[k + i]
      BY <1>3
    <3> QED
      BY <2>1, <3>1 DEF IInv, LinesInv
  <2> QED
    BY <1>4, <1>5, <2>1 DEF IInv, LinesInv
<1>8. ASSUME pc \in Before, NEW i \in 1 .. Len(wire') PROVE wire'[i].kind # "exists"
  <2>1. k + i \in 1 .. Len(wire) /\ wire'[i] = wire[k + i]
    BY <1>3
  <2>2. \A n \in 1 .. Len(Come) : Come[n].kind # "exists"
    BY <1>8 DEF IInv, LoopInv
  <2>3. ASSUME NEW n \in 1 .. Len(wire) PROVE wire[n].kind # "exists"
    <3>1. /\ Len(Come) = Len(lines) + Len(wire)
          /\ Len(lines) \in Nat /\ Len(wire) \in Nat /\ n \in Nat
          /\ Come[Len(lines) + n] = wire[n]
      BY <1>2, ComeFacts DEF IInv
    <3>2. Len(lines) + n \in 1 .. Len(Come)
      BY <3>1
    <3> QED
      BY <2>2, <3>1, <3>2
  <2> QED
    BY <2>1, <2>3
<1>7. ASSUME ~lost', NEW i \in 1 .. Len(wire') PROVE wire'[i] \in Counts
  <2>1. k + i \in k + 1 .. Len(wire) /\ k + i \in 1 .. Len(wire) /\ wire'[i] = wire[k + i]
    BY <1>3
  <2>2. \A l \in k + 1 .. Len(wire) : wire[l].kind = "exists"
    BY <1>1, <1>7
  <2>3. wire[k + i].kind = "exists"
    BY <2>1, <2>2
  <2> QED
    BY <2>1, <2>3 DEF IInv, LinesInv
<1> QED
  BY <1>1, <1>2, <1>3, <1>4, <1>5, <1>6, <1>7, <1>8

\* What the client has got when it has read the first m lines of the answer,
\* with p counts before them.
Got(j, answer, p, m) ==
    /\ p \in Nat /\ m \in 1 .. Len(answer) /\ Len(Answer(j)) = p + m
    /\ HasStatus(answer[m]) /\ \A i \in 1 .. m - 1 : ~HasStatus(answer[i])
    /\ \A i \in 1 .. m : Answer(j)[p + i] = answer[i]
    /\ \A i \in 1 .. p : Answer(j)[i] \in Counts

\* In step, the end that arrives is one of the reply to the command: of which
\* nothing is lost if what comes after it does not matter.
LEMMA EndOfReply ==
    ASSUME IInv, ~lost, pc \in Waits,
           NEW k \in 1 .. Len(wire), NEW j \in 1 .. k, Ended(j, k)
    PROVE  /\ requests = <<>>
           /\ \E answer \in Replies, p \in Nat :
                \E m \in 1 .. Len(answer) :
                    /\ Proper(answer) /\ Got(j, answer, p, m)
                    /\ Last(Answer(j)) = answer[m]
                    /\ ~lost' => \A i \in m + 1 .. Len(answer) :
                                    answer[i].kind \notin {"header", "exists"}
                    /\ pc \in Before =>
                        /\ Plain(answer) /\ p = 0 /\ Len(Come) = Len(answer)
                        /\ \A i \in 1 .. Len(answer) : Come[i] = answer[i]
<1>1. /\ HasStatus(wire[j]) /\ \A i \in 1 .. j - 1 : ~HasStatus(wire[i])
      /\ lost' = \/ lost
                 \/ \E i \in j + 1 .. k : wire[i].kind \in {"header", "exists"}
                 \/ \E i \in k + 1 .. Len(wire) : wire[i].kind # "exists"
  BY DEF Ended
<1>2. /\ Len(wire) \in Nat /\ Len(lines) \in Nat /\ Len(Come) = Len(lines) + Len(wire)
      /\ Come[Len(lines) + j] = wire[j] /\ j \in 1 .. Len(wire)
  BY ComeFacts DEF IInv
<1>3. ~Pending
  <2>1. Len(lines) + j \in 1 .. Len(Come)
    BY <1>2
  <2> QED
    BY <1>1, <1>2, <2>1, CountFacts DEF Pending
<1>4. Answered
  BY <1>3 DEF IInv, StepInv
<1>5. PICK answer \in Replies, p \in 0 .. Len(Come) : AnswerAt(answer, p)
  BY <1>4 DEF Answered
<1>6. Proper(answer) /\ Len(answer) \in Nat /\ (pc \in Before => Plain(answer))
  BY RepliesProper DEF IInv, Proper
<1>7. PICK m \in 1 .. Len(answer) : EndOf(answer, p, j, m)
  <2>1. TypeOK /\ LinesInv /\ Proper(answer) /\ j \in 1 .. Len(wire) /\ EndAt(j)
    BY <1>1, <1>2, <1>6 DEF IInv, EndAt
  <2> QED
    BY <1>5, <2>1, TheEnd
<1>8. /\ Answer(j) \in Seq(Lines) /\ Len(Answer(j)) = Len(lines) + j
      /\ \A i \in 1 .. Len(lines) + j : Answer(j)[i] = Come[i]
  BY <1>2, AnswerLines DEF IInv
<1>9. /\ \A i \in 1 .. Len(answer) : Come[p + i] = answer[i]
      /\ p + Len(answer) <= Len(Come)
      /\ \A i \in 1 .. Len(Come) : i <= p \/ i > p + Len(answer) => Come[i] \in Counts
  BY <1>5 DEF AnswerAt
<1>10. Got(j, answer, p, m)
  <2>1. ASSUME NEW i \in 1 .. m PROVE Answer(j)[p + i] = answer[i]
    <3>0. /\ Len(answer) \in Nat /\ m \in 1 .. Len(answer) /\ p \in Nat
          /\ Len(lines) + j = p + m
      BY <1>2, <1>6, <1>7 DEF EndOf
    <3>1. p + i \in 1 .. Len(lines) + j /\ i \in 1 .. Len(answer)
      BY <3>0
    <3> QED
      BY <1>8, <1>9, <3>1
  <2>2. ASSUME NEW i \in 1 .. p PROVE Answer(j)[i] \in Counts
    <3>1. i \in 1 .. Len(lines) + j /\ i \in 1 .. Len(Come) /\ i <= p
      BY <1>2, <1>6, <1>7 DEF EndOf
    <3> QED
      BY <1>8, <1>9, <3>1
  <2> QED
    BY <1>7, <1>8, <2>1, <2>2 DEF Got, EndOf
<1>11. Last(Answer(j)) = answer[m]
  <2>1. Last(Answer(j)) = Answer(j)[p + m]
    BY <1>7, <1>8 DEF Last, EndOf
  <2> QED
    BY <1>6, <1>10, <2>1 DEF Got
<1>12. ASSUME ~lost', NEW i \in m + 1 .. Len(answer)
       PROVE  answer[i].kind \notin {"header", "exists"}
  <2> DEFINE n == Len(answer)
  <2> DEFINE end == j + (n - m)
  <2>1. n \in m + 1 .. n /\ n \in 1 .. n
    BY <1>6, <1>12
  <2>2. answer[n].kind # "exists"
    BY <1>6 DEF Proper
  <2>3. end \in 1 .. Len(wire) /\ wire[end] = answer[n]
    BY <1>7, <2>1 DEF EndOf
  <2>4. end <= k
    <3> HIDE DEF end, n
    <3>1. \A l \in k + 1 .. Len(wire) : wire[l].kind = "exists"
      BY <1>1, <1>12
    <3>2. ~(end \in k + 1 .. Len(wire))
      BY <2>2, <2>3, <3>1
    <3> QED
      BY <1>2, <2>3, <3>2
  <2>5. wire[j + (i - m)] = answer[i] /\ j + (i - m) \in j + 1 .. k
    BY <1>2, <1>6, <1>7, <1>12, <2>4 DEF EndOf
  <2> QED
    BY <1>1, <1>12, <2>5
<1>13. ASSUME pc \in Before
       PROVE  /\ Plain(answer) /\ p = 0 /\ Len(Come) = Len(answer)
              /\ \A i \in 1 .. Len(answer) : Come[i] = answer[i]
  <2>2. \A i \in 1 .. Len(Come) : Come[i] \notin Counts
    BY <1>13, CountFacts DEF IInv, LoopInv
  <2>3. p = 0
    <3>1. p # 0 => 1 \in 1 .. Len(Come) /\ 1 <= p
      BY <1>2
    <3> QED
      BY <1>9, <2>2, <3>1
  <2>4. Len(Come) = p + Len(answer)
    <3>1. Len(Come) \in Nat /\ p + Len(answer) <= Len(Come) /\ Len(answer) \in Nat
      BY <1>2, <1>6, <1>9
    <3>2. Len(Come) # p + Len(answer) =>
            Len(Come) \in 1 .. Len(Come) /\ Len(Come) > p + Len(answer)
      BY <3>1
    <3> QED
      BY <1>9, <2>2, <3>2
  <2>5. \A i \in 1 .. Len(answer) : Come[i] = answer[i]
    <3> SUFFICES ASSUME NEW i \in 1 .. Len(answer) PROVE Come[i] = answer[i]
      OBVIOUS
    <3>1. p + i = i /\ Come[p + i] = answer[i]
      BY <1>9, <2>3
    <3> QED
      BY <3>1
  <2> QED
    BY <1>2, <1>6, <1>13, <2>3, <2>4, <2>5
<1> QED
  BY <1>4, <1>6, <1>10, <1>11, <1>12, <1>13 DEF Answered, Got

\* Where nothing is lost, what has come when the next command is written is
\* counts, and the client waits for its answer.
LEMMA WaitsAgain ==
    ASSUME IInv, NEW k \in 1 .. Len(wire), NEW j \in 1 .. k, Ended(j, k),
           UNCHANGED serverVars, pc \in Waits, ~lost',
           NEW r, requests = <<>> => requests' = <<r>>, r = Asked'
    PROVE  Pending'
<1>1. ~lost /\ \A i \in 1 .. Len(Come') : Come'[i] \in Counts
  BY EndLeaves
<1>2. requests = <<>>
  BY <1>1, EndOfReply
<1> QED
  BY <1>1, <1>2 DEF Pending

\* The next mailbox is examined, or there is none.
LEMMA NextBoxKeeps ==
    ASSUME IInv, NEW k \in 1 .. Len(wire), NEW j \in 1 .. k, Ended(j, k),
           UNCHANGED serverVars, pc \in Waits,
           storage' \in Seq([name : Boxes, mails : Seq(Mail)]), NamesKept',
           NEW at \in 0 .. Len(storage'), NextBox(storage', at),
           ~lost' => \A i \in DOMAIN storage' :
                        IF i <= at THEN ShownWell(i)' ELSE storage'[i].mails = <<>>
    PROVE  IInv'
<1>1. /\ current' = at + 1 /\ exists' = 0 /\ mails' = <<>>
      /\ IF at < Len(storage') THEN Write("EXAMINE", storage'[at + 1].name, 0)
                               ELSE Write("LOGOUT", NoBox, 0)
  BY DEF NextBox
<1>2. /\ Len(storage') \in Nat /\ DOMAIN storage' = 1 .. Len(storage')
      /\ \A i \in 1 .. Len(storage') : storage'[i].name \in Boxes
  <2>1. Len(storage') \in Nat /\ DOMAIN storage' = 1 .. Len(storage')
    BY LenProperties
  <2>2. ASSUME NEW i \in 1 .. Len(storage')
        PROVE  storage'[i] \in [name : Boxes, mails : Seq(Mail)]
    BY ElementOfSeq
  <2> QED
    BY <2>1, <2>2
<1> DEFINE verb == IF at < Len(storage') THEN "EXAMINE" ELSE "LOGOUT"
<1> DEFINE box == IF at < Len(storage') THEN storage'[at + 1].name ELSE NoBox
<1>3. /\ pc' = verb /\ requests' \in Seq(Commands) /\ RequestsInv'
      /\ requests = <<>> => requests' = <<Request(verb, box, 0)>>
  <2>1. at < Len(storage') => at + 1 \in 1 .. Len(storage')
    BY <1>2
  <2>2. /\ Write(verb, box, 0) /\ verb \in Waits /\ 0 \in 0 .. MaxMails
        /\ box \in Boxes \cup {NoBox} /\ (verb = "EXAMINE" => box \in Boxes)
    BY <1>1, <1>2, <2>1, HeldAssumption DEF Waits
  <2> HIDE DEF verb, box
  <2> QED
    BY <2>2, CommandWritten DEF IInv
<1>10. Request(verb, box, 0) = Asked'
  <2>1. verb # "FETCH" /\ (verb = "EXAMINE" => box = Box') /\ (verb # "EXAMINE" => box = NoBox)
    BY <1>1 DEF Box
  <2> HIDE DEF verb, box
  <2> QED
    BY <1>3, <2>1 DEF Asked
<1>4. /\ lines' \in Seq(Lines) /\ wire' \in Seq(Lines) /\ lost' \in BOOLEAN
      /\ reading' = reading /\ held' = held /\ examined' = examined /\ LinesInv'
      /\ ~lost' => ~lost
  BY EndLeaves
<1>5. TypeOK'
  <2>1. /\ mails' \in Seq(Mail) /\ exists' \in 0 .. MaxMails
        /\ Len(mails') <= exists' /\ pc' \in Waits
        /\ current' \in 0 .. Len(storage') + 1
    BY <1>1, <1>2, <1>3, Nothing, HeldAssumption DEF Waits
  <2>2. requests' \in Seq([verb : Waits, box : Boxes \cup {NoBox}, n : 0 .. MaxMails])
    BY <1>3 DEF Commands
  <2>3. /\ reading' \in [Boxes \cup {NoBox} -> Readings]
        /\ held' \in [Boxes -> 0 .. MaxMails]
        /\ examined' \in Boxes \cup {NoBox}
    BY <1>4 DEF IInv, TypeOK
  <2> QED
    BY <1>4, <2>1, <2>2, <2>3 DEF TypeOK
<1>7. LoopInv'
  BY <1>1, <1>2, <1>3 DEF LoopInv, Before, InLoop
<1>8. StepInv'
  <2> SUFFICES ASSUME ~lost' PROVE StepInv'
    BY DEF StepInv
  <2>1. Pending'
    <3> DEFINE r == Request(verb, box, 0)
    <3>1. (requests = <<>> => requests' = <<r>>) /\ r = Asked'
      BY <1>3, <1>10
    <3> HIDE DEF r
    <3> QED
      BY <3>1, WaitsAgain
  <2>2. pc' # "FETCH" /\ requests' # <<>>
    BY <1>3, <2>1 DEF Pending
  <2> QED
    BY <2>1, <2>2 DEF StepInv
<1>9. Shown'
  <2> SUFFICES ASSUME ~lost', NEW i \in DOMAIN storage'
               PROVE  IF i < current' THEN ShownWell(i)' ELSE storage'[i].mails = <<>>
    BY DEF Shown
  <2>1. i < current' <=> i <= at
    BY <1>1, <1>2
  <2> QED
    BY <2>1
<1> QED
  BY <1>3, <1>4, <1>5, <1>7, <1>8, <1>9 DEF IInv

\* The next mail of the mailbox is fetched.
LEMMA NextMailKeeps ==
    ASSUME IInv, NEW k \in 1 .. Len(wire), NEW j \in 1 .. k, Ended(j, k),
           UNCHANGED serverVars, UNCHANGED <<storage, current>>, pc \in InLoop,
           mails' \in Seq(Mail), exists' \in 0 .. MaxMails, Len(mails') < exists',
           Write("FETCH", NoBox, Len(mails') + 1),
           ~lost' =>
                /\ examined = Selection
                /\ IF Box \in Refused
                   THEN \A i \in DOMAIN mails' : mails'[i] = Blank
                   ELSE /\ mails' = [i \in 1 .. Len(mails') |-> Whole(Box, i)]
                        /\ exists' \in Held[Box] .. held[Box]
    PROVE  IInv'
<1>3. /\ lines' \in Seq(Lines) /\ wire' \in Seq(Lines) /\ lost' \in BOOLEAN
      /\ reading' = reading /\ held' = held /\ examined' = examined /\ LinesInv'
      /\ ~lost' => ~lost
  BY EndLeaves
<1>4. Len(mails') \in Nat /\ Len(mails') + 1 \in 0 .. MaxMails /\ Len(mails') <= exists'
  <2>1. Len(mails') \in Nat
    BY LenProperties
  <2> QED
    BY <2>1, HeldAssumption
<1> DEFINE n == Len(mails') + 1
<1>1. /\ pc' = "FETCH" /\ storage' = storage /\ current' = current
      /\ requests' \in Seq(Commands) /\ RequestsInv'
      /\ requests = <<>> => requests' = <<Request("FETCH", NoBox, n)>>
  <2>1. n \in 0 .. MaxMails /\ "FETCH" \in Waits /\ Write("FETCH", NoBox, n)
    BY <1>4 DEF Waits
  <2> HIDE DEF n
  <2> QED
    BY <2>1, CommandWritten DEF IInv
<1>2. Request("FETCH", NoBox, n) = Asked'
  BY <1>1 DEF Asked
<1>5. TypeOK'
  BY <1>1, <1>3, <1>4 DEF IInv, TypeOK, Waits, Commands
<1>7. LoopInv'
  <2>1. NamesKept' = NamesKept
    BY <1>1, <1>3, HeardStays DEF NamesKept
  <2> QED
    BY <1>1, <2>1 DEF IInv, LoopInv, Before, InLoop
<1>8. StepInv'
  <2> SUFFICES ASSUME ~lost' PROVE StepInv'
    BY DEF StepInv
  <2>1. Pending'
    <3> DEFINE r == Request("FETCH", NoBox, n)
    <3>1. (requests = <<>> => requests' = <<r>>) /\ r = Asked' /\ pc \in Waits
      BY <1>1, <1>2 DEF InLoop, Waits
    <3> HIDE DEF r
    <3> QED
      BY <3>1, WaitsAgain
  <2>2. Box' = Box /\ Selection' = Selection
    BY <1>1 DEF Box, Selection
  <2> QED
    BY <1>1, <1>3, <2>1, <2>2 DEF StepInv
<1>9. Shown'
  BY <1>1, <1>3 DEF IInv, Shown, ShownWell
<1> QED
  BY <1>1, <1>3, <1>5, <1>7, <1>8, <1>9 DEF IInv

\* The client is through.
LEMMA OverKeeps ==
    ASSUME IInv, NEW k \in 1 .. Len(wire), NEW j \in 1 .. k, Ended(j, k),
           UNCHANGED serverVars, UNCHANGED <<storage, current, exists, mails>>,
           pc' \in {"done", "error"}, requests' = requests,
           pc' = "done" => pc = "LOGOUT"
    PROVE  IInv'
<1>1. /\ lines' \in Seq(Lines) /\ wire' \in Seq(Lines) /\ lost' \in BOOLEAN
      /\ reading' = reading /\ held' = held /\ examined' = examined /\ LinesInv'
      /\ ~lost' => ~lost
  BY EndLeaves
<1>2. TypeOK'
  BY <1>1 DEF IInv, TypeOK, Ends
<1>3. RequestsInv'
  BY DEF IInv, RequestsInv
<1>4. LoopInv'
  <2>1. NamesKept' = NamesKept
    BY <1>1, HeardStays DEF NamesKept
  <2> QED
    BY <2>1 DEF IInv, LoopInv, Before, InLoop
<1>5. StepInv'
  BY DEF StepInv, Waits
<1>6. Shown'
  BY <1>1 DEF IInv, Shown, ShownWell
<1> QED
  BY <1>1, <1>2, <1>3, <1>4, <1>5, <1>6 DEF IInv

-----------------------------------------------------------------------------
(* What the client takes from an answer.                                   *)

LEMMA Greatest ==
    ASSUME NEW n \in Nat, NEW T, T \subseteq 1 .. n, T # {}
    PROVE  Max(T) \in T /\ \A i \in T : i <= Max(T)
<1> DEFINE D == {n - i : i \in T}
<1>0. ASSUME NEW i \in T PROVE i \in Int /\ n - i \in Nat
  <2>1. i \in 1 .. n
    OBVIOUS
  <2> QED
    BY <2>1
<1>1. D \subseteq Nat /\ D # {}
  BY <1>0
<1>2. PICK d \in D : \A e \in D : d <= e
  <2> HIDE DEF D
  <2> QED
    BY <1>1, Least
<1>3. PICK g \in T : d = n - g
  BY <1>2
<1>4. ASSUME NEW i \in T PROVE g >= i
  <2>1. n - i \in D
    OBVIOUS
  <2>2. n - g <= n - i /\ g \in Int /\ i \in Int
    BY <1>0, <1>2, <1>3, <2>1
  <2> QED
    BY <2>2
<1>5. Max(T) \in T /\ \A i \in T : Max(T) >= i
  BY <1>4 DEF Max
<1>6. Max(T) \in Int /\ \A i \in T : i \in Int
  BY <1>0, <1>5
<1> QED
  BY <1>5, <1>6

\* Where an answer has lines of one kind, and the last of these places.
LEMMA PlaceFacts ==
    ASSUME NEW answer \in Seq(Lines), NEW kind
    PROVE  /\ Len(answer) \in Nat
           /\ \A i : i \in Places(kind, answer) <=>
                        i \in 1 .. Len(answer) /\ answer[i].kind = kind
           /\ Places(kind, answer) # {} =>
                /\ Max(Places(kind, answer)) \in 1 .. Len(answer)
                /\ answer[Max(Places(kind, answer))] \in Lines
                /\ answer[Max(Places(kind, answer))].kind = kind
                /\ \A i \in 1 .. Len(answer) :
                        answer[i].kind = kind => i <= Max(Places(kind, answer))
<1>1. Len(answer) \in Nat /\ DOMAIN answer = 1 .. Len(answer)
  BY LenProperties
<1>2. \A i : i \in Places(kind, answer) <=>
                        i \in 1 .. Len(answer) /\ answer[i].kind = kind
  BY <1>1 DEF Places
<1> DEFINE P == Places(kind, answer)
<1>3. P \subseteq 1 .. Len(answer)
  BY <1>2
<1> HIDE DEF P
<1>4. ASSUME P # {}
      PROVE  /\ Max(P) \in P /\ Max(P) \in 1 .. Len(answer)
             /\ \A i \in P : i <= Max(P)
  BY <1>1, <1>3, <1>4, Greatest
<1> QED
  BY <1>1, <1>2, <1>4 DEF P

\* get_exists_amount takes the last number of an answer.
LEMMA AmountFacts ==
    ASSUME NEW answer \in Seq(Lines)
    PROVE  /\ ExistsAmount(answer) \in 0 .. MaxMails
           /\ \A i \in 1 .. Len(answer) :
                /\ answer[i].kind = "exists"
                /\ \A l \in i + 1 .. Len(answer) : answer[l].kind # "exists"
                => ExistsAmount(answer) = answer[i].n
<1> DEFINE P == Places("exists", answer)
<1> DEFINE last == Max(P)
<1>1. /\ Len(answer) \in Nat
      /\ \A i : i \in P <=> i \in 1 .. Len(answer) /\ answer[i].kind = "exists"
      /\ P # {} => /\ last \in 1 .. Len(answer) /\ answer[last] \in Lines
                   /\ answer[last].kind = "exists"
                   /\ \A i \in 1 .. Len(answer) : answer[i].kind = "exists" => i <= last
  BY PlaceFacts
<1>2. ExistsAmount(answer) = IF P = {} THEN 0 ELSE answer[last].n
  BY DEF ExistsAmount
<1> HIDE DEF P, last
<1>3. ExistsAmount(answer) \in 0 .. MaxMails
  <2>1. CASE P = {}
    BY <1>2, <2>1, HeldAssumption
  <2>2. CASE P # {}
    BY <1>1, <1>2, <2>2 DEF Lines
  <2> QED
    BY <2>1, <2>2
<1>4. ASSUME NEW i \in 1 .. Len(answer), answer[i].kind = "exists",
             \A l \in i + 1 .. Len(answer) : answer[l].kind # "exists"
      PROVE  ExistsAmount(answer) = answer[i].n
  <2>1. P # {} /\ i <= last /\ last \in 1 .. Len(answer)
    BY <1>1, <1>4
  <2>2. ~(last \in i + 1 .. Len(answer))
    BY <1>1, <1>4, <2>1
  <2>3. last = i
    BY <1>1, <2>1, <2>2
  <2> QED
    BY <1>2, <2>1, <2>3
<1> QED
  BY <1>3, <1>4

\* extract_header_summary finds in an answer with one header what that says,
\* and nothing in one with none.
LEMMA SummaryFacts ==
    ASSUME NEW answer \in Seq(Lines)
    PROVE  /\ Summary(answer) \in Mail
           /\ (\A i \in 1 .. Len(answer) : answer[i].fields = {})
                => Summary(answer) = Blank
           /\ \A box \in Boxes : \A n \in 0 .. MaxMails :
                /\ \A f \in Fields : \E i \in 1 .. Len(answer) : f \in answer[i].fields
                /\ \A i \in 1 .. Len(answer) : answer[i].fields # {} =>
                        answer[i].box = box /\ answer[i].n = n
                => Summary(answer) = Whole(box, n)
<1> DEFINE P(f) == {i \in DOMAIN answer : f \in answer[i].fields}
<1> DEFINE last(f) == Max(P(f))
<1> DEFINE value(f) == IF P(f) = {} THEN NoMail
                       ELSE [box |-> answer[last(f)].box, n |-> answer[last(f)].n]
<1>0. Len(answer) \in Nat /\ DOMAIN answer = 1 .. Len(answer)
  BY LenProperties
<1>1. ASSUME NEW f \in Fields
      PROVE  /\ \A i : i \in P(f) <=> i \in 1 .. Len(answer) /\ f \in answer[i].fields
             /\ P(f) # {} => /\ last(f) \in 1 .. Len(answer)
                             /\ answer[last(f)] \in Lines /\ f \in answer[last(f)].fields
  <2>1. \A i : i \in P(f) <=> i \in 1 .. Len(answer) /\ f \in answer[i].fields
    BY <1>0
  <2> DEFINE T == P(f)
  <2>2. T \subseteq 1 .. Len(answer)
    BY <2>1
  <2> HIDE DEF T
  <2>3. T # {} => Max(T) \in T
    BY <1>0, <2>2, Greatest
  <2>4. T # {} => /\ last(f) \in 1 .. Len(answer) /\ f \in answer[last(f)].fields
    BY <2>1, <2>3 DEF T
  <2>5. last(f) \in 1 .. Len(answer) => answer[last(f)] \in Lines
    BY ElementOfSeq
  <2> QED
    BY <2>1, <2>4, <2>5 DEF T
<1>2. Summary(answer) = [f \in Fields |-> value(f)]
  BY DEF Summary
<1> HIDE DEF P, last
<1>3. ASSUME NEW f \in Fields PROVE value(f) \in Owner
  <2>1. CASE P(f) = {}
    BY <2>1, HeldAssumption DEF NoMail, Owner
  <2>2. CASE P(f) # {}
    <3>1. answer[last(f)].box \in Boxes \cup {NoBox} /\ answer[last(f)].n \in 0 .. MaxMails
      BY <1>1, <2>2 DEF Lines
    <3> QED
      BY <2>2, <3>1 DEF Owner
  <2> QED
    BY <2>1, <2>2
<1>4. ASSUME \A i \in 1 .. Len(answer) : answer[i].fields = {}, NEW f \in Fields
      PROVE  value(f) = NoMail
  BY <1>1, <1>4
<1>5. ASSUME NEW box \in Boxes, NEW n \in 0 .. MaxMails,
             \A f \in Fields : \E i \in 1 .. Len(answer) : f \in answer[i].fields,
             \A i \in 1 .. Len(answer) : answer[i].fields # {} =>
                        answer[i].box = box /\ answer[i].n = n,
             NEW f \in Fields
      PROVE  value(f) = [box |-> box, n |-> n]
  <2>1. P(f) # {}
    BY <1>1, <1>5
  <2>2. answer[last(f)].box = box /\ answer[last(f)].n = n
    BY <1>1, <1>5, <2>1
  <2> QED
    BY <2>1, <2>2
<1> HIDE DEF value
<1>6. Summary(answer) \in Mail
  BY <1>2, <1>3 DEF Mail
<1>7. (\A i \in 1 .. Len(answer) : answer[i].fields = {}) => Summary(answer) = Blank
  BY <1>2, <1>4 DEF Blank
<1>8. ASSUME NEW box \in Boxes, NEW n \in 0 .. MaxMails,
             \A f \in Fields : \E i \in 1 .. Len(answer) : f \in answer[i].fields,
             \A i \in 1 .. Len(answer) : answer[i].fields # {} =>
                        answer[i].box = box /\ answer[i].n = n
      PROVE  Summary(answer) = Whole(box, n)
  <2>1. \A f \in Fields : value(f) = [box |-> box, n |-> n]
    BY <1>5, <1>8
  <2> QED
    BY <1>2, <2>1 DEF Whole
<1> QED
  BY <1>6, <1>7, <1>8

\* The listing is heard up to its first line that reads like a status.
LEMMA HeardFacts ==
    ASSUME reading \in [Boxes \cup {NoBox} -> Readings],
           NEW m \in 1 .. Len(Listing) + 1,
           \A i \in 1 .. m - 1 : reading[Listing[i]] = "none",
           m <= Len(Listing) => reading[Listing[m]] # "none"
    PROVE  /\ Heard \in Seq(Boxes)
           /\ Len(Heard) = IF m <= Len(Listing) THEN m ELSE Len(Listing)
           /\ \A i \in 1 .. Len(Heard) : Heard[i] = Listing[i]
<1> DEFINE l == Len(Listing)
<1> DEFINE ends == {k \in DOMAIN Listing : reading[Listing[k]] # "none"}
<1>1. /\ Listing \in Seq(Boxes) /\ l \in Nat /\ DOMAIN Listing = 1 .. l
      /\ \A i \in 1 .. l : Listing[i] \in Boxes
  BY ListingAssumption, LenProperties
<1>2. Heard = IF ends = {} THEN Listing ELSE SubSeq(Listing, 1, Min(ends))
  BY DEF Heard
<1>3. CASE m <= l
  <2>1. m \in ends /\ ends \subseteq 1 .. l
    BY <1>1, <1>3
  <2>2. ASSUME NEW e \in ends PROVE m <= e
    <3>1. e \in 1 .. l /\ ~(e \in 1 .. m - 1)
      BY <1>1, <2>2
    <3> QED
      BY <1>1, <3>1
  <2> HIDE DEF ends, l
  <2>3. Min(ends) \in ends /\ \A e \in ends : Min(ends) <= e
    BY <2>1, <2>2 DEF Min
  <2>4. Min(ends) = m
    <3> DEFINE least == Min(ends)
    <3>1. least \in ends /\ least <= m /\ m <= least
      BY <2>1, <2>2, <2>3
    <3> HIDE DEF least
    <3>2. least \in Int /\ m \in Int
      BY <2>1, <3>1
    <3> QED
      BY <3>1, <3>2 DEF least
  <2>5. Heard = SubSeq(Listing, 0 + 1, m)
    BY <1>2, <2>1, <2>4
  <2>6. /\ SubSeq(Listing, 0 + 1, m) \in Seq(Boxes)
        /\ Len(SubSeq(Listing, 0 + 1, m)) = m - 0
        /\ \A i \in 1 .. m - 0 : SubSeq(Listing, 0 + 1, m)[i] = Listing[0 + i]
    <3>1. 0 \in Nat /\ m \in Nat /\ 0 <= m /\ \A i \in 0 + 1 .. m : Listing[i] \in Boxes
      BY <1>1, <1>3
    <3> QED
      BY <3>1, PartOf
  <2>7. Heard \in Seq(Boxes) /\ Len(Heard) = m
    BY <1>1, <1>3, <2>5, <2>6
  <2>8. ASSUME NEW i \in 1 .. m PROVE Heard[i] = Listing[i]
    <3>1. i \in 1 .. m - 0 /\ 0 + i = i
      BY <1>1, <1>3
    <3> QED
      BY <2>5, <2>6, <3>1
  <2> QED
    BY <1>3, <2>7, <2>8 DEF l
<1>4. CASE ~(m <= l)
  <2>1. m = l + 1
    BY <1>1, <1>4
  <2>2. ends = {}
    BY <1>1, <2>1
  <2> QED
    BY <1>1, <1>2, <1>4, <2>2
<1> QED
  BY <1>3, <1>4

\* The names that are stored are those in quotes, in the order of the server,
\* up to where the answer was taken to end.
LEMMA NamesStored ==
    ASSUME reading \in [Boxes \cup {NoBox} -> Readings], NEW s \in Seq(Lines),
           NEW m \in 1 .. Len(Named), Len(s) = m, \A i \in 1 .. m : s[i] = Named[i],
           HasStatus(Named[m]), \A i \in 1 .. m - 1 : ~HasStatus(Named[i]),
           IsOk(Named[m])
    PROVE  LET stored == StoreMailboxNames(s)
           IN /\ stored \in Seq([name : Boxes, mails : Seq(Mail)])
              /\ [k \in DOMAIN stored |-> stored[k].name] = Selected(Heard, Quoted)
              /\ stored # <<>> => reading[Last(Heard)] # "no"
              /\ \A k \in DOMAIN stored : stored[k].mails = <<>>
<1> DEFINE E == {line \in Lines : line.kind = "entry"}
<1> DEFINE g == [box \in Boxes |-> TextLine(box)]
<1> DEFINE heard == Heard
<1> DEFINE sel == Selected(heard, Quoted)
<1> DEFINE stored == StoreMailboxNames(s)
<1> DEFINE l == Len(Listing)
<1> DEFINE ok == Reply("ok")
<1>1. ASSUME NEW box \in Boxes
      PROVE  /\ g[box] \in Lines /\ g[box].box = box
             /\ g[box] \in E <=> box \in Quoted
  <2>1. g[box] = TextLine(box) /\ box \in Boxes \cup {NoBox}
    OBVIOUS
  <2> HIDE DEF g
  <2> QED
    BY <2>1, TextFacts
<1>2. Maps(g, Boxes, Lines)
  BY <1>1 DEF Maps
<1>3. /\ l \in Nat /\ Len(Named) = l + 1 /\ Named[l + 1] = ok
      /\ \A k \in 1 .. l : /\ Listing[k] \in Boxes /\ Named[k] = g[Listing[k]]
                           /\ HasStatus(Named[k]) <=> reading[Listing[k]] # "none"
                           /\ IsOk(Named[k]) <=> reading[Listing[k]] = "ok"
      /\ ok \in Lines /\ ok \notin E
  BY NamesFacts, TextFacts, ReplyFacts
<1> HIDE DEF g, ok, l
<1>4. /\ m \in 1 .. l + 1 /\ \A i \in 1 .. m - 1 : reading[Listing[i]] = "none"
      /\ m <= l => reading[Listing[m]] # "none"
  <2>1. m \in 1 .. l + 1 /\ (m <= l => m \in 1 .. l)
    BY <1>3
  <2>2. \A i \in 1 .. m - 1 : i \in 1 .. l
    BY <1>3, <2>1
  <2> QED
    BY <1>3, <2>1, <2>2
<1>5. /\ heard \in Seq(Boxes) /\ Len(heard) = IF m <= l THEN m ELSE l
      /\ \A i \in 1 .. Len(heard) : heard[i] = Listing[i]
  BY <1>4, HeardFacts DEF l
<1>6. stored # <<>> => reading[Last(Heard)] # "no"
  <2> SUFFICES ASSUME l > 0 \/ m <= l, heard # <<>> PROVE reading[Last(heard)] # "no"
    <3>1. heard = <<>> => stored = <<>>
      <4> SUFFICES ASSUME heard = <<>> PROVE stored = <<>>
        OBVIOUS
      <4>1. Len(heard) = 0
        BY Nothing
      <4>2. l = 0 /\ m = 1
        BY <1>3, <1>4, <1>5, <4>1
      <4>3. \A i \in 1 .. Len(s) : s[i] \notin E
        BY <1>3, <4>2
      <4>4. Selected(s, E) = <<>>
        <5> HIDE DEF E
        <5> QED
          BY <4>3, SelectedAll
      <4> DEFINE entries == Selected(s, E)
      <4>5. stored = [k \in DOMAIN entries |-> [name |-> entries[k].box, mails |-> <<>>]]
        BY DEF StoreMailboxNames
      <4>6. entries = <<>>
        BY <4>4
      <4> HIDE DEF entries, stored
      <4> QED
        BY <4>5, <4>6
    <3>2. heard # <<>> => l > 0 \/ m <= l
      <4> HIDE DEF heard
      <4>1. Len(heard) = 0 => heard = <<>>
        BY <1>5, EmptySeq
      <4> QED
        BY <1>3, <1>5, <4>1
    <3> QED
      BY <3>1, <3>2
  <2>1. /\ Len(heard) \in 1 .. l /\ Last(heard) = Listing[Len(heard)]
    <3> HIDE DEF heard
    <3>1. Len(heard) \in 1 .. l
      BY <1>3, <1>4, <1>5
    <3> QED
      BY <1>5, <3>1 DEF Last
  <2>2. CASE m <= l
    BY <1>3, <1>5, <2>1, <2>2
  <2>3. CASE ~(m <= l)
    <3> HIDE DEF heard
    <3>1. Len(heard) \in 1 .. m - 1
      BY <1>3, <1>4, <1>5, <2>1, <2>3
    <3> QED
      BY <1>4, <2>1, <3>1
  <2> QED
    BY <2>2, <2>3
<1> HIDE DEF heard
<1>7. sel \in Seq(Boxes)
  BY <1>5, SelectedType
<1>8. /\ Len(sel) \in Nat /\ DOMAIN sel = 1 .. Len(sel)
      /\ \A k \in 1 .. Len(sel) : sel[k] \in Boxes
      /\ sel = [k \in 1 .. Len(sel) |-> sel[k]]
  <2> HIDE DEF sel
  <2> QED
    BY <1>7, LenProperties
<1>9. Selected(s, E) = Selected(Image(g, heard), E)
  <2> DEFINE image == Image(g, heard)
  <2>1. image \in Seq(Lines) /\ Len(image) = Len(heard)
    BY <1>2, <1>5, ImageFacts
  <2>2. \A i \in 1 .. Len(heard) : image[i] = g[Listing[i]]
    <3>1. DOMAIN heard = 1 .. Len(heard)
      BY <1>5, LenProperties
    <3> QED
      BY <1>5, <3>1 DEF Image
  <2> HIDE DEF image
  <2>3. ASSUME NEW i \in 1 .. Len(heard) PROVE s[i] = image[i]
    <3>1. i \in 1 .. m /\ i \in 1 .. l
      BY <1>3, <1>4, <1>5
    <3> QED
      BY <1>3, <2>2, <3>1
  <2>4. CASE m <= l
    <3>1. s = image
      <4>1. Len(s) = Len(image) /\ \A i \in 1 .. Len(s) : s[i] = image[i]
        BY <1>5, <2>1, <2>3, <2>4
      <4> QED
        BY <2>1, <4>1, SeqEqual
    <3> QED
      BY <3>1 DEF image
  <2>5. CASE ~(m <= l)
    <3> DEFINE longer == Append(image, ok)
    <3>1. /\ longer \in Seq(Lines) /\ Len(longer) = Len(image) + 1
          /\ longer[Len(image) + 1] = ok
          /\ \A i \in 1 .. Len(image) : longer[i] = image[i]
      BY <1>3, <2>1, AppendProperties
    <3> HIDE DEF longer
    <3>2. Len(heard) = l /\ m = l + 1
      BY <1>3, <1>4, <1>5, <2>5
    <3>3. ASSUME NEW i \in 1 .. Len(s) PROVE s[i] = longer[i]
      <4>1. i \in 1 .. l \/ i = l + 1
        BY <1>3, <3>2
      <4> QED
        BY <1>3, <2>1, <2>3, <3>1, <3>2, <4>1
    <3>4. s = longer
      <4>1. Len(s) = Len(longer)
        BY <2>1, <3>1, <3>2
      <4> QED
        BY <3>1, <3>3, <4>1, SeqEqual
    <3>5. Selected(Append(image, ok), E) = Selected(image, E)
      <4> HIDE DEF E
      <4> QED
        BY <1>3, <2>1, SelectedAppend
    <3> QED
      BY <3>4, <3>5 DEF image, longer
  <2> QED
    BY <2>4, <2>5
<1>10. Selected(Image(g, heard), E) = Image(g, sel)
  <2>1. TakenInto(g, Boxes, Quoted, E)
    BY <1>1 DEF TakenInto
  <2> HIDE DEF E
  <2> QED
    BY <1>2, <1>5, <2>1, SelectedImage
<1>11. Image(g, sel) = [k \in 1 .. Len(sel) |-> g[sel[k]]]
  <2> HIDE DEF sel
  <2> QED
    BY <1>8 DEF Image
<1> HIDE DEF sel
<1>12. stored = [k \in 1 .. Len(sel) |-> [name |-> sel[k], mails |-> <<>>]]
  <2> DEFINE entries == Selected(s, E)
  <2>1. stored = [k \in DOMAIN entries |-> [name |-> entries[k].box, mails |-> <<>>]]
    BY DEF StoreMailboxNames
  <2>2. entries = [k \in 1 .. Len(sel) |-> g[sel[k]]]
    BY <1>9, <1>10, <1>11
  <2> HIDE DEF entries, stored
  <2>3. DOMAIN entries = 1 .. Len(sel) /\ \A k \in 1 .. Len(sel) : entries[k].box = sel[k]
    BY <1>1, <1>8, <2>2
  <2> QED
    BY <2>1, <2>3
<1> HIDE DEF stored
<1>13. stored \in Seq([name : Boxes, mails : Seq(Mail)])
  <2>1. ASSUME NEW k \in 1 .. Len(sel)
        PROVE  [name |-> sel[k], mails |-> <<>>] \in [name : Boxes, mails : Seq(Mail)]
    BY <1>8, Nothing
  <2> DEFINE R == [name : Boxes, mails : Seq(Mail)]
  <2> HIDE DEF R
  <2>2. stored \in [1 .. Len(sel) -> R]
    BY <1>12, <2>1 DEF R
  <2>3. stored \in Seq(R)
    BY <1>8, <2>2
  <2> QED
    BY <2>3 DEF R
<1>14. DOMAIN stored = 1 .. Len(sel)
       /\ \A k \in 1 .. Len(sel) : stored[k].name = sel[k] /\ stored[k].mails = <<>>
  BY <1>12
<1> QED
  BY <1>6, <1>8, <1>13, <1>14 DEF stored, sel, heard

\* Before the mailboxes are known no counts come: as long as nothing was left
\* behind, what is read is the beginning of the reply, and what a read leaves
\* is a line of the rest.
LEMMA ReadBefore ==
    ASSUME IInv, NEW k \in 1 .. Len(wire), NEW j \in 1 .. k, Ended(j, k),
           UNCHANGED serverVars, pc \in Before, ~lost
    PROVE  \E answer \in Replies : \E m \in 1 .. Len(answer) :
                /\ answer \in Seq(Lines) /\ Answer(j) \in Seq(Lines)
                /\ Len(Answer(j)) = m /\ \A i \in 1 .. m : Answer(j)[i] = answer[i]
                /\ HasStatus(answer[m]) /\ \A i \in 1 .. m - 1 : ~HasStatus(answer[i])
                /\ Last(Answer(j)) = answer[m]
                /\ lost' => /\ lines' = <<>> /\ Len(wire') > 0
                            /\ \E i \in m + 1 .. Len(answer) : wire'[1] = answer[i]
<1>1. pc \in Waits
  BY DEF Before, Waits
<1>2. PICK answer \in Replies, p \in Nat : \E m \in 1 .. Len(answer) :
        /\ Proper(answer) /\ Got(j, answer, p, m) /\ Last(Answer(j)) = answer[m]
        /\ Plain(answer) /\ p = 0 /\ Len(Come) = Len(answer)
        /\ \A i \in 1 .. Len(answer) : Come[i] = answer[i]
  BY <1>1, EndOfReply
<1>3. PICK m \in 1 .. Len(answer) :
        /\ Proper(answer) /\ Got(j, answer, p, m) /\ Last(Answer(j)) = answer[m]
        /\ Plain(answer) /\ p = 0 /\ Len(Come) = Len(answer)
        /\ \A i \in 1 .. Len(answer) : Come[i] = answer[i]
  BY <1>2
<1>4. /\ Len(lines) \in Nat /\ Len(wire) \in Nat /\ Len(Come) = Len(lines) + Len(wire)
      /\ \A i \in 1 .. Len(wire) : Come[Len(lines) + i] = wire[i]
      /\ Answer(j) \in Seq(Lines) /\ Len(Answer(j)) = Len(lines) + j
      /\ j \in 1 .. Len(wire)
  BY ComeFacts, AnswerLines DEF IInv
<1>5. /\ answer \in Seq(Lines) /\ Len(answer) \in Nat /\ Len(Answer(j)) = m
      /\ HasStatus(answer[m]) /\ \A i \in 1 .. m - 1 : ~HasStatus(answer[i])
      /\ \A i \in 1 .. m : Answer(j)[i] = answer[i]
  <2>1. \A i \in 1 .. m : 0 + i = i /\ Answer(j)[0 + i] = answer[i]
    BY <1>3 DEF Got, Proper
  <2> QED
    BY <1>3, <2>1 DEF Got, Proper
<1>6. ASSUME NEW i \in 1 .. Len(wire) PROVE wire[i].kind \notin {"header", "exists"}
  <2>1. Len(lines) + i \in 1 .. Len(answer)
    BY <1>3, <1>4
  <2> QED
    BY <1>3, <1>4, <2>1 DEF Plain
<1>7. ASSUME lost'
      PROVE  /\ lines' = <<>> /\ Len(wire') > 0
             /\ \E i \in m + 1 .. Len(answer) : wire'[1] = answer[i]
  <2>1. /\ \/ \E i \in j + 1 .. k : wire[i].kind \in {"header", "exists"}
           \/ \E i \in k + 1 .. Len(wire) : wire[i].kind # "exists"
        /\ lines' = <<>>
    BY <1>7 DEF Ended
  <2>2. \A i \in j + 1 .. k : i \in 1 .. Len(wire)
    BY <1>4
  <2>3. k < Len(wire)
    BY <1>4, <1>6, <2>1, <2>2
  <2>4. Len(wire') = Len(wire) - k /\ \A i \in 1 .. Len(wire') : wire'[i] = wire[k + i]
    BY EndLeaves
  <2>5. Len(wire') > 0 /\ wire'[1] = wire[k + 1] /\ k + 1 \in 1 .. Len(wire)
    BY <1>4, <2>3, <2>4
  <2>6. Len(lines) + (k + 1) \in m + 1 .. Len(answer) /\ m + 1 > 0
        /\ Len(lines) + (k + 1) \in 1 .. Len(answer)
    BY <1>3, <1>4, <1>5, <2>5
  <2>7. wire'[1] = answer[Len(lines) + (k + 1)]
    BY <1>3, <1>4, <2>5, <2>6
  <2> QED
    BY <2>1, <2>5, <2>6, <2>7
<1> QED
  BY <1>3, <1>4, <1>5, <1>7

LEMMA BeforeKeeps ==
    ASSUME IInv, NEW k \in 1 .. Len(wire), NEW j \in 1 .. k, Ended(j, k),
           UNCHANGED serverVars,
           Greeted(Answer(j)) \/ LoggedIn(Answer(j)) \/ Listed(Answer(j))
    PROVE  IInv'
<1>1. /\ pc \in Before /\ pc \in Waits
      /\ lines' \in Seq(Lines) /\ wire' \in Seq(Lines) /\ lost' \in BOOLEAN
      /\ reading' = reading /\ held' = held /\ examined' = examined /\ LinesInv'
      /\ \A i \in 1 .. Len(Come') : Come'[i].kind # "exists"
      /\ storage = <<>> /\ current = 0 /\ mails = <<>> /\ examined = NoBox
      /\ \A i \in 1 .. Len(requests) : requests[i].verb \in Before
      /\ lost => pc = "LIST" /\ reading[NoBox] = "ok" /\ lines = <<>>
                 /\ Len(wire) > 0 /\ wire[1] = Reply("ok")
      /\ reading \in [Boxes \cup {NoBox} -> Readings]
      /\ ~lost' => ~lost
  <2>1. pc \in Before /\ pc \in Waits
    BY DEF Greeted, LoggedIn, Listed, Before, Waits
  <2> QED
    BY <2>1, EndLeaves DEF IInv, LoopInv, TypeOK
<1>2. ASSUME UNCHANGED <<storage, current, exists, mails>>, pc' = "error",
             requests' = requests
      PROVE  IInv'
  BY <1>2, OverKeeps
<1>3. ASSUME UNCHANGED <<storage, current, exists, mails>>,
             NEW verb \in {"LOGIN", "LIST"}, Write(verb, NoBox, 0),
             lost' => /\ verb = "LIST" /\ reading[NoBox] = "ok"
                      /\ lines' = <<>> /\ Len(wire') > 0 /\ wire'[1] = Reply("ok")
      PROVE  IInv'
  <2>1. /\ pc' = verb /\ requests' \in Seq(Commands) /\ RequestsInv'
        /\ requests = <<>> => requests' = <<Request(verb, NoBox, 0)>>
        /\ \A i \in 1 .. Len(requests') : requests'[i].verb \in Before
    <3>1. /\ verb \in Waits /\ verb # "EXAMINE" /\ verb \in Before
          /\ NoBox \in Boxes \cup {NoBox} /\ 0 \in 0 .. MaxMails
      BY HeldAssumption DEF Waits, Before
    <3> QED
      BY <1>1, <1>3, <3>1, CommandWritten DEF IInv
  <2>2. Request(verb, NoBox, 0) = Asked'
    BY <2>1 DEF Asked
  <2>3. TypeOK'
    BY <1>1, <1>3, <2>1 DEF IInv, TypeOK, Waits, Commands
  <2>5. LoopInv'
    BY <1>1, <1>3, <2>1 DEF LoopInv, Before, InLoop
  <2>6. StepInv'
    <3> SUFFICES ASSUME ~lost' PROVE StepInv'
      BY DEF StepInv
    <3>1. Pending'
      <4> DEFINE r == Request(verb, NoBox, 0)
      <4>1. (requests = <<>> => requests' = <<r>>) /\ r = Asked'
        BY <2>1, <2>2
      <4> HIDE DEF r
      <4> QED
        BY <1>1, <4>1, WaitsAgain
    <3> QED
      BY <2>1, <3>1 DEF StepInv
  <2>7. Shown'
    BY <1>1, <1>3, Nothing DEF Shown
  <2> QED
    BY <1>1, <2>1, <2>3, <2>5, <2>6, <2>7 DEF IInv
<1>4. CASE Greeted(Answer(j))
  <2>1. CASE ~IsOk(Last(Answer(j)))
    BY <1>2, <1>4, <2>1 DEF Greeted, GoTo
  <2>2. CASE IsOk(Last(Answer(j)))
    <3>1. /\ pc = "greeting" /\ Write("LOGIN", NoBox, 0) /\ ~lost
          /\ UNCHANGED <<storage, current, exists, mails>>
      BY <1>1, <1>4, <2>2 DEF Greeted
    <3>2. PICK answer \in Replies : \E m \in 1 .. Len(answer) :
            lost' => \E i \in m + 1 .. Len(answer) : TRUE
      BY <1>1, <3>1, ReadBefore
    <3>3. \E reads \in {"ok", "no"} : answer = <<Reply(reads)>>
      <4>1. Replies = Answers(Asked) /\ Asked.verb = "greeting"
        BY <3>1 DEF Replies, Asked, Request
      <4> QED
        BY <3>2, <4>1, AnswersAre
    <3>4. Len(answer) = 1
      BY <3>3, ProperAnswers
    <3>5. ~lost'
      BY <3>2, <3>4
    <3> QED
      BY <1>3, <3>1, <3>5
  <2> QED
    BY <2>1, <2>2
<1>5. CASE LoggedIn(Answer(j))
  <2>1. CASE ~IsOk(Last(Answer(j)))
    BY <1>2, <1>5, <2>1 DEF LoggedIn, GoTo
  <2>2. CASE IsOk(Last(Answer(j)))
    <3>1. /\ pc = "LOGIN" /\ Write("LIST", NoBox, 0) /\ ~lost
          /\ UNCHANGED <<storage, current, exists, mails>>
      BY <1>1, <1>5, <2>2 DEF LoggedIn
    <3>2. PICK answer \in Replies : \E m \in 1 .. Len(answer) :
            /\ Last(Answer(j)) = answer[m]
            /\ lost' => /\ lines' = <<>> /\ Len(wire') > 0
                        /\ \E i \in m + 1 .. Len(answer) : wire'[1] = answer[i]
      BY <1>1, <3>1, ReadBefore
    <3>3. ASSUME lost'
          PROVE  /\ reading[NoBox] = "ok"
                 /\ lines' = <<>> /\ Len(wire') > 0 /\ wire'[1] = Reply("ok")
      <4> DEFINE text == TextLine(NoBox)
      <4> DEFINE ok == Reply("ok")
      <4>1. answer \in {<<text, ok>>, <<Reply("no")>>}
        <5>1. Replies = Answers(Asked) /\ Asked.verb = "LOGIN"
          BY <3>1 DEF Replies, Asked, Request
        <5> QED
          BY <3>2, <5>1, AnswersAre
      <4>2. PICK m \in 1 .. Len(answer) :
              /\ Last(Answer(j)) = answer[m] /\ lines' = <<>> /\ Len(wire') > 0
              /\ \E i \in m + 1 .. Len(answer) : wire'[1] = answer[i]
        BY <3>2, <3>3
      <4>3. /\ text \in Lines /\ (IsOk(text) <=> reading[NoBox] = "ok") /\ ok \in Lines
            /\ Len(<<Reply("no")>>) = 1
        BY <1>1, TextFacts, ReplyFacts, ProperAnswers
      <4> HIDE DEF text, ok
      <4>4. Len(answer) # 1
        BY <4>2
      <4>5. Len(answer) = 2 /\ answer[1] = text /\ answer[2] = ok
        BY <4>1, <4>3, <4>4, Short
      <4>6. m = 1 /\ wire'[1] = answer[2]
        BY <4>2, <4>5
      <4> QED
        BY <2>2, <4>2, <4>3, <4>5, <4>6 DEF ok
    <3> QED
      BY <1>3, <3>1, <3>3
  <2> QED
    BY <2>1, <2>2
<1>6. CASE Listed(Answer(j))
  <2>1. CASE ~IsOk(Last(Answer(j)))
    BY <1>2, <1>6, <2>1 DEF Listed, GoTo
  <2>2. CASE IsOk(Last(Answer(j)))
    <3>1. /\ pc = "LIST" /\ storage' = StoreMailboxNames(Answer(j))
          /\ NextBox(storage', 0)
      BY <1>6, <2>2 DEF Listed
    <3>2. CASE ~lost
      <4>1. PICK answer \in Replies : \E m \in 1 .. Len(answer) :
                /\ answer \in Seq(Lines) /\ Answer(j) \in Seq(Lines)
                /\ Len(Answer(j)) = m /\ \A i \in 1 .. m : Answer(j)[i] = answer[i]
                /\ HasStatus(answer[m]) /\ \A i \in 1 .. m - 1 : ~HasStatus(answer[i])
                /\ Last(Answer(j)) = answer[m]
        BY <1>1, <3>2, ReadBefore
      <4>2. answer = Named
        <5> DEFINE no == Reply("no")
        <5>1. answer \in {Named, <<no>>}
          <6>1. Replies = Answers(Asked) /\ Asked.verb = "LIST"
            BY <3>1 DEF Replies, Asked, Request
          <6> QED
            BY <4>1, <6>1, AnswersAre
        <5>2. no \in Lines /\ ~IsOk(no)
          BY ReplyFacts
        <5> HIDE DEF no
        <5>3. answer = <<no>> => Len(answer) = 1 /\ answer[1] = no
          BY <5>2, Short
        <5> QED
          BY <2>2, <4>1, <5>1, <5>2, <5>3
      <4> DEFINE s == Answer(j)
      <4> DEFINE stored == StoreMailboxNames(s)
      <4>3. PICK m \in 1 .. Len(Named) :
                /\ s \in Seq(Lines) /\ Len(s) = m /\ \A i \in 1 .. m : s[i] = Named[i]
                /\ HasStatus(Named[m]) /\ \A i \in 1 .. m - 1 : ~HasStatus(Named[i])
                /\ IsOk(Named[m])
        BY <2>2, <4>1, <4>2
      <4>4. storage' = stored
        BY <3>1
      <4> HIDE DEF s
      <4>5. /\ stored \in Seq([name : Boxes, mails : Seq(Mail)])
            /\ [i \in DOMAIN stored |-> stored[i].name] = Selected(Heard, Quoted)
            /\ stored # <<>> => reading[Last(Heard)] # "no"
            /\ \A i \in DOMAIN stored : stored[i].mails = <<>>
        BY <1>1, <4>3, NamesStored
      <4> HIDE DEF stored
      <4>6. NamesKept'
        BY <1>1, <4>4, <4>5, HeardStays DEF NamesKept
      <4>7. /\ storage' \in Seq([name : Boxes, mails : Seq(Mail)])
            /\ 0 \in 0 .. Len(storage') /\ \A i \in DOMAIN storage' : ~(i <= 0)
            /\ \A i \in DOMAIN storage' : storage'[i].mails = <<>>
        BY <4>4, <4>5, LenProperties
      <4> QED
        BY <1>1, <3>1, <4>6, <4>7, NextBoxKeeps
    <3>3. CASE lost
      <4> DEFINE s == Answer(j)
      <4> DEFINE E == {line \in Lines : line.kind = "entry"}
      <4>1. reading[NoBox] = "ok" /\ lines = <<>> /\ wire[1] = Reply("ok")
        BY <1>1, <3>3
      <4>2. j = 1
        <5>1. \A i \in 1 .. j - 1 : ~HasStatus(wire[i])
          BY DEF Ended
        <5>2. ~(1 \in 1 .. j - 1)
          BY <4>1, <5>1, ReplyFacts
        <5> QED
          BY <5>2
      <4>3. /\ s \in Seq(Lines) /\ Len(s) = 1 /\ s[1] = Reply("ok")
        <5>1. /\ Len(lines) = 0 /\ j \in 1 .. Len(wire)
              /\ \A i \in 1 .. Len(wire) : Come[Len(lines) + i] = wire[i]
          BY <4>1, ComeFacts, EndLeaves, Nothing DEF IInv
        <5>2. /\ s \in Seq(Lines) /\ Len(s) = Len(lines) + j
              /\ \A i \in 1 .. Len(lines) + j : s[i] = Come[i]
          BY <5>1, AnswerLines DEF IInv
        <5>3. Come[0 + 1] = wire[1]
          BY <4>2, <5>1
        <5> QED
          BY <4>1, <4>2, <5>1, <5>2, <5>3
      <4> HIDE DEF s
      <4>4. \A i \in 1 .. Len(s) : s[i] \notin E
        BY <4>3, ReplyFacts
      <4>5. Selected(s, E) = <<>>
        <5> HIDE DEF E
        <5> QED
          BY <4>3, <4>4, SelectedAll
      <4>6. storage' = <<>>
        BY <3>1, <4>5, Nothing DEF StoreMailboxNames, s
      <4>7. NamesKept'
        BY <1>1, <4>1, <4>6 DEF NamesKept
      <4>8. /\ storage' \in Seq([name : Boxes, mails : Seq(Mail)])
            /\ Len(storage') = 0 /\ DOMAIN storage' = {}
        BY <4>6, Nothing
      <4> QED
        BY <1>1, <3>1, <4>7, <4>8, NextBoxKeeps
    <3> QED
      BY <3>2, <3>3
  <2> QED
    BY <2>1, <2>2
<1> QED
  BY <1>4, <1>5, <1>6

\* In step, the amount read after EXAMINE is that of the mailbox at some time
\* since the command was sent.
LEMMA AmountRead ==
    ASSUME IInv, NEW k \in 1 .. Len(wire), NEW j \in 1 .. k, Ended(j, k),
           UNCHANGED serverVars, pc = "EXAMINE", ~lost', Box \notin Refused, Box \in Boxes
    PROVE  ExistsAmount(Answer(j)) \in Held[Box] .. held[Box]
<1>1. ~lost /\ pc \in Waits /\ j \in 1 .. Len(wire)
  BY EndLeaves DEF Waits
<1>2. PICK answer \in Replies, p \in Nat : \E m \in 1 .. Len(answer) :
        /\ Proper(answer) /\ Got(j, answer, p, m)
        /\ \A i \in m + 1 .. Len(answer) : answer[i].kind \notin {"header", "exists"}
  BY <1>1, EndOfReply
<1>3. PICK m \in 1 .. Len(answer) :
        /\ Proper(answer) /\ Got(j, answer, p, m)
        /\ \A i \in m + 1 .. Len(answer) : answer[i].kind \notin {"header", "exists"}
  BY <1>2
<1>4. PICK n \in Held[Box] .. held[Box] :
        \/ answer = <<Line("exists", Box, n), Reply("ok"), Reply("ok")>>
        \/ answer = <<Reply("ok"), Line("exists", Box, n), Reply("ok")>>
  BY DEF Replies
<1> DEFINE e == Line("exists", Box, n)
<1>5. e \in Counts /\ e.n = n
  <2>1. Held[Box] \in 0 .. MaxMails /\ held[Box] \in 0 .. MaxMails
    BY HeldAssumption DEF IInv, TypeOK
  <2>2. n \in 0 .. MaxMails
    BY <2>1, HeldAssumption
  <2> QED
    BY <2>2, CountFacts DEF Line
<1>6. /\ answer = <<e, Reply("ok"), Reply("ok")>> \/ answer = <<Reply("ok"), e, Reply("ok")>>
      /\ e \in Lines /\ e.kind = "exists" /\ ~HasStatus(e)
  BY <1>4, <1>5, CountFacts
<1> HIDE DEF e
<1>7. CASE answer = <<e, Reply("ok"), Reply("ok")>>
  <2>1. Len(answer) = 3 /\ answer[1] = e /\ answer[2] = Reply("ok")
    BY <1>6, <1>7, ReplyFacts, Short
  <2>2. m = 2
    <3>1. HasStatus(answer[m]) /\ \A i \in 1 .. m - 1 : ~HasStatus(answer[i])
      BY <1>3 DEF Got
    <3>2. m # 1
      BY <1>6, <2>1, <3>1
    <3>3. ~(2 \in 1 .. m - 1)
      BY <2>1, <3>1, ReplyFacts
    <3> QED
      BY <2>1, <3>2, <3>3
  <2>3. /\ Answer(j) \in Seq(Lines) /\ Len(Answer(j)) = p + 2
        /\ Answer(j)[p + 1] = e /\ Answer(j)[p + 2] = Reply("ok")
    BY <1>1, <1>3, <2>1, <2>2, AnswerLines DEF Got, IInv
  <2>4. /\ p + 1 \in 1 .. Len(Answer(j)) /\ Answer(j)[p + 1].kind = "exists"
        /\ \A l \in p + 1 + 1 .. Len(Answer(j)) : Answer(j)[l].kind # "exists"
    BY <1>6, <2>3, ReplyFacts
  <2>5. ExistsAmount(Answer(j)) = Answer(j)[p + 1].n
    BY <2>3, <2>4, AmountFacts
  <2> QED
    BY <1>5, <2>3, <2>5
<1>8. CASE answer = <<Reply("ok"), e, Reply("ok")>>
  <2>1. Len(answer) = 3 /\ answer[1] = Reply("ok") /\ answer[2] = e
    BY <1>6, <1>8, ReplyFacts, Short
  <2>2. m = 1
    <3>1. \A i \in 1 .. m - 1 : ~HasStatus(answer[i])
      BY <1>3 DEF Got
    <3>2. ~(1 \in 1 .. m - 1)
      BY <2>1, <3>1, ReplyFacts
    <3> QED
      BY <2>1, <3>2
  <2>3. 2 \in m + 1 .. Len(answer)
    BY <2>1, <2>2
  <2> QED
    BY <1>3, <1>6, <2>1, <2>3
<1> QED
  BY <1>6, <1>7, <1>8

\* In the loop over the mailboxes.
LEMMA LoopFacts ==
    ASSUME IInv, NEW k \in 1 .. Len(wire), NEW j \in 1 .. k, Ended(j, k),
           UNCHANGED serverVars, pc \in InLoop
    PROVE  /\ pc \in Waits /\ current \in 1 .. Len(storage) /\ Len(storage) \in Nat
           /\ DOMAIN storage = 1 .. Len(storage) /\ Box \in Boxes
           /\ storage \in Seq([name : Boxes, mails : Seq(Mail)])
           /\ NamesKept /\ reading' = reading
           /\ held' = held /\ Answer(j) \in Seq(Lines)
           /\ ~lost' =>
                /\ ~lost /\ requests = <<>> /\ examined = Selection
                /\ \A i \in DOMAIN storage : i < current => ShownWell(i)
                /\ \A i \in DOMAIN storage : ~(i < current) => storage[i].mails = <<>>
<1>1. /\ pc \in Waits /\ current \in 1 .. Len(storage)
      /\ storage \in Seq([name : Boxes, mails : Seq(Mail)])
      /\ NamesKept
  BY DEF IInv, TypeOK, LoopInv, InLoop, Waits
<1>2. Len(storage) \in Nat /\ DOMAIN storage = 1 .. Len(storage)
  BY <1>1, LenProperties
<1>3. Box \in Boxes
  BY <1>1, <1>2, Stored DEF IInv, Box
<1>4. /\ reading' = reading /\ held' = held /\ Answer(j) \in Seq(Lines)
      /\ ~lost' => ~lost
  <2>1. /\ j \in 1 .. Len(wire) /\ reading' = reading /\ held' = held
        /\ ~lost' => ~lost
    BY EndLeaves
  <2> QED
    BY <2>1, AnswerLines DEF IInv
<1>5. ASSUME ~lost' PROVE requests = <<>> /\ examined = Selection
  <2>1. requests = <<>>
    BY <1>1, <1>4, <1>5, EndOfReply
  <2> QED
    BY <1>4, <1>5, <2>1 DEF IInv, StepInv, InLoop
<1>6. ASSUME ~lost'
      PROVE  /\ \A i \in DOMAIN storage : i < current => ShownWell(i)
             /\ \A i \in DOMAIN storage : ~(i < current) => storage[i].mails = <<>>
  BY <1>4, <1>6 DEF IInv, Shown
<1> QED
  BY <1>1, <1>2, <1>3, <1>4, <1>5, <1>6

LEMMA ExaminedKeeps ==
    ASSUME IInv, NEW k \in 1 .. Len(wire), NEW j \in 1 .. k, Ended(j, k),
           UNCHANGED serverVars, Examined(Answer(j))
    PROVE  IInv'
<1> DEFINE n == ExistsAmount(Answer(j))
<1>1. /\ pc = "EXAMINE" /\ pc \in InLoop /\ storage' = storage /\ mails = <<>>
      /\ IF n = 0 THEN NextBox(storage, current)
         ELSE /\ exists' = n /\ Write("FETCH", NoBox, 1)
              /\ current' = current /\ mails' = mails
  BY DEF Examined, InLoop, IInv, LoopInv
<1>2. /\ current \in 1 .. Len(storage) /\ Len(storage) \in Nat
      /\ DOMAIN storage = 1 .. Len(storage) /\ Box \in Boxes
      /\ storage \in Seq([name : Boxes, mails : Seq(Mail)])
      /\ NamesKept /\ reading' = reading
      /\ held' = held /\ Answer(j) \in Seq(Lines)
      /\ ~lost' =>
            /\ ~lost /\ requests = <<>> /\ examined = Selection
            /\ \A i \in DOMAIN storage : i < current => ShownWell(i)
            /\ \A i \in DOMAIN storage : ~(i < current) => storage[i].mails = <<>>
  BY <1>1, LoopFacts
<1>3. n \in 0 .. MaxMails
  BY <1>2, AmountFacts
<1>4. ~lost' /\ Box \notin Refused => n \in Held[Box] .. held[Box]
  BY <1>1, <1>2, AmountRead
<1> HIDE DEF n
<1>5. CASE n = 0
  <2>1. ASSUME ~lost', NEW i \in DOMAIN storage
        PROVE  IF i <= current THEN ShownWell(i)' ELSE storage'[i].mails = <<>>
    <3>1. CASE i < current
      <4>1. ShownWell(i) /\ i <= current
        BY <1>2, <2>1, <3>1
      <4> QED
        BY <1>1, <1>2, <4>1 DEF ShownWell
    <3>2. CASE i = current
      <4>1. storage[i].mails = <<>> /\ storage[i].name = Box
        BY <1>2, <2>1, <3>2 DEF Box
      <4>2. Box \notin Refused => 0 \in Held[Box] .. held[Box]
        BY <1>4, <1>5, <2>1
      <4>3. <<>> = [l \in 1 .. 0 |-> Whole(Box, l)] /\ Len(<<>>) = 0 /\ DOMAIN <<>> = {}
        OBVIOUS
      <4>4. ShownWell(i)'
        BY <1>1, <1>2, <4>1, <4>2, <4>3 DEF ShownWell
      <4> QED
        BY <1>2, <3>2, <4>4
    <3>3. CASE i > current
      <4>1. storage[i].mails = <<>> /\ ~(i <= current)
        BY <1>2, <2>1, <3>3
      <4> QED
        BY <1>1, <4>1
    <3> QED
      BY <1>2, <3>1, <3>2, <3>3
  <2>4. NamesKept'
    BY <1>1, <1>2, HeardStays DEF NamesKept
  <2>2. /\ storage' \in Seq([name : Boxes, mails : Seq(Mail)]) /\ NamesKept'
        /\ current \in 0 .. Len(storage') /\ NextBox(storage', current)
        /\ ~lost' => \A i \in DOMAIN storage' :
                IF i <= current THEN ShownWell(i)' ELSE storage'[i].mails = <<>>
    BY <1>1, <1>2, <1>5, <2>1, <2>4
  <2>3. pc \in Waits
    BY <1>1 DEF Waits
  <2> QED
    BY <2>2, <2>3, NextBoxKeeps
<1>6. CASE n # 0
  <2>1. /\ exists' = n /\ Write("FETCH", NoBox, 1) /\ current' = current
        /\ mails' = <<>> /\ Len(mails') = 0
    BY <1>1, <1>6, Nothing
  <2>2. /\ Len(mails') < exists' /\ exists' \in 0 .. MaxMails /\ mails' \in Seq(Mail)
        /\ Write("FETCH", NoBox, Len(mails') + 1)
    <3>1. 0 + 1 = 1 /\ 0 < n
      BY <1>3, <1>6
    <3> QED
      BY <1>3, <2>1, <3>1, Nothing
  <2>3. /\ mails' = [i \in 1 .. Len(mails') |-> Whole(Box, i)]
        /\ \A i \in DOMAIN mails' : mails'[i] = Blank
    BY <2>1
  <2>4. ~lost' =>
            /\ examined = Selection
            /\ IF Box \in Refused
               THEN \A i \in DOMAIN mails' : mails'[i] = Blank
               ELSE /\ mails' = [i \in 1 .. Len(mails') |-> Whole(Box, i)]
                    /\ exists' \in Held[Box] .. held[Box]
    BY <1>2, <1>4, <2>1, <2>3
  <2> QED
    BY <1>1, <2>1, <2>2, <2>4, NextMailKeeps
<1> QED
  BY <1>5, <1>6

\* In step, a header that is read is that of the mail that was asked for.
LEMMA HeaderRead ==
    ASSUME IInv, NEW k \in 1 .. Len(wire), NEW j \in 1 .. k, Ended(j, k),
           UNCHANGED serverVars, pc = "FETCH", ~lost', Box \in Boxes
    PROVE  Summary(Answer(j)) = IF Box \in Refused THEN Blank
                                ELSE Whole(Box, Len(mails) + 1)
<1> DEFINE s == Answer(j)
<1>1. ~lost /\ pc \in Waits /\ j \in 1 .. Len(wire)
  BY EndLeaves DEF Waits
<1>2. PICK answer \in Replies, p \in Nat : \E m \in 1 .. Len(answer) :
        /\ Proper(answer) /\ Got(j, answer, p, m)
        /\ \A i \in m + 1 .. Len(answer) : answer[i].kind \notin {"header", "exists"}
  BY <1>1, EndOfReply
<1>3. PICK m \in 1 .. Len(answer) :
        /\ Proper(answer) /\ Got(j, answer, p, m)
        /\ \A i \in m + 1 .. Len(answer) : answer[i].kind \notin {"header", "exists"}
  BY <1>2
<1>4. /\ s \in Seq(Lines) /\ Len(s) = p + m
      /\ \A i \in 1 .. m : s[p + i] = answer[i]
      /\ \A i \in 1 .. p : s[i].fields = {}
  <2>1. \A i \in 1 .. p : s[i].fields = {}
    BY <1>3, CountFacts DEF Got
  <2> QED
    BY <1>1, <1>3, <2>1, AnswerLines DEF Got, IInv
<1> HIDE DEF s
<1>5. ASSUME NEW i \in 1 .. Len(s), i \notin 1 .. p
      PROVE  i - p \in 1 .. m /\ s[i] = answer[i - p]
  <2>1. i - p \in 1 .. m /\ p + (i - p) = i
    BY <1>4, <1>5
  <2> QED
    BY <1>4, <2>1
<1>6. CASE Box \in Refused
  <2> DEFINE no == Reply("no")
  <2>1. answer = <<no>> /\ no \in Lines /\ no.fields = {}
    BY <1>6, ReplyFacts DEF Replies
  <2> HIDE DEF no
  <2>2. Len(answer) = 1 /\ answer[1] = no
    BY <2>1, Short
  <2>3. ASSUME NEW i \in 1 .. Len(s) PROVE s[i].fields = {}
    <3>1. CASE i \in 1 .. p
      BY <1>4, <3>1
    <3>2. CASE i \notin 1 .. p
      <4>1. i - p = 1 /\ s[i] = answer[i - p]
        BY <1>5, <2>2, <3>2
      <4> QED
        BY <2>1, <2>2, <4>1
    <3> QED
      BY <3>1, <3>2
  <2> QED
    BY <1>4, <1>6, <2>3, SummaryFacts DEF s
<1>7. CASE Box \notin Refused
  <2>1. Len(mails) + 1 \in 0 .. MaxMails
    <3>1. Len(mails) < exists /\ exists \in 0 .. MaxMails /\ mails \in Seq(Mail)
      BY DEF IInv, LoopInv, TypeOK
    <3>2. Len(mails) \in Nat
      BY <3>1, LenProperties
    <3> QED
      BY <3>1, <3>2, HeldAssumption
  <2>2. PICK shapes \in Headers : answer = Full(Box, Len(mails) + 1, shapes)
    BY <1>7 DEF Replies
  <2> DEFINE l == Len(shapes)
  <2>3. /\ l \in Nat /\ Len(answer) = l + 1 /\ answer[l + 1] = Reply("ok")
        /\ \A i \in 1 .. l :
                /\ answer[i].kind = "header" /\ answer[i].box = Box
                /\ answer[i].n = Len(mails) + 1 /\ answer[i].fields = shapes[i].fields
        /\ DOMAIN shapes = 1 .. l
        /\ \A f \in Fields : \E i \in DOMAIN shapes : f \in shapes[i].fields
    <3>1. shapes \in Seq([reads : Readings, fields : SUBSET Fields])
      BY HeadersAssumption
    <3>2. DOMAIN shapes = 1 .. l
      BY <3>1, LenProperties
    <3>3. \A f \in Fields : \E i \in DOMAIN shapes : f \in shapes[i].fields
      BY HeadersAssumption
    <3>4. \A n \in 0 .. MaxMails :
            /\ Len(shapes) \in Nat /\ Len(Full(Box, n, shapes)) = Len(shapes) + 1
            /\ Full(Box, n, shapes)[Len(shapes) + 1] = Reply("ok")
            /\ \A i \in 1 .. Len(shapes) :
                /\ Full(Box, n, shapes)[i].kind = "header"
                /\ Full(Box, n, shapes)[i].box = Box
                /\ Full(Box, n, shapes)[i].n = n
                /\ Full(Box, n, shapes)[i].fields = shapes[i].fields
      BY HeaderFacts
    <3> QED
      BY <2>1, <2>2, <3>2, <3>3, <3>4
  <2> HIDE DEF l
  <2>4. m = l \/ m = l + 1
    <3>1. l \in m + 1 .. l + 1 => answer[l].kind # "header"
      BY <1>3, <2>3
    <3>2. l > 0 => answer[l].kind = "header"
      BY <2>3
    <3> QED
      BY <2>3, <3>1, <3>2
  <2>5. ASSUME NEW f \in Fields PROVE \E i \in 1 .. Len(s) : f \in s[i].fields
    <3>1. PICK i \in 1 .. l : f \in shapes[i].fields
      BY <2>3
    <3>2. i \in 1 .. m /\ p + i \in 1 .. Len(s)
      BY <1>4, <2>3, <2>4
    <3>3. s[p + i] = answer[i] /\ f \in answer[i].fields
      BY <1>4, <2>3, <3>1, <3>2
    <3> QED
      BY <3>2, <3>3
  <2>6. ASSUME NEW i \in 1 .. Len(s), s[i].fields # {}
        PROVE  s[i].box = Box /\ s[i].n = Len(mails) + 1
    <3>1. i \notin 1 .. p
      BY <1>4, <2>6
    <3>2. i - p \in 1 .. m /\ s[i] = answer[i - p]
      BY <1>5, <3>1
    <3>3. i - p # l + 1
      BY <2>3, <2>6, <3>2, ReplyFacts
    <3>4. i - p \in 1 .. l
      BY <2>3, <2>4, <3>2, <3>3
    <3> QED
      BY <2>3, <3>2, <3>4
  <2>7. Summary(s) = Whole(Box, Len(mails) + 1)
    BY <1>4, <2>1, <2>5, <2>6, SummaryFacts
  <2> QED
    BY <1>7, <2>7 DEF s
<1> QED
  BY <1>6, <1>7

LEMMA FetchedKeeps ==
    ASSUME IInv, NEW k \in 1 .. Len(wire), NEW j \in 1 .. k, Ended(j, k),
           UNCHANGED serverVars, Fetched(Answer(j))
    PROVE  IInv'
<1> DEFINE summary == Summary(Answer(j))
<1> DEFINE all == Append(mails, summary)
<1>1. /\ pc = "FETCH" /\ pc \in InLoop
      /\ IF Len(all) < exists
         THEN /\ mails' = all /\ Write("FETCH", NoBox, Len(all) + 1)
              /\ storage' = storage /\ current' = current /\ exists' = exists
         ELSE /\ storage' = [storage EXCEPT ![current].mails = all]
              /\ NextBox(storage, current)
  BY DEF Fetched, InLoop
<1>2. /\ current \in 1 .. Len(storage) /\ Len(storage) \in Nat
      /\ DOMAIN storage = 1 .. Len(storage) /\ Box \in Boxes
      /\ storage \in Seq([name : Boxes, mails : Seq(Mail)])
      /\ NamesKept /\ reading' = reading
      /\ held' = held /\ Answer(j) \in Seq(Lines)
      /\ ~lost' =>
            /\ ~lost /\ requests = <<>> /\ examined = Selection
            /\ \A i \in DOMAIN storage : i < current => ShownWell(i)
            /\ \A i \in DOMAIN storage : ~(i < current) => storage[i].mails = <<>>
  BY <1>1, LoopFacts
<1>3. summary \in Mail
  BY <1>2, SummaryFacts
<1>4. /\ mails \in Seq(Mail) /\ Len(mails) \in Nat /\ Len(mails) < exists
      /\ exists \in 0 .. MaxMails /\ MaxMails \in Nat
  BY <1>1, HeldAssumption, LenProperties DEF IInv, TypeOK, LoopInv
<1>5. ~lost' => summary = IF Box \in Refused THEN Blank ELSE Whole(Box, Len(mails) + 1)
  BY <1>1, <1>2, HeaderRead
<1> HIDE DEF summary
<1>6. /\ all \in Seq(Mail) /\ Len(all) = Len(mails) + 1
      /\ DOMAIN all = 1 .. Len(mails) + 1 /\ DOMAIN mails = 1 .. Len(mails)
      /\ all[Len(mails) + 1] = summary
      /\ \A i \in 1 .. Len(mails) : all[i] = mails[i]
  BY <1>3, <1>4, AppendProperties, LenProperties
<1> HIDE DEF all
<1>7. ASSUME ~lost'
      PROVE  IF Box \in Refused THEN \A i \in DOMAIN all : all[i] = Blank
             ELSE /\ all = [i \in 1 .. Len(all) |-> Whole(Box, i)]
                  /\ exists \in Held[Box] .. held[Box]
  <2>1. IF Box \in Refused
        THEN \A i \in DOMAIN mails : mails[i] = Blank
        ELSE /\ mails = [i \in 1 .. Len(mails) |-> Whole(Box, i)]
             /\ exists \in Held[Box] .. held[Box]
    BY <1>1, <1>2, <1>7 DEF IInv, StepInv
  <2>2. CASE Box \in Refused
    BY <1>4, <1>5, <1>6, <1>7, <2>1, <2>2
  <2>3. CASE Box \notin Refused
    <3>1. ASSUME NEW i \in 1 .. Len(all) PROVE all[i] = Whole(Box, i)
      <4>1. CASE i = Len(mails) + 1
        BY <1>5, <1>6, <1>7, <2>3, <4>1
      <4>2. CASE i # Len(mails) + 1
        <5>1. i \in 1 .. Len(mails)
          BY <1>4, <1>6, <4>2
        <5>2. mails[i] = Whole(Box, i)
          BY <2>1, <2>3, <5>1
        <5> QED
          BY <1>6, <5>1, <5>2
      <4> QED
        BY <4>1, <4>2
    <3>2. all = [i \in 1 .. Len(all) |-> all[i]]
      BY <1>6
    <3> QED
      BY <2>1, <2>3, <3>1, <3>2
  <2> QED
    BY <2>2, <2>3
<1>8. CASE Len(all) < exists
  <2>1. /\ mails' = all /\ Write("FETCH", NoBox, Len(mails') + 1)
        /\ storage' = storage /\ current' = current /\ exists' = exists
    BY <1>1, <1>8
  <2>2. ~lost' =>
            /\ examined = Selection
            /\ IF Box \in Refused
               THEN \A i \in DOMAIN mails' : mails'[i] = Blank
               ELSE /\ mails' = [i \in 1 .. Len(mails') |-> Whole(Box, i)]
                    /\ exists' \in Held[Box] .. held[Box]
    BY <1>2, <1>7, <2>1
  <2>3. mails' \in Seq(Mail) /\ exists' \in 0 .. MaxMails /\ Len(mails') < exists'
    BY <1>4, <1>6, <1>8, <2>1
  <2> QED
    BY <1>1, <2>1, <2>2, <2>3, NextMailKeeps
<1>9. CASE ~(Len(all) < exists)
  <2>1. storage' = [storage EXCEPT ![current].mails = all] /\ NextBox(storage, current)
    BY <1>1, <1>9
  <2>2. ASSUME NEW i \in 1 .. Len(storage)
        PROVE  storage[i] = [name |-> storage[i].name, mails |-> storage[i].mails]
               /\ storage[i].name \in Boxes /\ storage[i].mails \in Seq(Mail)
    BY <1>2, <2>2, Stored DEF IInv
  <2>3. /\ Len(storage') = Len(storage) /\ DOMAIN storage' = DOMAIN storage
        /\ storage' \in Seq([name : Boxes, mails : Seq(Mail)])
        /\ \A i \in 1 .. Len(storage) :
              /\ storage'[i].name = storage[i].name
              /\ storage'[i].mails = IF i = current THEN all ELSE storage[i].mails
              /\ i # current => storage'[i] = storage[i]
    <3> DEFINE R == [name : Boxes, mails : Seq(Mail)]
    <3>1. ASSUME NEW i \in 1 .. Len(storage)
          PROVE  /\ storage'[i] \in R
                 /\ storage'[i].name = storage[i].name
                 /\ storage'[i].mails = IF i = current THEN all ELSE storage[i].mails
                 /\ i # current => storage'[i] = storage[i]
      <4>1. CASE i = current
        <5>1. storage'[i] = [storage[i] EXCEPT !.mails = all]
          BY <1>2, <2>1, <4>1
        <5>2. storage'[i] = [name |-> storage[i].name, mails |-> all]
          BY <2>2, <5>1
        <5>3. storage'[i].name = storage[i].name /\ storage'[i].mails = all
          BY <5>2
        <5>4. storage[i].name \in Boxes /\ all \in Seq(Mail)
          BY <1>6, <2>2
        <5>5. storage'[i] \in R
          BY <5>2, <5>4
        <5> HIDE DEF R
        <5> QED
          BY <4>1, <5>3, <5>5
      <4>2. CASE i # current
        <5>1. storage'[i] = storage[i]
          BY <1>2, <2>1, <4>2
        <5>2. storage[i] \in R
          BY <1>2, ElementOfSeq
        <5> HIDE DEF R
        <5> QED
          BY <4>2, <5>1, <5>2
      <4> QED
        BY <4>1, <4>2
    <3>2. DOMAIN storage' = 1 .. Len(storage) /\ storage' = [i \in 1 .. Len(storage) |-> storage'[i]]
      BY <1>2, <2>1
    <3> HIDE DEF R
    <3>3. storage' \in [1 .. Len(storage) -> R]
      BY <3>1, <3>2
    <3>4. storage' \in Seq(R) /\ Len(storage') = Len(storage)
      <4>1. \A n \in Nat : \A r \in [1 .. n -> R] : r \in Seq(R) /\ Len(r) = n
        OBVIOUS
      <4> QED
        BY <1>2, <3>3, <4>1
    <3> QED
      BY <1>2, <3>1, <3>2, <3>4 DEF R
  <2>4. NamesKept'
    <3>1. [i \in DOMAIN storage' |-> storage'[i].name]
              = [i \in DOMAIN storage |-> storage[i].name]
      BY <1>2, <2>3
    <3>2. storage # <<>>
      BY <1>2, Nothing
    <3> QED
      BY <1>2, <3>1, <3>2, HeardStays DEF NamesKept
  <2>5. NextBox(storage', current) /\ current \in 0 .. Len(storage')
    <3>1. current < Len(storage) => storage'[current + 1].name = storage[current + 1].name
      <4> SUFFICES ASSUME current < Len(storage)
                   PROVE  storage'[current + 1].name = storage[current + 1].name
        OBVIOUS
      <4>1. current + 1 \in 1 .. Len(storage)
        BY <1>2
      <4> QED
        BY <2>3, <4>1
    <3>2. current \in 0 .. Len(storage')
      BY <1>2, <2>3
    <3> QED
      BY <2>1, <2>3, <3>1, <3>2 DEF NextBox
  <2>6. ASSUME ~lost', NEW i \in DOMAIN storage'
        PROVE  IF i <= current THEN ShownWell(i)' ELSE storage'[i].mails = <<>>
    <3>1. i \in 1 .. Len(storage) /\ i \in Int /\ current \in Int
      BY <1>2, <2>3, <2>6
    <3>2. CASE i < current
      <4>1. ShownWell(i) /\ i <= current /\ storage'[i] = storage[i]
        BY <1>2, <2>3, <2>6, <3>1, <3>2
      <4> QED
        BY <1>2, <4>1 DEF ShownWell
    <3>3. CASE i = current
      <4>1. storage'[i].name = Box /\ storage'[i].mails = all
        BY <2>3, <3>1, <3>3 DEF Box
      <4>2. Len(all) = exists
        BY <1>4, <1>6, <1>9
      <4>3. ShownWell(i)'
        BY <1>2, <1>7, <2>6, <4>1, <4>2 DEF ShownWell
      <4> QED
        BY <3>1, <3>3, <4>3
    <3>4. CASE i > current
      <4>1. storage[i].mails = <<>> /\ ~(i <= current) /\ i # current
        BY <1>2, <2>6, <3>1, <3>4
      <4> QED
        BY <2>3, <3>1, <4>1
    <3> QED
      BY <3>1, <3>2, <3>3, <3>4
  <2>7. pc \in Waits
    BY <1>1 DEF Waits
  <2> QED
    BY <2>3, <2>4, <2>5, <2>6, <2>7, NextBoxKeeps
<1> QED
  BY <1>8, <1>9

LEMMA EndKeeps ==
    ASSUME IInv, NEW k \in 1 .. Len(wire), ReadsEnd(k) PROVE IInv'
<1>1. PICK j \in 1 .. k :
        /\ Ended(j, k) /\ UNCHANGED serverVars
        /\ \/ Greeted(Answer(j)) \/ LoggedIn(Answer(j)) \/ Listed(Answer(j))
           \/ Examined(Answer(j)) \/ Fetched(Answer(j)) \/ LoggedOut
  BY DEF ReadsEnd
<1>2. CASE Greeted(Answer(j)) \/ LoggedIn(Answer(j)) \/ Listed(Answer(j))
  BY <1>1, <1>2, BeforeKeeps
<1>3. CASE Examined(Answer(j))
  BY <1>1, <1>3, ExaminedKeeps
<1>4. CASE Fetched(Answer(j))
  BY <1>1, <1>4, FetchedKeeps
<1>5. CASE LoggedOut
  <2>1. /\ pc = "LOGOUT" /\ pc' = "done" /\ requests' = requests
        /\ UNCHANGED <<storage, current, exists, mails>>
    BY <1>5 DEF LoggedOut, GoTo
  <2> QED
    BY <1>1, <2>1, OverKeeps
<1> QED
  BY <1>1, <1>2, <1>3, <1>4, <1>5

-----------------------------------------------------------------------------
(* The theorems.                                                           *)

LEMMA NextKeeps == IInv /\ [Next]_vars => IInv'
<1> SUFFICES ASSUME IInv, [Next]_vars PROVE IInv'
  OBVIOUS
<1>1. CASE Reads
  BY <1>1, MoreKeeps, EndKeeps DEF Reads
<1>2. CASE Throws
  BY <1>2, ThrowsKeeps
<1>3. CASE ServerAnswers
  BY <1>3, ServerKeeps
<1>4. CASE Arrives
  BY <1>4, ArrivesKeeps
<1>5. CASE UNCHANGED vars
  <2>1. /\ UNCHANGED <<pc, lines, storage, current, exists, mails, lost, wire,
                       requests, reading, held, examined>>
    BY <1>5 DEF vars, clientVars, serverVars
  <2>5. NamesKept' = NamesKept
    BY <2>1, HeardStays DEF NamesKept
  <2>2. TypeOK' /\ LinesInv' /\ RequestsInv' /\ LoopInv'
    BY <2>1, <2>5 DEF IInv, TypeOK, LinesInv, RequestsInv, LoopInv, Come
  <2>3. Shown'
    BY <2>1 DEF IInv, Shown, ShownWell
  <2>4. StepInv'
    <3>1. Pending => Pending'
      BY <2>1 DEF Pending, Asked, Box, Come
    <3>2. Answered /\ pc \in Waits => Answered'
      <4> SUFFICES ASSUME Answered, pc \in Waits PROVE Answered'
        OBVIOUS
      <4>1. PICK answer \in Replies, p \in 0 .. Len(Come) : AnswerAt(answer, p)
        BY DEF Answered
      <4>2. \A box \in Boxes : held[box] <= held'[box]
        BY <2>1 DEF IInv, TypeOK
      <4>3. answer \in Replies'
        BY <2>1, <2>2, <4>2, RepliesStay DEF IInv
      <4>4. Come' = Come
        BY <2>1 DEF Come
      <4>5. AnswerAt(answer, p)' /\ p \in 0 .. Len(Come')
        BY <4>1, <4>4 DEF AnswerAt
      <4> QED
        BY <2>1, <4>3, <4>5 DEF Answered
    <3> QED
      BY <2>1, <3>1, <3>2 DEF IInv, StepInv, Selection, Box
  <2> QED
    BY <2>2, <2>3, <2>4 DEF IInv
<1> QED
  BY <1>1, <1>2, <1>3, <1>4, <1>5 DEF Next

\* IInv is an invariant: whatever reads return, whenever mails arrive and
\* whichever lines of a header read like a status.
THEOREM Invariance == Spec => []IInv
<1> QED
  BY Initially, NextKeeps, PTL DEF Spec

\* The client never leaves the bounds of the mailboxes it has stored.
THEOREM TypeCorrectness == Spec => []TypeOK
<1>1. IInv => TypeOK
  BY DEF IInv
<1> QED
  BY <1>1, Invariance, PTL

\* Unless a part of an answer was dropped or left for the next one, the
\* mailboxes the client has gone through are shown with all their mails in
\* their places, also those that arrived meanwhile, however many they are.
THEOREM MailsShown == Spec => []Shown
<1>1. IInv => Shown
  BY DEF IInv
<1> QED
  BY <1>1, Invariance, PTL

\* Mailboxes are stored as the server lists them, those with quoted names up
\* to the line that was taken for the end of the answer and none if that line
\* reads like a failure, also when later answers are out of step; a client that
\* is through has stored them, unless it took a line before the reply to LOGIN
\* for that reply.
THEOREM MailboxesListed == Spec => []AllListed
<1>1. IInv => AllListed
  <2> SUFFICES ASSUME IInv PROVE AllListed
    OBVIOUS
  <2>1. storage # <<>> \/ pc = "done" => NamesKept
    BY DEF IInv, LoopInv
  <2>2. storage = <<>> => [k \in DOMAIN storage |-> storage[k].name] = <<>>
    OBVIOUS
  <2> QED
    BY <2>1, <2>2 DEF AllListed, NamesKept
<1> QED
  BY <1>1, Invariance, PTL
=============================================================================
