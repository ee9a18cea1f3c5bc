--------------------------- MODULE Pop3ClientProofs ---------------------------
(***************************************************************************)
(* IInv is an invariant of the POP3 client and its window, for any mails   *)
(* and any number of them; the safety properties of Pop3Client follow.     *)
(***************************************************************************)
EXTENDS Pop3Client, SelectionProofs

-----------------------------------------------------------------------------
(* parse_message.                                                          *)

\* The answer to RETR for a mail.
AnswerOf(mail) == <<Ok>> \o Sent(mail) \o <<Dot>>

LEMMA SentFacts ==
    ASSUME NEW mail \in Seq(Kinds)
    PROVE  /\ Sent(mail) \in Seq(Lines) /\ Len(Sent(mail)) = Len(mail)
           /\ Len(mail) \in Nat
           /\ \A i \in 1 .. Len(mail) :
                /\ mail[i] \in Kinds /\ Sent(mail)[i] # Dot
                /\ \A kind \in {"header", "blank"} :
                        Sent(mail)[i].kind = kind <=> mail[i] = kind
<1>1. Len(mail) \in Nat /\ \A i \in 1 .. Len(mail) : mail[i] \in Kinds
  BY LenProperties
<1>2. DOMAIN mail = 1 .. Len(mail)
  BY LenProperties
<1>3. ASSUME NEW i \in 1 .. Len(mail)
      PROVE  /\ Sent(mail)[i] \in Lines /\ Sent(mail)[i] # Dot
             /\ \A kind \in {"header", "blank"} :
                    Sent(mail)[i].kind = kind <=> mail[i] = kind
  BY <1>1, <1>2, <1>3, BoundAssumption DEF Sent, Line, Lines, Kinds, Dot
<1>4. Sent(mail) \in Seq(Lines) /\ Len(Sent(mail)) = Len(mail)
  BY <1>1, <1>2, <1>3 DEF Sent
<1> QED
  BY <1>1, <1>3, <1>4

LEMMA OkDotErr == Ok \in Lines /\ Dot \in Lines /\ Err \in Lines /\ Ok # Dot /\ Err # Dot /\ Err # Ok
BY BoundAssumption DEF Ok, Dot, Err, Line, Lines

LEMMA AnswerOfFacts ==
    ASSUME NEW mail \in Seq(Kinds)
    PROVE  /\ AnswerOf(mail) \in Seq(Lines) /\ Len(AnswerOf(mail)) = Len(mail) + 2
           /\ AnswerOf(mail)[1] = Ok /\ AnswerOf(mail)[Len(mail) + 2] = Dot
           /\ \A i \in 1 .. Len(mail) : AnswerOf(mail)[i + 1] = Sent(mail)[i]
<1>1. /\ <<Ok>> \in Seq(Lines) /\ Len(<<Ok>>) = 1 /\ <<Ok>>[1] = Ok
      /\ <<Dot>> \in Seq(Lines) /\ Len(<<Dot>>) = 1 /\ <<Dot>>[1] = Dot
  BY OkDotErr
<1> DEFINE head == <<Ok>> \o Sent(mail)
<1>2. /\ head \in Seq(Lines) /\ Len(head) = Len(mail) + 1
      /\ \A i \in 1 .. Len(mail) + 1 :
            head[i] = IF i = 1 THEN Ok ELSE Sent(mail)[i - 1]
  <2>1. head \in Seq(Lines) /\ Len(head) = 1 + Len(mail)
    BY <1>1, SentFacts, ConcatProperties
  <2>2. ASSUME NEW i \in 1 .. 1 + Len(mail)
        PROVE  head[i] = IF i = 1 THEN Ok ELSE Sent(mail)[i - 1]
    <3>1. head[i] = IF i <= 1 THEN <<Ok>>[i] ELSE Sent(mail)[i - 1]
      BY <1>1, <2>2, SentFacts, ConcatProperties
    <3> QED
      BY <1>1, <3>1, SentFacts
  <2> QED
    BY <2>1, <2>2, SentFacts
<1> HIDE DEF head
<1>3. /\ head \o <<Dot>> \in Seq(Lines) /\ Len(head \o <<Dot>>) = Len(mail) + 2
      /\ \A i \in 1 .. Len(mail) + 2 : (head \o <<Dot>>)[i] =
            IF i <= Len(mail) + 1 THEN head[i] ELSE <<Dot>>[i - (Len(mail) + 1)]
  <2>1. Len(head) + Len(<<Dot>>) = Len(mail) + 2
    BY <1>1, <1>2, SentFacts
  <2> QED
    BY <1>1, <1>2, <2>1, ConcatProperties
<1>4. AnswerOf(mail) = head \o <<Dot>>
  BY DEF AnswerOf, head
<1> HIDE DEF head
<1> QED
  BY <1>1, <1>2, <1>3, <1>4, SentFacts

\* A set of positions that are all moved by one keeps its size.
LEMMA ShiftedCounts ==
    ASSUME NEW X, NEW Y, X \subseteq Int, Y \subseteq Int, IsFiniteSet(X),
           \A y \in Int : y \in Y <=> y - 1 \in X
    PROVE  Cardinality(Y) = Cardinality(X)
<1> DEFINE f == [x \in X |-> x + 1]
<1>1. f \in [X -> Y] /\ \A a, b \in X : f[a] = f[b] => a = b
  OBVIOUS
<1>2. ASSUME NEW y \in Y PROVE \E x \in X : f[x] = y
  <2>1. y - 1 \in X /\ f[y - 1] = y
    OBVIOUS
  <2> QED
    BY <2>1
<1> HIDE DEF f
<1>3. f \in Bijection(X, Y)
  BY <1>1, <1>2 DEF Bijection, Injection, Surjection, IsInjective
<1> QED
  BY <1>3, FS_Bijection DEF ExistsBijection

\* The first blank line.
LEMMA FirstBlank ==
    ASSUME NEW X, X \subseteq Nat, X # {}
    PROVE  Min(X) \in X /\ \A x \in X : Min(X) <= x
BY Least DEF Min

\* Where there is no blank line, the whole answer is the text.
LEMMA ParseWithoutBlank ==
    ASSUME NEW mail \in Seq(Kinds), {k \in DOMAIN mail : mail[k] = "blank"} = {}
    PROVE  ParseMessage(AnswerOf(mail)) = Shown(mail)
<1> DEFINE message == AnswerOf(mail)
<1> DEFINE n == Len(mail)
<1>1. /\ message \in Seq(Lines) /\ Len(message) = n + 2 /\ n \in Nat
      /\ message[1] = Ok /\ message[n + 2] = Dot
      /\ \A i \in 1 .. n : message[i + 1] = Sent(mail)[i]
      /\ DOMAIN message = 1 .. n + 2 /\ DOMAIN mail = 1 .. n
  BY AnswerOfFacts, LenProperties
<1>2. Ok.kind = "ok" /\ Dot.kind = "end"
  BY DEF Ok, Dot, Line
<1>3. ASSUME NEW i \in 1 .. n + 2, NEW kind \in {"header", "blank"}
      PROVE  message[i].kind = kind <=> i - 1 \in 1 .. n /\ mail[i - 1] = kind
  <2> HIDE DEF message, n
  <2>1. CASE i = 1 \/ i = n + 2
    BY <1>1, <1>2, <2>1
  <2>2. CASE i - 1 \in 1 .. n
    <3>1. message[i] = Sent(mail)[i - 1]
      <4>1. (i - 1) + 1 = i
        BY <2>2
      <4> QED
        BY <1>1, <2>2, <4>1
    <3> QED
      BY <2>2, <3>1, SentFacts DEF n
  <2> QED
    BY <1>1, <2>1, <2>2
<1>4. Blanks(message) = {}
  BY <1>1, <1>3 DEF Blanks
<1> DEFINE at == {i \in 1 .. n : mail[i] \in {"header"}}
<1> DEFINE found == {k \in DOMAIN message : /\ message[k].kind = "header"
                                            /\ \A j \in Blanks(message) : k < j}
<1>5. Cardinality(found) = Len(Selected(mail, {"header"}))
  <2>1. IsFiniteSet(at) /\ Cardinality(at) = Len(Selected(mail, {"header"}))
    BY SelectedCounts
  <2>2. \A y \in Int : y \in found <=> y - 1 \in at
    BY <1>1, <1>3, <1>4
  <2>3. at \subseteq Int /\ found \subseteq Int
    BY <1>1
  <2> HIDE DEF at, found
  <2> QED
    BY <2>1, <2>2, <2>3, ShiftedCounts
<1>6. SubSeq(message, 1, Len(message) - 1) = <<Ok>> \o Sent(mail)
  <2>1. /\ <<Ok>> \o Sent(mail) \in Seq(Lines) /\ Len(<<Ok>> \o Sent(mail)) = n + 1
        /\ \A i \in 1 .. n + 1 :
            (<<Ok>> \o Sent(mail))[i] = IF i = 1 THEN Ok ELSE Sent(mail)[i - 1]
    <3>1. <<Ok>> \in Seq(Lines) /\ Len(<<Ok>>) = 1 /\ <<Ok>>[1] = Ok
      BY OkDotErr
    <3>2. Len(<<Ok>>) + Len(Sent(mail)) = n + 1
      BY <3>1, SentFacts
    <3> QED
      BY <1>1, <3>1, <3>2, SentFacts, ConcatProperties
  <2>2. \A i \in 1 .. n + 1 : message[i] \in Lines
    BY <1>1, LenProperties
  <2>3. /\ SubSeq(message, 1, n + 1) \in Seq(Lines)
        /\ Len(SubSeq(message, 1, n + 1)) = n + 1
        /\ \A i \in 1 .. n + 1 : SubSeq(message, 1, n + 1)[i] = message[i]
    <3> HIDE DEF message, n
    <3>1. /\ SubSeq(message, 1, n + 1) \in Seq(Lines)
          /\ Len(SubSeq(message, 1, n + 1)) =
                IF 1 <= n + 1 THEN (n + 1) - 1 + 1 ELSE 0
          /\ \A i \in 1 .. (n + 1) - 1 + 1 :
                SubSeq(message, 1, n + 1)[i] = message[1 + i - 1]
      BY <1>1, <2>2, SubSeqProperties
    <3> QED
      BY <1>1, <3>1
  <2>4. \A i \in 1 .. n + 1 : message[i] = IF i = 1 THEN Ok ELSE Sent(mail)[i - 1]
    <3> HIDE DEF message, n
    <3> SUFFICES ASSUME NEW i \in 1 .. n + 1, i # 1
                 PROVE  message[i] = Sent(mail)[i - 1]
      BY <1>1
    <3>1. i - 1 \in 1 .. n /\ (i - 1) + 1 = i
      BY <1>1
    <3> QED
      BY <1>1, <3>1
  <2>5. Len(message) - 1 = n + 1
    BY <1>1
  <2> DEFINE text == <<Ok>> \o Sent(mail)
  <2> DEFINE part == SubSeq(message, 1, n + 1)
  <2>6. /\ text \in Seq(Lines) /\ part \in Seq(Lines)
        /\ Len(text) = n + 1 /\ Len(part) = n + 1
        /\ \A i \in 1 .. n + 1 : part[i] = text[i]
    BY <2>1, <2>3, <2>4
  <2> HIDE DEF message, n, text, part
  <2>7. part = text
    BY <2>6, SeqEqual
  <2> QED
    BY <2>5, <2>7 DEF part, text
<1>7. BodyStart(message) = 1
  BY <1>4 DEF BodyStart
<1>8. ParseMessage(message) =
        [headers |-> Cardinality(found),
         body |-> SubSeq(message, BodyStart(message), Len(message) - 1)]
  BY DEF ParseMessage
<1>9. Shown(mail) = [headers |-> Len(Selected(mail, {"header"})),
                     body |-> <<Ok>> \o Sent(mail)]
  BY DEF Shown
<1> HIDE DEF message, found, n, at
<1> QED
  BY <1>5, <1>6, <1>7, <1>8, <1>9 DEF message

\* Where there is one, the text begins after it and the headers end with it.
LEMMA ParseWithBlank ==
    ASSUME NEW mail \in Seq(Kinds), {k \in DOMAIN mail : mail[k] = "blank"} # {}
    PROVE  ParseMessage(AnswerOf(mail)) = Shown(mail)
<1> DEFINE message == AnswerOf(mail)
<1> DEFINE n == Len(mail)
<1> DEFINE ends == {k \in DOMAIN mail : mail[k] = "blank"}
<1> DEFINE m == Min(ends)
<1>1. /\ message \in Seq(Lines) /\ Len(message) = n + 2 /\ n \in Nat
      /\ message[1] = Ok /\ message[n + 2] = Dot
      /\ \A i \in 1 .. n : message[i + 1] = Sent(mail)[i]
      /\ DOMAIN message = 1 .. n + 2 /\ DOMAIN mail = 1 .. n
      /\ \A i \in 1 .. n + 2 : message[i] \in Lines
  BY AnswerOfFacts, LenProperties
<1>2. Ok.kind = "ok" /\ Dot.kind = "end"
  BY DEF Ok, Dot, Line
<1>3. ASSUME NEW i \in 1 .. n + 2, NEW kind \in {"header", "blank"}
      PROVE  message[i].kind = kind <=> i - 1 \in 1 .. n /\ mail[i - 1] = kind
  <2> HIDE DEF message, n
  <2>1. CASE i = 1 \/ i = n + 2
    BY <1>1, <1>2, <2>1
  <2>2. CASE i - 1 \in 1 .. n
    <3>1. message[i] = Sent(mail)[i - 1]
      <4>1. (i - 1) + 1 = i
        BY <2>2
      <4> QED
        BY <1>1, <2>2, <4>1
    <3> QED
      BY <2>2, <3>1, SentFacts DEF n
  <2> QED
    BY <1>1, <2>1, <2>2
<1>4. /\ ends \subseteq Nat /\ ends # {} /\ ends = {k \in 1 .. n : mail[k] = "blank"}
      /\ m \in ends /\ \A k \in ends : m <= k
  <2>1. ends = {k \in 1 .. n : mail[k] = "blank"}
    BY <1>1
  <2>2. ends \subseteq Nat
    BY <2>1
  <2>3. ends # {}
    OBVIOUS
  <2> HIDE DEF ends
  <2>4. m \in ends /\ \A k \in ends : m <= k
    BY <2>2, <2>3, FirstBlank
  <2> QED
    BY <2>1, <2>2, <2>3, <2>4
<1>5. m \in 1 .. n /\ mail[m] = "blank"
  BY <1>4
<1> HIDE DEF message, n, ends, m
<1>6. Blanks(message) = {k \in 1 .. n + 2 : k - 1 \in ends}
  BY <1>1, <1>3, <1>4 DEF Blanks
<1>7. /\ Min(Blanks(message)) = m + 1 /\ Blanks(message) # {}
      /\ m + 1 \in Blanks(message) /\ Blanks(message) \subseteq Int
      /\ \A k \in Blanks(message) : m + 1 <= k
  <2>1. m + 1 \in Blanks(message) /\ \A k \in Blanks(message) : m + 1 <= k
    <3>1. (m + 1) - 1 = m /\ m + 1 \in 1 .. n + 2
      BY <1>1, <1>5
    <3>2. ASSUME NEW k \in Blanks(message) PROVE m + 1 <= k
      <4>1. k \in Int /\ k - 1 \in ends /\ m <= k - 1 /\ m \in Int
        BY <1>4, <1>5, <1>6
      <4> QED
        BY <4>1
    <3> QED
      BY <1>4, <1>6, <3>1, <3>2
  <2>2. Blanks(message) \subseteq Nat
    BY <1>1, <1>6
  <2>3. /\ Min(Blanks(message)) \in Blanks(message)
        /\ \A k \in Blanks(message) : Min(Blanks(message)) <= k
    BY <2>1, <2>2, FirstBlank
  <2>4. Min(Blanks(message)) <= m + 1 /\ m + 1 <= Min(Blanks(message))
    BY <2>1, <2>3
  <2>5. Min(Blanks(message)) \in Nat /\ m + 1 \in Nat
    BY <2>1, <2>2, <2>3
  <2>6. Min(Blanks(message)) = m + 1
    BY <2>4, <2>5
  <2> QED
    BY <2>1, <2>2, <2>6
<1>8. BodyStart(message) = m + 2
  BY <1>4, <1>7 DEF BodyStart
<1> DEFINE top == SubSeq(mail, 1, m)
<1> DEFINE at == {i \in 1 .. Len(top) : top[i] \in {"header"}}
<1> DEFINE found == {k \in DOMAIN message : /\ message[k].kind = "header"
                                            /\ \A j \in Blanks(message) : k < j}
<1>9. Cardinality(found) = Len(Selected(top, {"header"}))
  <2>1. /\ top \in Seq(Kinds) /\ Len(top) = m
        /\ \A i \in 1 .. m : top[i] = mail[i]
    <3>1. \A i \in 1 .. m : mail[i] \in Kinds
      BY <1>5, SentFacts DEF n
    <3>2. m \in Int /\ 1 <= m /\ m - 1 + 1 = m /\ \A i \in 1 .. m : 1 + i - 1 = i
      BY <1>5
    <3> QED
      BY <3>1, <3>2, SubSeqProperties
  <2> HIDE DEF top
  <2>2. IsFiniteSet(at) /\ Cardinality(at) = Len(Selected(top, {"header"}))
    BY <2>1, SelectedCounts
  <2>3. ASSUME NEW y \in Int PROVE y \in found <=> y - 1 \in at
    <3>1. y \in found <=> /\ y \in 1 .. n + 2 /\ message[y].kind = "header"
                          /\ y < m + 1
      <4>1. (\A j \in Blanks(message) : y < j) <=> y < m + 1
        <5> HIDE DEF found, at
        <5> QED
          BY <1>5, <1>7
      <4>2. y \in found <=> /\ y \in DOMAIN message /\ message[y].kind = "header"
                            /\ \A j \in Blanks(message) : y < j
        OBVIOUS
      <4> HIDE DEF found, at
      <4> QED
        BY <1>1, <4>1, <4>2
    <3>2. y - 1 \in at <=> y - 1 \in 1 .. m /\ mail[y - 1] = "header"
      BY <1>5, <2>1
    <3>3. y \in 1 .. n + 2 => (message[y].kind = "header"
                                <=> y - 1 \in 1 .. n /\ mail[y - 1] = "header")
      BY <1>3
    <3>4. mail[m] # "header"
      BY <1>5
    <3> QED
      BY <1>1, <1>5, <3>1, <3>2, <3>3, <3>4
  <2>4. at \subseteq Int /\ found \subseteq Int
    BY <1>1, <1>5, <2>1
  <2> HIDE DEF at, found
  <2> QED
    BY <2>2, <2>3, <2>4, ShiftedCounts
<1>10. SubSeq(message, m + 2, Len(message) - 1) = SubSeq(Sent(mail), m + 1, n)
  <2> DEFINE text == SubSeq(Sent(mail), m + 1, n)
  <2> DEFINE part == SubSeq(message, m + 2, n + 1)
  <2>1. \A i \in m + 1 .. n : Sent(mail)[i] \in Lines
    BY <1>1, <1>5, SentFacts, LenProperties DEF n
  <2>2. \A i \in (m + 1) + 1 .. n + 1 : message[i] \in Lines
    BY <1>1, <1>5
  <2>3. /\ m \in Nat /\ m + 1 \in Nat /\ n + 1 \in Nat /\ m <= n /\ m + 1 <= n + 1
        /\ (m + 1) + 1 = m + 2 /\ (n + 1) - (m + 1) = n - m
    BY <1>1, <1>5
  <2>4. /\ text \in Seq(Lines) /\ Len(text) = n - m
        /\ \A i \in 1 .. n - m : text[i] = Sent(mail)[m + i]
    BY <1>1, <2>1, <2>3, PartOf
  <2>5. /\ part \in Seq(Lines) /\ Len(part) = n - m
        /\ \A i \in 1 .. n - m : part[i] = message[(m + 1) + i]
    <3> DEFINE p == SubSeq(message, (m + 1) + 1, n + 1)
    <3>1. /\ p \in Seq(Lines) /\ Len(p) = (n + 1) - (m + 1)
          /\ \A i \in 1 .. (n + 1) - (m + 1) : p[i] = message[(m + 1) + i]
      BY <2>2, <2>3, PartOf
    <3>2. p = part
      BY <2>3
    <3> HIDE DEF p, part
    <3> QED
      BY <2>3, <3>1, <3>2
  <2>6. ASSUME NEW i \in 1 .. n - m PROVE part[i] = text[i]
    <3>1. m + i \in 1 .. n /\ (m + 1) + i = (m + i) + 1
      BY <1>1, <1>5
    <3> QED
      BY <1>1, <2>4, <2>5, <3>1
  <2> HIDE DEF text, part
  <2>8. part = text
    BY <2>4, <2>5, <2>6, SeqEqual
  <2>9. Len(message) - 1 = n + 1
    BY <1>1
  <2> QED
    BY <2>8, <2>9 DEF part, text
<1>11. ParseMessage(message) =
        [headers |-> Cardinality(found),
         body |-> SubSeq(message, BodyStart(message), Len(message) - 1)]
  BY DEF ParseMessage
<1>12. Shown(mail) = [headers |-> Len(Selected(top, {"header"})),
                      body |-> SubSeq(Sent(mail), m + 1, n)]
  BY <1>4 DEF Shown, ends, m, n
<1> HIDE DEF found, at, top
<1> QED
  BY <1>8, <1>9, <1>10, <1>11, <1>12 DEF message

\* The client shows a mail as it should, whatever its lines are.
THEOREM ParseIsShown ==
    \A mail \in Seq(Kinds) : ParseMessage(AnswerOf(mail)) = Shown(mail)
BY ParseWithBlank, ParseWithoutBlank

-----------------------------------------------------------------------------
(* The answers of the server, without the line that ends them.             *)

Numbering == [n \in DOMAIN drop |-> Line("entry", n)]

LEMMA BodyFacts ==
    ASSUME NEW s \in Seq(Lines), \A i \in 1 .. Len(s) : s[i] # Dot
    PROVE  /\ <<Ok>> \in Seq(Lines) /\ <<Ok>> \o s \in Seq(Lines)
           /\ Len(<<Ok>> \o s) = Len(s) + 1
           /\ \A i \in 1 .. Len(<<Ok>> \o s) : (<<Ok>> \o s)[i] # Dot
           /\ (<<Ok>> \o s) \o <<Dot>> = Append(<<Ok>> \o s, Dot)
<1>1. /\ <<Ok>> \in Seq(Lines) /\ Len(<<Ok>>) = 1 /\ <<Ok>>[1] = Ok
      /\ Dot \in Lines /\ Ok # Dot /\ Len(s) \in Nat
  BY OkDotErr, LenProperties
<1> DEFINE t == <<Ok>> \o s
<1>2. /\ t \in Seq(Lines) /\ Len(t) = Len(<<Ok>>) + Len(s)
      /\ \A i \in 1 .. Len(<<Ok>>) + Len(s) :
            t[i] = IF i <= Len(<<Ok>>) THEN <<Ok>>[i] ELSE s[i - Len(<<Ok>>)]
  BY <1>1, ConcatProperties
<1> HIDE DEF t
<1>3. Len(t) = Len(s) + 1
  BY <1>1, <1>2
<1>4. ASSUME NEW i \in 1 .. Len(t) PROVE t[i] # Dot
  <2>1. CASE i = 1
    BY <1>1, <1>2, <2>1
  <2>2. CASE i # 1
    <3>1. i - 1 \in 1 .. Len(s) /\ t[i] = s[i - 1]
      BY <1>1, <1>2, <1>3, <2>2
    <3> QED
      BY <3>1
  <2> QED
    BY <2>1, <2>2
<1>5. t \o <<Dot>> = Append(t, Dot)
  BY <1>1, <1>2, AppendIsConcat
<1> QED
  BY <1>1, <1>2, <1>3, <1>4, <1>5 DEF t

\* The answer to LIST: its numbers are those of the mails.
LEMMA ListFacts ==
    ASSUME TypeOK, Len(drop) <= MaxMails
    PROVE  /\ <<Ok>> \o Numbering \in Seq(Lines)
           /\ \A i \in 1 .. Len(<<Ok>> \o Numbering) : (<<Ok>> \o Numbering)[i] # Dot
           /\ AnswerTo("LIST") = Append(<<Ok>> \o Numbering, Dot)
           /\ Selected(<<Ok>> \o Numbering, Entries) = Numbering
           /\ DOMAIN Numbering = 1 .. Len(drop) /\ Len(drop) \in Nat
           /\ \A k \in 1 .. Len(drop) : Numbering[k].n = k
<1>1. Len(drop) \in Nat /\ DOMAIN drop = 1 .. Len(drop)
  BY LenProperties DEF TypeOK
<1>2. \A n \in 1 .. Len(drop) :
        Line("entry", n) \in Entries /\ Line("entry", n) \in Lines
  BY <1>1, BoundAssumption DEF Line, Lines, Entries
<1>3. /\ Numbering \in Seq(Lines) /\ Len(Numbering) = Len(drop)
      /\ \A i \in 1 .. Len(Numbering) : Numbering[i] \in Entries
  BY <1>1, <1>2 DEF Numbering
<1>4. Dot \notin Entries /\ Ok \notin Entries
  BY DEF Entries, Dot, Ok, Line
<1>5. \A i \in 1 .. Len(Numbering) : Numbering[i] # Dot
  BY <1>3, <1>4
<1>6. /\ <<Ok>> \in Seq(Lines) /\ Len(<<Ok>>) = 1 /\ <<Ok>>[1] = Ok
  BY OkDotErr
<1>7. Selected(<<Ok>>, Entries) = <<>>
  <2>1. \A i \in 1 .. Len(<<Ok>>) : <<Ok>>[i] \notin Entries
    BY <1>4, <1>6
  <2> QED
    BY <1>6, <2>1, SelectedAll
<1>8. Selected(Numbering, Entries) = Numbering
  BY <1>3, SelectedAll
<1>9. Selected(<<Ok>> \o Numbering, Entries) = <<>> \o Numbering
  <2> DEFINE one == <<Ok>>
  <2>1. one \in Seq(Lines) /\ Selected(one, Entries) = <<>>
    BY <1>6, <1>7
  <2> HIDE DEF one
  <2>2. \A s, t \in Seq(Lines) :
            Selected(s \o t, Entries) = Selected(s, Entries) \o Selected(t, Entries)
    BY SelectedConcat
  <2> QED
    BY <1>3, <1>8, <2>1, <2>2 DEF one
<1>10. <<>> \o Numbering = Numbering
  BY <1>3, ConcatEmptySeq
<1>11. AnswerTo("LIST") = (<<Ok>> \o Numbering) \o <<Dot>>
  BY DEF AnswerTo, Numbering
<1>12. \A k \in 1 .. Len(drop) : Numbering[k].n = k
  BY <1>1 DEF Numbering, Line
<1>13. DOMAIN Numbering = 1 .. Len(drop)
  BY <1>1 DEF Numbering
<1> QED
  BY <1>1, <1>3, <1>5, <1>9, <1>10, <1>11, <1>12, <1>13, BodyFacts

\* The answer to RETR: the mail.
LEMMA RetrFacts ==
    ASSUME TypeOK, Head(numbers) \in 1 .. Len(drop)
    PROVE  /\ drop[Head(numbers)] \in Seq(Kinds)
           /\ <<Ok>> \o Sent(drop[Head(numbers)]) \in Seq(Lines)
           /\ \A i \in 1 .. Len(<<Ok>> \o Sent(drop[Head(numbers)])) :
                (<<Ok>> \o Sent(drop[Head(numbers)]))[i] # Dot
           /\ AnswerTo("RETR") = AnswerOf(drop[Head(numbers)])
           /\ AnswerOf(drop[Head(numbers)])
                = Append(<<Ok>> \o Sent(drop[Head(numbers)]), Dot)
<1> DEFINE mail == drop[Head(numbers)]
<1>1. mail \in Seq(Kinds)
  BY MailsAssumption, ElementOfSeq DEF TypeOK
<1>2. AnswerTo("RETR") = AnswerOf(mail)
  BY DEF AnswerTo, AnswerOf
<1> HIDE DEF mail
<1>3. /\ Sent(mail) \in Seq(Lines)
      /\ \A i \in 1 .. Len(Sent(mail)) : Sent(mail)[i] # Dot
  BY <1>1, SentFacts
<1>4. AnswerOf(mail) = (<<Ok>> \o Sent(mail)) \o <<Dot>>
  BY DEF AnswerOf
<1> QED
  BY <1>1, <1>2, <1>3, <1>4, BodyFacts DEF mail

\* What parse_message returns is a mail of the window.
LEMMA ParseType ==
    ASSUME NEW message \in Seq(Lines)
    PROVE  ParseMessage(message) \in [headers : Nat, body : Seq(Lines)]
<1>1. /\ Len(message) \in Nat /\ DOMAIN message = 1 .. Len(message)
      /\ \A i \in 1 .. Len(message) : message[i] \in Lines
  BY LenProperties
<1>2. Blanks(message) \subseteq 1 .. Len(message)
  BY <1>1 DEF Blanks
<1>3. BodyStart(message) \in Nat /\ 1 <= BodyStart(message)
  <2>1. CASE Blanks(message) = {}
    BY <2>1 DEF BodyStart
  <2>2. CASE Blanks(message) # {}
    <3>1. Blanks(message) \subseteq Nat
      BY <1>1, <1>2
    <3>2. Min(Blanks(message)) \in 1 .. Len(message)
      BY <1>2, <2>2, <3>1, FirstBlank
    <3>3. BodyStart(message) = Min(Blanks(message)) + 1
      BY <2>2 DEF BodyStart
    <3> QED
      BY <1>1, <3>2, <3>3
  <2> QED
    BY <2>1, <2>2
<1>4. SubSeq(message, BodyStart(message), Len(message) - 1) \in Seq(Lines)
  <2>1. /\ BodyStart(message) \in Int /\ Len(message) - 1 \in Int
        /\ \A i \in BodyStart(message) .. Len(message) - 1 : message[i] \in Lines
    BY <1>1, <1>3
  <2> QED
    BY <2>1, SubSeqProperties
<1> DEFINE found == {k \in DOMAIN message : /\ message[k].kind = "header"
                                            /\ \A j \in Blanks(message) : k < j}
<1>5. Cardinality(found) \in Nat
  <2>1. found \subseteq 1 .. Len(message) /\ IsFiniteSet(1 .. Len(message))
    BY <1>1, FS_Interval
  <2> HIDE DEF found
  <2> QED
    BY <2>1, FS_Subset, FS_CardinalityType
<1> QED
  BY <1>4, <1>5 DEF ParseMessage

-----------------------------------------------------------------------------
(* The inductive invariant.                                                *)

\* What the client has read of an answer and what is on its way: nothing yet;
\* the whole of it, of which not everything is read; or a refusal.
Asked == lines = <<>> /\ answer = <<>>
Reading == answer # <<>> /\ lines \o answer = AnswerTo(pc)
Refused == \/ lines = <<>> /\ answer = <<Err>>
           \/ lines = <<Err>> /\ answer = <<>>

AnswerInv ==
    /\ pc \in {"greeting", "USER", "PASS", "QUIT"}
         => lines = <<>> /\ answer \in {<<>>, <<Ok>>, <<Err>>}
    /\ pc \in {"LIST", "RETR"} => Asked \/ Reading \/ Refused
    /\ InWindow => answer = <<>>

\* Which mails the window has, and which are still to be retrieved.
MailsInv ==
    /\ pc \in {"greeting", "USER", "PASS", "LIST"} => storage = <<>>
    /\ pc \in {"greeting", "USER", "PASS"} => listed = <<>>
    /\ pc = "LIST" /\ Reading => listed = drop
    /\ pc = "RETR" =>
        /\ listed = drop /\ numbers # <<>>
        /\ Len(storage) + Len(numbers) = Len(drop)
        /\ \A k \in 1 .. Len(numbers) : numbers[k] = Len(storage) + k
    /\ pc = "QUIT" => Len(storage) = Len(listed)

Bounds == Len(drop) <= MaxMails /\ selected < Len(storage)

IInv == TypeOK /\ AnswerInv /\ MailsInv /\ Bounds /\ InOrder /\ OkIsComplete

LEMMA Nothing == /\ Len(<<>>) = 0 /\ DOMAIN <<>> = {}
                 /\ \A S : <<>> \in Seq(S)
BY EmptySeq

LEMMA Initially == Init => IInv
<1> SUFFICES ASSUME Init PROVE IInv
  OBVIOUS
<1>1. /\ numbers = <<>> /\ lines = <<>> /\ storage = <<>> /\ drop = <<>>
      /\ listed = <<>> /\ answer = <<>> /\ pc = "window"
      /\ status \in Messages /\ status # "OK"
      /\ selected = -1 /\ fetches = 0
  BY DEF Init, Messages
<1>2. TypeOK
  <2>1. selected \in -1 .. MaxMails - 1 /\ fetches \in 0 .. MaxFetches
    BY <1>1, BoundAssumption
  <2> QED
    BY <1>1, <2>1, Nothing DEF TypeOK
<1>3. /\ Len(storage) = 0 /\ Len(listed) = 0 /\ DOMAIN storage = {}
      /\ Len(drop) = 0
  BY <1>1, Nothing
<1> QED
  BY <1>1, <1>2, <1>3, BoundAssumption
     DEF IInv, AnswerInv, MailsInv, Bounds, InOrder, OkIsComplete, InWindow

\* What concerns neither the client nor the server.
LEMMA SelectKeeps ==
    ASSUME IInv, NEW row \in 0 .. MaxMails - 1, Select(row) PROVE IInv'
<1>1. /\ UNCHANGED <<pc, numbers, lines, storage, status, fetches,
                     drop, listed, answer>>
      /\ selected' = row /\ row < Len(storage)
  <2>1. Len(storage) \in Nat
    BY LenProperties DEF IInv, TypeOK
  <2> QED
    BY <2>1, BoundAssumption DEF Select, serverVars
<1>2. TypeOK'
  <2>1. selected' \in -1 .. MaxMails - 1
    BY <1>1, BoundAssumption
  <2> QED
    BY <1>1, <2>1 DEF IInv, TypeOK
<1>3. AnswerInv' /\ MailsInv'
  BY <1>1 DEF IInv, AnswerInv, MailsInv, Asked, Reading, Refused, AnswerTo,
              InWindow, Select
<1> QED
  BY <1>1, <1>2, <1>3 DEF IInv, Bounds, InOrder, OkIsComplete, InWindow

LEMMA EmptyFieldsKeeps ==
    ASSUME IInv, EmptyFields PROVE IInv'
<1>1. /\ UNCHANGED <<pc, numbers, lines, storage, selected, fetches,
                     drop, listed, answer>>
      /\ status' \in Messages /\ status' # "OK" /\ pc = "window"
  BY DEF EmptyFields, serverVars, InWindow, Messages
<1>2. TypeOK'
  BY <1>1 DEF IInv, TypeOK
<1> QED
  BY <1>1, <1>2 DEF IInv, AnswerInv, MailsInv, Bounds, InOrder, OkIsComplete,
                    InWindow

LEMMA GetMailKeeps ==
    ASSUME IInv, GetMail PROVE IInv'
<1>1. /\ pc' = "greeting" /\ selected' = -1 /\ drop' = drop
      /\ status' \in Messages
      /\ storage' = <<>> /\ numbers' = <<>> /\ lines' = <<>>
      /\ answer' = <<>> /\ listed' = <<>>
      /\ fetches' = fetches + 1 /\ fetches < MaxFetches
  BY DEF GetMail, Cleared, Messages
<1>2. TypeOK'
  <2>1. selected' \in -1 .. MaxMails - 1 /\ fetches' \in 0 .. MaxFetches
    BY <1>1, BoundAssumption DEF IInv, TypeOK
  <2> QED
    BY <1>1, <2>1, Nothing DEF IInv, TypeOK, Requests
<1>3. Len(storage') = 0 /\ Len(listed') = 0 /\ DOMAIN storage' = {}
  BY <1>1, Nothing
<1> QED
  BY <1>1, <1>2, <1>3 DEF IInv, AnswerInv, MailsInv, Bounds, InOrder,
                          OkIsComplete, InWindow

\* The maildrop changes while the client is not connected.
LEMMA DropKeeps ==
    ASSUME IInv, Removed \/ \E mail \in Mails : Arrives(mail) PROVE IInv'
<1>1. /\ UNCHANGED <<pc, numbers, lines, storage, status, selected, fetches,
                     listed, answer>>
      /\ pc = "window"
  BY DEF Removed, Arrives, clientVars, InWindow
<1>2. drop' \in Seq(Mails) /\ Len(drop') <= MaxMails
  <2>1. Len(drop) \in Nat /\ drop \in Seq(Mails) /\ Len(drop) <= MaxMails
    BY LenProperties DEF IInv, TypeOK, Bounds
  <2>2. CASE Removed
    BY <2>1, <2>2, BoundAssumption, HeadTailProperties DEF Removed
  <2>3. ASSUME NEW mail \in Mails, Arrives(mail)
        PROVE  drop' \in Seq(Mails) /\ Len(drop') <= MaxMails
    BY <2>1, <2>3, BoundAssumption, AppendProperties DEF Arrives
  <2> QED
    BY <2>2, <2>3
<1>3. TypeOK'
  BY <1>1, <1>2 DEF IInv, TypeOK
<1> QED
  BY <1>1, <1>2, <1>3 DEF IInv, AnswerInv, MailsInv, Bounds, InOrder,
                          OkIsComplete, InWindow

LEMMA ThrowsKeeps ==
    ASSUME IInv, Throws PROVE IInv'
<1>1. /\ UNCHANGED <<numbers, lines, storage, selected, fetches, drop, listed>>
      /\ pc' = "window" /\ answer' = <<>>
      /\ status' \in Messages /\ status' # "OK"
  BY DEF Throws, Messages
<1>2. TypeOK'
  BY <1>1, Nothing DEF IInv, TypeOK
<1> QED
  BY <1>1, <1>2 DEF IInv, AnswerInv, MailsInv, Bounds, InOrder, OkIsComplete,
                    InWindow

\* The login: nothing is listed and nothing is shown.
LEMMA LoginKeeps ==
    ASSUME IInv, NEW r \in DOMAIN Following, LoginAnswered(r) PROVE IInv'
<1>1. /\ UNCHANGED <<lines, selected, fetches, drop, listed, numbers, storage,
                     status>>
      /\ pc = r /\ answer' = <<>> /\ (pc' = Following[r] \/ pc' = "QUIT")
  BY DEF LoginAnswered, ReadsData, AfterRefusal
<1>2. /\ r \in {"greeting", "USER", "PASS"}
      /\ pc' \in {"USER", "PASS", "LIST", "QUIT"}
  BY <1>1 DEF Following
<1>3. lines = <<>> /\ storage = <<>> /\ listed = <<>>
  BY <1>1, <1>2 DEF IInv, AnswerInv, MailsInv
<1>4. TypeOK'
  BY <1>1, <1>2, EmptySeq DEF IInv, TypeOK, Requests
<1>5. AnswerInv'
  BY <1>1, <1>2, <1>3 DEF AnswerInv, Asked, InWindow
<1>6. MailsInv'
  BY <1>1, <1>2, <1>3 DEF MailsInv, Reading
<1> QED
  BY <1>1, <1>2, <1>4, <1>5, <1>6 DEF IInv, Bounds, InOrder, OkIsComplete, InWindow

LEMMA QuitKeeps ==
    ASSUME IInv, QuitAnswered PROVE IInv'
<1>1. /\ UNCHANGED <<lines, selected, fetches, drop, listed, numbers, storage>>
      /\ pc = "QUIT" /\ answer' = <<>> /\ pc' = "window" /\ status' \in Messages
  BY DEF QuitAnswered, ReadsData, Messages
<1>2. TypeOK'
  BY <1>1, Nothing DEF IInv, TypeOK
<1> QED
  BY <1>1, <1>2 DEF IInv, AnswerInv, MailsInv, Bounds, InOrder, OkIsComplete,
                    InWindow

\* The number that is retrieved next.
LEMMA NextNumber ==
    ASSUME IInv, pc = "RETR"
    PROVE  /\ Len(storage) \in Nat /\ Len(numbers) \in Nat \ {0} /\ Len(drop) \in Nat
           /\ Head(numbers) = Len(storage) + 1
           /\ Len(storage) + 1 \in 1 .. Len(drop)
<1>1. /\ Len(storage) \in Nat /\ Len(drop) \in Nat /\ Len(numbers) \in Nat \ {0}
  BY LenProperties, EmptySeq DEF IInv, TypeOK, MailsInv
<1>2. Head(numbers) = numbers[1] /\ 1 \in 1 .. Len(numbers)
  BY <1>1 DEF IInv, TypeOK, MailsInv
<1>3. /\ numbers[1] = Len(storage) + 1
      /\ Len(storage) + Len(numbers) = Len(drop)
  BY <1>2 DEF IInv, MailsInv
<1> QED
  BY <1>1, <1>2, <1>3

\* The line that ends an answer is its only one of its kind.
LEMMA AnswerEnds ==
    ASSUME IInv, pc \in {"LIST", "RETR"}
    PROVE  \E body \in Seq(Lines) :
             /\ AnswerTo(pc) = Append(body, Dot)
             /\ \A i \in 1 .. Len(body) : body[i] # Dot
             /\ pc = "LIST" => body = <<Ok>> \o Numbering
             /\ pc = "RETR" => body = <<Ok>> \o Sent(drop[Head(numbers)])
<1>1. CASE pc = "LIST"
  BY <1>1, ListFacts DEF IInv, Bounds
<1>2. CASE pc = "RETR"
  <2>1. Head(numbers) \in 1 .. Len(drop)
    BY <1>2, NextNumber
  <2> QED
    BY <1>2, <2>1, RetrFacts DEF IInv
<1> QED
  BY <1>1, <1>2

LEMMA ServerKeeps ==
    ASSUME IInv, ServerAnswers PROVE IInv'
<1>1. /\ UNCHANGED <<pc, numbers, lines, storage, status, selected, fetches, drop>>
      /\ pc # "window" /\ answer = <<>> /\ lines = <<>>
      /\ pc \in Requests
  BY DEF ServerAnswers, clientVars, InWindow, IInv, TypeOK
<1>2. \/ answer' = AnswerTo(pc) /\ listed' = IF pc = "LIST" THEN drop ELSE listed
      \/ answer' = <<Err>> /\ listed' = listed
  BY DEF ServerAnswers
<1>3. CASE pc \in {"greeting", "USER", "PASS", "QUIT"}
  <2>1. AnswerTo(pc) = <<Ok>>
    BY <1>3, Zenon DEF AnswerTo
  <2>2. answer' \in {<<Ok>>, <<Err>>} /\ listed' = listed
    BY <1>2, <1>3, <2>1
  <2>3. answer' \in Seq(Lines)
    <3>1. <<Ok>> \in Seq(Lines) /\ <<Err>> \in Seq(Lines)
      BY OkDotErr
    <3> QED
      BY <2>2, <3>1
  <2>4. TypeOK'
    BY <1>1, <2>2, <2>3 DEF IInv, TypeOK
  <2> QED
    BY <1>1, <1>3, <2>2, <2>4 DEF IInv, AnswerInv, MailsInv, Bounds, InOrder,
                                  OkIsComplete, InWindow
<1>4. CASE pc \in {"LIST", "RETR"}
  <2>1. /\ AnswerTo(pc) \in Seq(Lines) /\ AnswerTo(pc) # <<>>
        /\ <<Err>> \in Seq(Lines)
    <3>1. PICK body \in Seq(Lines) : AnswerTo(pc) = Append(body, Dot)
      BY <1>4, AnswerEnds
    <3> QED
      BY <3>1, OkDotErr, AppendProperties
  <2>2. answer' \in Seq(Lines) /\ listed' \in Seq(Mails)
    BY <1>2, <2>1 DEF IInv, TypeOK
  <2>3. TypeOK'
    BY <1>1, <2>2 DEF IInv, TypeOK
  <2>4. Reading' \/ Refused'
    <3>1. CASE answer' = AnswerTo(pc)
      <4>1. <<>> \o AnswerTo(pc) = AnswerTo(pc)
        BY <2>1, ConcatEmptySeq
      <4>2. AnswerTo(pc)' = AnswerTo(pc)
        BY <1>1, Zenon DEF AnswerTo
      <4>3. lines' \o answer' = AnswerTo(pc)'
        BY <1>1, <3>1, <4>1, <4>2
      <4> QED
        BY <2>1, <3>1, <4>3 DEF Reading
    <3>2. CASE answer' = <<Err>>
      BY <1>1, <3>2 DEF Refused
    <3> QED
      BY <1>2, <3>1, <3>2
  <2>5. AnswerInv'
    BY <1>1, <1>4, <2>4 DEF AnswerInv, InWindow
  <2>6. CASE pc = "LIST"
    <3>1. storage = <<>> /\ (Reading' => listed' = drop')
      <4>1. storage = <<>>
        BY <2>6 DEF IInv, MailsInv
      <4>2. CASE answer' = <<Err>>
        <5>1. AnswerTo(pc)' # <<Err>>
          <6>1. AnswerTo(pc)' = AnswerTo(pc)
            BY <1>1, Zenon DEF AnswerTo
          <6>2. PICK body \in Seq(Lines) : AnswerTo(pc) = Append(body, Dot)
            BY <1>4, AnswerEnds
          <6>3. Append(body, Dot)[Len(body) + 1] = Dot
            BY <6>2, OkDotErr, AppendProperties
          <6>4. Append(body, Dot) = <<Err>> => Len(body) + 1 = 1
            <7>1. Len(Append(body, Dot)) = Len(body) + 1
              BY <6>2, OkDotErr, AppendProperties
            <7>2. Len(<<Err>>) = 1
              OBVIOUS
            <7> QED
              BY <7>1, <7>2
          <6>5. <<Err>>[1] = Err
            OBVIOUS
          <6> QED
            BY <6>1, <6>2, <6>3, <6>4, <6>5, OkDotErr
        <5>2. <<>> \o <<Err>> = <<Err>>
          BY <2>1, ConcatEmptySeq
        <5>3. ~Reading'
          BY <1>1, <4>2, <5>1, <5>2 DEF Reading
        <5> QED
          BY <4>1, <5>3
      <4>3. CASE listed' = drop
        BY <1>1, <4>1, <4>3
      <4> QED
        BY <1>2, <2>6, <4>2, <4>3
    <3>2. Len(storage') = 0 /\ DOMAIN storage' = {} /\ Len(listed') \in Nat
      BY <1>1, <2>2, <3>1, Nothing, LenProperties
    <3>3. InOrder'
      BY <3>2 DEF InOrder
    <3>4. MailsInv'
      BY <1>1, <2>6, <3>1 DEF MailsInv
    <3> QED
      BY <1>1, <2>3, <2>5, <2>6, <3>3, <3>4 DEF IInv, Bounds, OkIsComplete, InWindow
  <2>7. CASE pc = "RETR"
    <3>1. listed' = listed
      BY <1>2, <2>7
    <3>2. MailsInv'
      BY <1>1, <2>7, <3>1 DEF IInv, MailsInv
    <3> QED
      BY <1>1, <2>3, <2>5, <2>7, <3>1, <3>2
         DEF IInv, Bounds, InOrder, OkIsComplete, InWindow
  <2> QED
    BY <1>4, <2>6, <2>7
<1> QED
  BY <1>1, <1>3, <1>4 DEF Requests

LEMMA LineKeeps ==
    ASSUME IInv, ReadsLine PROVE IInv'
<1>1. /\ UNCHANGED <<pc, numbers, storage, status, selected, fetches, drop, listed>>
      /\ pc \in {"LIST", "RETR"} /\ answer # <<>> /\ Head(answer) # Dot
      /\ lines' = Append(lines, Head(answer)) /\ answer' = Tail(answer)
  BY DEF ReadsLine
<1>2. lines \in Seq(Lines) /\ answer \in Seq(Lines)
  BY DEF IInv, TypeOK
<1>3. /\ Head(answer) \in Lines /\ lines' \in Seq(Lines) /\ answer' \in Seq(Lines)
      /\ lines' \o answer' = lines \o answer
  BY <1>1, <1>2, LineRead
<1>4. TypeOK'
  BY <1>1, <1>3 DEF IInv, TypeOK
<1>5. AnswerTo(pc)' = AnswerTo(pc)
  BY <1>1, Zenon DEF AnswerTo
<1>6. CASE Reading
  <2>1. answer' # <<>>
    <3> SUFFICES ASSUME answer' = <<>> PROVE FALSE
      OBVIOUS
    <3>1. PICK body \in Seq(Lines) : AnswerTo(pc) = Append(body, Dot)
      BY <1>1, AnswerEnds
    <3>2. lines' \o answer' = lines'
      BY <1>3, ConcatEmptySeq
    <3>3. Append(lines, Head(answer)) = Append(body, Dot)
      BY <1>1, <1>3, <1>6, <3>1, <3>2 DEF Reading
    <3>4. Head(answer) = Dot
      BY <1>2, <1>3, <3>1, <3>3, OkDotErr, AppendInjective
    <3> QED
      BY <1>1, <3>4
  <2>2. Reading'
    BY <1>3, <1>5, <1>6, <2>1 DEF Reading
  <2>3. AnswerInv' /\ MailsInv'
    BY <1>1, <1>6, <2>2 DEF IInv, AnswerInv, MailsInv, InWindow
  <2> QED
    BY <1>1, <1>4, <2>3 DEF IInv, Bounds, InOrder, OkIsComplete, InWindow
<1>7. CASE lines = <<>> /\ answer = <<Err>>
  <2>1. Head(answer) = Err /\ Tail(answer) = <<>> /\ Append(<<>>, Err) = <<Err>>
    BY <1>7
  <2>2. Refused' /\ ~Reading'
    BY <1>1, <1>7, <2>1 DEF Refused, Reading
  <2>3. AnswerInv' /\ MailsInv'
    BY <1>1, <2>2 DEF IInv, AnswerInv, MailsInv, InWindow
  <2> QED
    BY <1>1, <1>4, <2>3 DEF IInv, Bounds, InOrder, OkIsComplete, InWindow
<1> QED
  BY <1>1, <1>6, <1>7 DEF IInv, AnswerInv, Asked, Refused

\* Where a line "." has come, all lines before it have been read.
LEMMA AllRead ==
    ASSUME IInv, pc \in {"LIST", "RETR"}, answer # <<>>, Head(answer) = Dot
    PROVE  /\ Reading /\ Tail(answer) = <<>>
           /\ pc = "LIST" => lines = <<Ok>> \o Numbering
           /\ pc = "RETR" => lines = <<Ok>> \o Sent(drop[Head(numbers)])
<1>1. Reading
  <2>1. Head(<<Err>>) = Err
    OBVIOUS
  <2> QED
    BY <2>1, OkDotErr DEF IInv, AnswerInv, Asked, Refused
<1>2. PICK body \in Seq(Lines) :
             /\ AnswerTo(pc) = Append(body, Dot)
             /\ \A i \in 1 .. Len(body) : body[i] # Dot
             /\ pc = "LIST" => body = <<Ok>> \o Numbering
             /\ pc = "RETR" => body = <<Ok>> \o Sent(drop[Head(numbers)])
  BY AnswerEnds
<1>3. lines \in Seq(Lines) /\ answer \in Seq(Lines) /\ Dot \in Lines
  BY OkDotErr DEF IInv, TypeOK
<1>4. lines \o answer = Append(body, Dot)
  BY <1>1, <1>2 DEF Reading
<1>5. lines = body /\ answer = <<Dot>>
  <2>1. ASSUME NEW s \in Seq(Lines), NEW t \in Seq(Lines), NEW u \in Seq(Lines),
               t # <<>>, s \o t = Append(u, Dot), Head(t) = Dot,
               \A i \in 1 .. Len(u) : u[i] # Dot
        PROVE  s = u /\ t = <<Dot>>
    BY <1>3, <2>1, LastLineRead
  <2> QED
    BY <1>2, <1>3, <1>4, <2>1
<1>6. Tail(<<Dot>>) = <<>>
  OBVIOUS
<1> QED
  BY <1>1, <1>2, <1>5, <1>6

LEMMA ListKeeps ==
    ASSUME IInv, ListAnswered PROVE IInv'
<1> DEFINE entries == Selected(lines, Entries)
<1> DEFINE left == [k \in DOMAIN entries |-> entries[k].n]
<1>1. /\ UNCHANGED <<storage, status, selected, fetches, drop, listed>>
      /\ pc = "LIST" /\ answer # <<>> /\ Head(answer) = Dot
      /\ answer' = Tail(answer) /\ lines' = <<>>
      /\ numbers' = left /\ pc' = IF left = <<>> THEN "QUIT" ELSE "RETR"
  BY DEF ListAnswered, EndsAnswer, Onward
<1>2. /\ Reading /\ answer' = <<>> /\ lines = <<Ok>> \o Numbering
  BY <1>1, AllRead
<1>3. listed = drop /\ storage = <<>> /\ Len(drop) <= MaxMails
  BY <1>1, <1>2 DEF IInv, MailsInv, Bounds
<1>4. /\ entries = Numbering /\ DOMAIN Numbering = 1 .. Len(drop)
      /\ Len(drop) \in Nat /\ \A k \in 1 .. Len(drop) : Numbering[k].n = k
  BY <1>2, <1>3, ListFacts DEF IInv
<1> HIDE DEF entries
<1>5. left = [k \in 1 .. Len(drop) |-> k]
  BY <1>4
<1> HIDE DEF left
<1>6. /\ left \in Seq(1 .. MaxMails) /\ Len(left) = Len(drop)
      /\ \A k \in 1 .. Len(left) : left[k] = k
  BY <1>3, <1>4, <1>5, BoundAssumption
<1>7. TypeOK'
  <2>1. pc' \in {"QUIT", "RETR"}
    BY <1>1
  <2> QED
    BY <1>1, <1>2, <1>6, <2>1, Nothing DEF IInv, TypeOK, Requests
<1>8. /\ Asked' /\ pc' # "LIST" /\ pc' # "window"
  BY <1>1, <1>2 DEF Asked
<1>9. Len(storage') = 0 /\ Len(listed') = Len(drop) /\ drop' = drop
  BY <1>1, <1>3, Nothing
<1>10. left = <<>> <=> Len(drop) = 0
  BY <1>4, <1>6, EmptySeq
<1>11. MailsInv'
  <2>1. CASE left = <<>>
    BY <1>1, <1>9, <1>10, <2>1 DEF MailsInv
  <2>2. CASE left # <<>>
    <3>1. pc' = "RETR" /\ numbers' = left /\ listed' = drop'
      BY <1>1, <1>3, <2>2
    <3>2. /\ Len(storage') + Len(numbers') = Len(drop')
          /\ \A k \in 1 .. Len(numbers') : numbers'[k] = Len(storage') + k
      BY <1>4, <1>6, <1>9, <3>1
    <3> QED
      BY <2>2, <3>1, <3>2 DEF MailsInv
  <2> QED
    BY <2>1, <2>2
<1>12. AnswerInv'
  BY <1>8, <1>1 DEF AnswerInv, Asked, InWindow
<1> QED
  BY <1>1, <1>7, <1>8, <1>11, <1>12 DEF IInv, Bounds, InOrder, OkIsComplete, InWindow

LEMMA RetrKeeps ==
    ASSUME IInv, RetrAnswered
    PROVE  /\ IInv' /\ Len(storage') = Len(storage) + 1
           /\ \A k \in 1 .. Len(storage) : storage'[k] = storage[k]
<1> DEFINE k == Len(storage)
<1> DEFINE mail == drop[k + 1]
<1>1. /\ UNCHANGED <<status, selected, fetches, drop, listed>>
      /\ pc = "RETR" /\ answer # <<>> /\ Head(answer) = Dot
      /\ answer' = Tail(answer) /\ lines' = <<>>
      /\ storage' = Append(storage, ParseMessage(Append(lines, Dot)))
      /\ numbers' = Tail(numbers)
      /\ pc' = IF Tail(numbers) = <<>> THEN "QUIT" ELSE "RETR"
  BY DEF RetrAnswered, EndsAnswer, Onward
<1>2. /\ k \in Nat /\ Len(numbers) \in Nat \ {0} /\ Len(drop) \in Nat
      /\ Head(numbers) = k + 1 /\ k + 1 \in 1 .. Len(drop)
  BY <1>1, NextNumber
<1>3. answer' = <<>> /\ lines = <<Ok>> \o Sent(mail)
  BY <1>1, <1>2, AllRead
<1>4. mail \in Seq(Kinds) /\ Append(lines, Dot) = AnswerOf(mail)
  <2>1. Head(numbers) \in 1 .. Len(drop)
    BY <1>2
  <2> QED
    BY <1>2, <1>3, <2>1, RetrFacts DEF IInv
<1>5. ParseMessage(Append(lines, Dot)) = Shown(mail)
  BY <1>4, ParseIsShown
<1>6. Shown(mail) \in [headers : Nat, body : Seq(Lines)]
  <2>1. AnswerOf(mail) \in Seq(Lines)
    BY <1>4, AnswerOfFacts
  <2> QED
    BY <1>4, <1>5, <2>1, ParseType
<1> HIDE DEF mail
<1>7. /\ storage' \in Seq([headers : Nat, body : Seq(Lines)])
      /\ Len(storage') = k + 1 /\ storage'[k + 1] = Shown(mail)
      /\ \A i \in 1 .. k : storage'[i] = storage[i]
  <2>1. storage' = Append(storage, Shown(mail))
    BY <1>1, <1>5
  <2>2. storage \in Seq([headers : Nat, body : Seq(Lines)])
    BY DEF IInv, TypeOK
  <2> QED
    BY <1>6, <2>1, <2>2, AppendProperties
<1>8. /\ numbers' \in Seq(1 .. MaxMails) /\ Len(numbers') = Len(numbers) - 1
      /\ \A i \in 1 .. Len(numbers') : numbers'[i] = numbers[i + 1]
  <2>1. numbers \in Seq(1 .. MaxMails) /\ numbers # <<>>
    BY <1>1 DEF IInv, TypeOK, MailsInv
  <2> QED
    BY <1>1, <2>1, HeadTailProperties
<1>9. /\ listed = drop /\ k + Len(numbers) = Len(drop)
      /\ \A i \in 1 .. Len(numbers) : numbers[i] = k + i
  BY <1>1 DEF IInv, MailsInv
<1>10. TypeOK'
  <2>1. pc' \in {"QUIT", "RETR"}
    BY <1>1
  <2> QED
    BY <1>1, <1>3, <1>7, <1>8, <2>1, Nothing DEF IInv, TypeOK, Requests
<1>11. AnswerInv'
  BY <1>1, <1>3 DEF AnswerInv, Asked, InWindow
<1>12. MailsInv'
  <2>1. Len(storage') + Len(numbers') = Len(drop')
    BY <1>1, <1>2, <1>7, <1>8, <1>9
  <2>2. CASE Tail(numbers) = <<>>
    <3>1. pc' = "QUIT" /\ Len(numbers') = 0
      BY <1>1, <2>2, Nothing
    <3>2. Len(storage') = Len(listed')
      <4>1. Len(storage') \in Nat
        BY <1>2, <1>7
      <4>2. listed' = drop'
        BY <1>1, <1>9
      <4> QED
        BY <2>1, <3>1, <4>1, <4>2
    <3> QED
      BY <3>1, <3>2 DEF MailsInv
  <2>3. CASE Tail(numbers) # <<>>
    <3>1. pc' = "RETR" /\ numbers' # <<>> /\ listed' = drop'
      BY <1>1, <1>9, <2>3
    <3>2. ASSUME NEW i \in 1 .. Len(numbers') PROVE numbers'[i] = Len(storage') + i
      <4>1. i + 1 \in 1 .. Len(numbers) /\ (k + 1) + i = k + (i + 1)
        BY <1>2, <1>8
      <4>2. numbers'[i] = numbers[i + 1] /\ numbers[i + 1] = k + (i + 1)
        BY <1>8, <1>9, <4>1
      <4> QED
        BY <1>7, <4>1, <4>2
    <3> QED
      BY <2>1, <3>1, <3>2 DEF MailsInv
  <2> QED
    BY <2>2, <2>3
<1>13. InOrder'
  <2>1. DOMAIN storage' = 1 .. k + 1 /\ DOMAIN storage = 1 .. k
    BY <1>7, LenProperties DEF IInv, TypeOK
  <2>2. Len(storage') <= Len(listed')
    BY <1>1, <1>2, <1>7, <1>9
  <2>3. ASSUME NEW i \in DOMAIN storage' PROVE storage'[i] = Shown(listed'[i])
    <3>1. CASE i = k + 1
      BY <1>1, <1>7, <1>9, <3>1 DEF mail
    <3>2. CASE i # k + 1
      <4>1. i \in 1 .. k
        BY <1>2, <2>1, <3>2
      <4>2. storage[i] = Shown(listed[i])
        BY <2>1, <4>1 DEF IInv, InOrder
      <4> QED
        BY <1>1, <1>7, <4>1, <4>2
    <3> QED
      BY <3>1, <3>2
  <2> QED
    BY <2>2, <2>3 DEF InOrder
<1>14. Bounds'
  <2>1. selected \in -1 .. MaxMails - 1 /\ selected < k
    BY DEF IInv, TypeOK, Bounds
  <2>2. selected' < Len(storage')
    BY <1>1, <1>2, <1>7, <2>1, BoundAssumption
  <2> QED
    BY <1>1, <2>2 DEF IInv, Bounds
<1> QED
  BY <1>1, <1>7, <1>10, <1>11, <1>12, <1>13, <1>14 DEF IInv, OkIsComplete, InWindow

LEMMA NextKeeps == IInv /\ [Next]_vars => IInv'
<1> SUFFICES ASSUME IInv, [Next]_vars PROVE IInv'
  OBVIOUS
<1>1. CASE Window
  BY <1>1, SelectKeeps, EmptyFieldsKeeps, GetMailKeeps DEF Window
<1>2. CASE Client
  BY <1>2, LoginKeeps, QuitKeeps, LineKeeps, ListKeeps, RetrKeeps DEF Client
<1>3. CASE Server
  BY <1>3, ServerKeeps, DropKeeps DEF Server
<1>4. CASE UNCHANGED vars
  <2>1. UNCHANGED <<pc, numbers, lines, storage, status, selected, fetches,
                    drop, listed, answer>>
    BY <1>4 DEF vars, clientVars, serverVars
  <2>2. AnswerTo(pc)' = AnswerTo(pc)
    BY <2>1, Zenon DEF AnswerTo
  <2>3. TypeOK' /\ AnswerInv' /\ MailsInv'
    BY <2>1, <2>2 DEF IInv, TypeOK, AnswerInv, MailsInv, Asked, Reading, Refused,
                      InWindow
  <2> QED
    BY <2>1, <2>3 DEF IInv, Bounds, InOrder, OkIsComplete, InWindow
<1> QED
  BY <1>1, <1>2, <1>3, <1>4, ThrowsKeeps DEF Next

-----------------------------------------------------------------------------
(* The theorems.                                                           *)

\* The invariant holds in every state, for any mails and any number of them.
THEOREM Invariance == Spec => []IInv
BY Initially, NextKeeps, PTL DEF Spec

\* Every variable has its type.
THEOREM TypeCorrectness == Spec => []TypeOK
<1>1. IInv => TypeOK
  BY DEF IInv
<1> QED
  BY <1>1, Invariance, PTL

\* pop3_get_mail puts the mails into the storage in the order of the list,
\* each with its headers and its text.
THEOREM MailsInOrder == Spec => []InOrder
<1>1. IInv => InOrder
  BY DEF IInv
<1> QED
  BY <1>1, Invariance, PTL

\* The button reports "OK" only when all mails that were listed are shown.
THEOREM OkCompleteness == Spec => []OkIsComplete
<1>1. IInv => OkIsComplete
  BY DEF IInv
<1> QED
  BY <1>1, Invariance, PTL

\* No step but the button exchanges the mail that is selected.
THEOREM SelectionStays == Spec => ShownStays
<1> DEFINE Stays == selected # -1 /\ selected' = selected =>
        /\ selected < Len(storage')
        /\ storage'[selected + 1] = storage[selected + 1]
<1>1. ASSUME IInv, [Next]_vars PROVE [Stays]_vars
  <2> SUFFICES ASSUME Next, selected # -1, selected' = selected
               PROVE  /\ selected < Len(storage')
                      /\ storage'[selected + 1] = storage[selected + 1]
    BY <1>1
  <2>1. /\ Len(storage) \in Nat /\ selected \in Nat /\ selected < Len(storage)
        /\ selected + 1 \in 1 .. Len(storage)
    BY <1>1, LenProperties DEF IInv, TypeOK, Bounds
  <2>2. CASE storage' = storage
    BY <2>1, <2>2
  <2>3. CASE GetMail
    BY <2>3 DEF GetMail, Cleared
  <2>4. CASE RetrAnswered
    BY <1>1, <2>1, <2>4, RetrKeeps
  <2>5. storage' = storage \/ GetMail \/ RetrAnswered
    BY DEF Next, Window, Select, EmptyFields, Client, LoginAnswered, QuitAnswered,
           ReadsLine, ListAnswered, Throws, Server, ServerAnswers, Arrives,
           Removed, clientVars
  <2> QED
    BY <2>2, <2>3, <2>4, <2>5
<1> QED
  BY <1>1, Invariance, PTL DEF Spec, ShownStays
=============================================================================
