------------------------------- MODULE Pop3Client -------------------------------
(***************************************************************************)
(* The POP3 client and its window.  start_gui draws the window and calls   *)
(* pop3_get_mail, which logs in, lists and retrieves all mails with        *)
(* blocking reads: until it returns the window does nothing.  The server   *)
(* is external; a maildrop is the same during a session, and mails arrive  *)
(* between sessions.                                                       *)
(*                                                                         *)
(* A line is a kind and, in an answer to LIST, a number.  `text' is a line *)
(* of a mail, `dot' one that begins with a dot, which the protocol doubles *)
(* (`dots'); a mail is a member of Mails, a sequence of kinds.             *)
(***************************************************************************)
EXTENDS Integers, Sequences, FiniteSets, FiniteSetsExt, Selection

CONSTANTS
    Mails,          \* mails as their sequences of lines
    MaxMails,       \* bounds the mails in the maildrop
    MaxFetches,     \* bounds the use of the button
    Refuses         \* what the server may answer with -ERR

Requests == {"greeting", "USER", "PASS", "LIST", "RETR", "QUIT"}
Kinds == {"header", "blank", "text", "dot"}
Messages == {"", "Empty fields!", "OK", "error"}

ASSUME MailsAssumption == Mails \subseteq Seq(Kinds)
ASSUME BoundAssumption == MaxMails \in Nat /\ MaxFetches \in Nat
ASSUME RefusesAssumption == Refuses \subseteq Requests

VARIABLES
    pc,         \* "window", or the answer that is waited for
    numbers,    \* message_numbers that are still to be retrieved
    lines,      \* what read_multiline has read
    storage,    \* the mails the window shows
    status,     \* fetch_status_message
    selected,   \* the row that is selected, -1 when none is
    fetches,    \* how often the button was used
    drop,       \* the maildrop of the server
    listed,     \* the mails in the answer to LIST
    answer      \* lines of the server on their way

clientVars == <<numbers, lines, storage, status, selected, fetches>>
serverVars == <<drop, listed, answer>>
vars == <<pc, clientVars, serverVars>>

Line(kind, n) == [kind |-> kind, n |-> n]
Ok == Line("ok", 0)
Err == Line("err", 0)
Dot == Line("end", 0)
Lines == [kind : Kinds \cup {"ok", "err", "end", "dots", "entry"},
          n : 0 .. MaxMails]

TypeOK ==
    /\ pc \in Requests \cup {"window"}
    /\ numbers \in Seq(1 .. MaxMails) /\ lines \in Seq(Lines)
    /\ storage \in Seq([headers : Nat, body : Seq(Lines)])
    /\ status \in Messages
    /\ selected \in -1 .. MaxMails - 1
    /\ fetches \in 0 .. MaxFetches
    /\ drop \in Seq(Mails) /\ listed \in Seq(Mails) /\ answer \in Seq(Lines)

Init ==
    /\ pc = "window" /\ numbers = <<>> /\ lines = <<>> /\ storage = <<>>
    /\ status = "" /\ selected = -1 /\ fetches = 0
    /\ drop = <<>> /\ listed = <<>> /\ answer = <<>>

-----------------------------------------------------------------------------
(* parse_message.                                                          *)

Blanks(message) == {k \in DOMAIN message : message[k].kind = "blank"}

\* Mutant of BodyStart: the blank line is a part of the body.
BodyStartAtBlank(message) ==
    IF Blanks(message) = {} THEN 1 ELSE Min(Blanks(message))

\* body_start: the line after the first blank one, else the first of all.
BodyStart(message) ==
    IF Blanks(message) = {} THEN 1 ELSE Min(Blanks(message)) + 1

\* The lines up to the body that look like headers, and the body up to the
\* line that ends the answer.
ParseMessage(message) ==
    [headers |-> Cardinality({k \in DOMAIN message :
                    /\ message[k].kind = "header"
                    /\ \A j \in Blanks(message) : k < j}),
     body |-> SubSeq(message, BodyStart(message), Len(message) - 1)]

-----------------------------------------------------------------------------
(* The window.                                                             *)

InWindow == pc = "window"

Select(row) ==
    /\ InWindow /\ row \in 0 .. Len(storage) - 1
    /\ selected' = row
    /\ UNCHANGED <<pc, numbers, lines, storage, status, fetches, serverVars>>

EmptyFields ==
    /\ InWindow /\ status' = "Empty fields!"
    /\ UNCHANGED <<pc, numbers, lines, storage, selected, fetches, serverVars>>

\* Mutants of Cleared: the old mails stay; the selection stays.
ClearedNot == selected' = -1 /\ UNCHANGED storage
ClearedOnly == storage' = <<>> /\ UNCHANGED selected

\* What the button does before it calls the client.
Cleared == storage' = <<>> /\ selected' = -1

GetMail ==
    /\ InWindow /\ fetches < MaxFetches
    /\ status' = "" /\ Cleared
    /\ pc' = "greeting" /\ fetches' = fetches + 1
    /\ numbers' = <<>> /\ lines' = <<>>
    /\ answer' = <<>> /\ listed' = <<>>
    /\ UNCHANGED drop

-----------------------------------------------------------------------------
(* The client: one answer at a time.                                       *)

\* read_data takes the answer to `request', which is one line.
ReadsData(request, line) ==
    /\ pc = request /\ answer # <<>>
    /\ line = Head(answer) /\ answer' = <<>>
    /\ UNCHANGED <<lines, selected, fetches, drop, listed>>

\* The state after an answer, in the order of the program.
Following == [greeting |-> "USER", USER |-> "PASS", PASS |-> "LIST"]

\* Mutant of AfterRefusal: the request is sent once more.
SameRequest(request) == request

\* A greeting or a login that is refused.
AfterRefusal(request) == "QUIT"

LoginAnswered(request) ==
    /\ \E line \in Lines :
        /\ ReadsData(request, line)
        /\ pc' = IF line.kind = "ok" THEN Following[request]
                  ELSE AfterRefusal(request)
    /\ UNCHANGED <<numbers, storage, status>>

QuitAnswered ==
    /\ \E line \in Lines : ReadsData("QUIT", line)
    /\ pc' = "window" /\ status' = "OK"
    /\ UNCHANGED <<numbers, storage>>

\* read_multiline takes a line that is not its last one.
ReadsLine ==
    /\ pc \in {"LIST", "RETR"} /\ answer # <<>> /\ Head(answer) # Dot
    /\ lines' = Append(lines, Head(answer)) /\ answer' = Tail(answer)
    /\ UNCHANGED <<pc, numbers, storage, status, selected, fetches,
                   drop, listed>>

\* The line "." ends the answer to `request'.
EndsAnswer(request) ==
    /\ pc = request /\ answer # <<>> /\ Head(answer) = Dot
    /\ answer' = Tail(answer) /\ lines' = <<>>
    /\ UNCHANGED <<status, selected, fetches, drop, listed>>

\* Mutant of Onward: the last number is forgotten.
OnwardButOne(left) ==
    /\ numbers' = left
    /\ pc' = IF Len(left) <= 1 THEN "QUIT" ELSE "RETR"

\* Retrieve the first of the numbers that are left, else quit.
Onward(left) ==
    /\ numbers' = left
    /\ pc' = IF left = <<>> THEN "QUIT" ELSE "RETR"

\* Mutant of Entries: the first line of the answer has numbers, too.
Numbered == {line \in Lines : line.kind \in {"entry", "ok"}}

\* The lines that have the form of two numbers.
Entries == {line \in Lines : line.kind = "entry"}

ListAnswered ==
    /\ EndsAnswer("LIST")
    /\ LET entries == Selected(lines, Entries)
       IN Onward([k \in DOMAIN entries |-> entries[k].n])
    /\ UNCHANGED storage

RetrAnswered ==
    /\ EndsAnswer("RETR")
    /\ storage' = Append(storage, ParseMessage(Append(lines, Dot)))
    /\ Onward(Tail(numbers))

\* Connecting, the TLS handshake, a read or a write throws.
Throws ==
    /\ ~InWindow
    /\ pc' = "window" /\ status' = "error" /\ answer' = <<>>
    /\ UNCHANGED <<numbers, lines, storage, selected, fetches, drop, listed>>

Client ==
    \/ (\E r \in DOMAIN Following : LoginAnswered(r)) \/ QuitAnswered
    \/ ReadsLine \/ ListAnswered \/ RetrAnswered

-----------------------------------------------------------------------------
(* The server: answers the request the client has written.                 *)

\* The dot at the beginning of a line is doubled.
Sent(mail) ==
    [k \in DOMAIN mail |-> Line(IF mail[k] = "dot" THEN "dots" ELSE mail[k], 0)]

AnswerTo(request) ==
    CASE request = "LIST" ->
            <<Ok>> \o [n \in DOMAIN drop |-> Line("entry", n)] \o <<Dot>>
      [] request = "RETR" -> <<Ok>> \o Sent(drop[Head(numbers)]) \o <<Dot>>
      [] OTHER -> <<Ok>>

ServerAnswers ==
    /\ ~InWindow /\ answer = <<>> /\ lines = <<>>
    /\ \/ /\ answer' = AnswerTo(pc)
          /\ listed' = IF pc = "LIST" THEN drop ELSE listed
       \/ /\ pc \in Refuses /\ answer' = <<Err>>
          /\ UNCHANGED listed
    /\ UNCHANGED <<pc, clientVars, drop>>

Arrives(mail) ==
    /\ InWindow /\ Len(drop) < MaxMails
    /\ drop' = Append(drop, mail)
    /\ UNCHANGED <<pc, clientVars, listed, answer>>

\* Somebody else removes a mail.
Removed ==
    /\ InWindow /\ drop # <<>>
    /\ drop' = Tail(drop)
    /\ UNCHANGED <<pc, clientVars, listed, answer>>

Window == (\E row \in 0 .. MaxMails - 1 : Select(row)) \/ EmptyFields \/ GetMail
Server == ServerAnswers \/ (\E mail \in Mails : Arrives(mail)) \/ Removed

Next == Window \/ Client \/ Throws \/ Server
Spec == Init /\ [][Next]_vars

\* The server answers; what it has sent is read.
FairSpec == Spec /\ WF_vars(Client) /\ WF_vars(ServerAnswers)

-----------------------------------------------------------------------------
(* Properties.                                                             *)

\* A mail as the window should show it: its headers are before the first blank
\* line and its text is after it.  Where there is none the whole answer is the
\* text; dots stay doubled.
Shown(mail) ==
    LET ends == {k \in DOMAIN mail : mail[k] = "blank"}
    IN IF ends = {}
       THEN [headers |-> Len(Selected(mail, {"header"})),
             body |-> <<Ok>> \o Sent(mail)]
       ELSE [headers |-> Len(Selected(SubSeq(mail, 1, Min(ends)), {"header"})),
             body |-> SubSeq(Sent(mail), Min(ends) + 1, Len(mail))]

\* The mails of the window are the first of those that the server listed in
\* this fetch, in order, each with its own headers and text: none of an
\* earlier fetch, none twice, none cut.
InOrder ==
    /\ Len(storage) <= Len(listed)
    /\ \A k \in DOMAIN storage : storage[k] = Shown(listed[k])

\* The status "OK" means that all mails the server listed are in the window.
\* (When the login is refused it lists none, and the status is "OK" too.)
OkIsComplete == InWindow /\ status = "OK" => Len(storage) = Len(listed)

\* The mail whose text is shown is the one that was selected, until another
\* is: a fetch never puts a different one in its place.
ShownStays ==
    [][selected # -1 /\ selected' = selected =>
        /\ selected < Len(storage')
        /\ storage'[selected + 1] = storage[selected + 1]]_vars

\* The answer to LIST or RETR was -ERR: the client waits for a line ".".
Hangs == pc \in {"LIST", "RETR"} /\ lines # <<>> /\ lines[1] = Err

\* The window comes back if the server answers, unless it refuses to list or
\* to retrieve.
WindowReturns == ~InWindow ~> InWindow \/ Hangs
=============================================================================
