------------------------------- MODULE ImapClient -------------------------------
(***************************************************************************)
(* The IMAP client: logs in, lists the mailboxes, examines each and fetches *)
(* a summary of its mails, with blocking reads, from an external server.   *)
(*                                                                         *)
(* read_multiple_lines ends an answer at the first line that has_status    *)
(* accepts, which need not be the last one, and drops what its buffer      *)
(* holds after it; what has not arrived by then is read as the beginning   *)
(* of the next answer.  `wire' are the lines the server has sent; a read   *)
(* takes as many of them as happen to be there.                            *)
(*                                                                         *)
(* Any line may read like a status: a subject, a sender, a capability, or  *)
(* the name of a mailbox in the answer to LIST, such as "Not ok".          *)
(*                                                                         *)
(* Two fields of a mail stand for the four of the program; the value of a  *)
(* field is the mail it comes from, a mailbox and a number, so that the    *)
(* header lines of one mail are not told apart.                            *)
(***************************************************************************)
EXTENDS Integers, Sequences, SequencesExt, Selection

CONSTANTS
    Listing,        \* the mailboxes in the order of the server
    Quoted,         \* those whose names it puts in quotes
    Misleading,     \* those whose lines in it may read like a status; NoBox
                    \* if the line before the reply to LOGIN may
    Refused,        \* those that cannot be examined
    Headers,        \* the headers that mails have: for each line, what it
                    \* reads like and which fields are found in it
    Held,           \* how many mails each has in the beginning
    MaxMails,       \* bounds the mails of a mailbox
    NoBox           \* no mailbox, and the empty string

Boxes == {Listing[k] : k \in DOMAIN Listing}
Fields == {"from", "subject"}

\* What has_status and is_ok find in a line: no status, one that has an "ok",
\* or one that has none.
Readings == {"none", "ok", "no"}

ASSUME ListingAssumption ==
    /\ Listing \in Seq(Boxes) /\ NoBox \notin Boxes
    /\ Quoted \subseteq Boxes /\ Misleading \subseteq Boxes \cup {NoBox}
    /\ Refused \subseteq Boxes
\* Each field has a line; the line of another field may look like it.
ASSUME HeadersAssumption ==
    \A h \in Headers : /\ h \in Seq([reads : Readings, fields : SUBSET Fields])
                       /\ \A f \in Fields : \E i \in DOMAIN h : f \in h[i].fields
ASSUME HeldAssumption == MaxMails \in Nat /\ Held \in [Boxes -> 0 .. MaxMails]

VARIABLES
    pc,         \* the answer that is waited for, or how the client ended
    lines,      \* what read_multiple_lines has read
    storage,    \* the mailboxes with their mails, as main prints them
    current,    \* the mailbox of `storage' that is being fetched
    exists,     \* how many mails it is said to have
    mails,      \* its mails so far
    lost,       \* a header or a count was dropped, or a line left behind
    wire,       \* lines of the server that were not read
    requests,   \* the commands the server has not answered
    reading,    \* what the line of each mailbox in the listing, and the one
                \* before the reply to LOGIN, reads like
    held,       \* the mails of each mailbox
    examined    \* the mailbox the server has selected

clientVars == <<pc, lines, storage, current, exists, mails, lost>>
serverVars == <<reading, held, examined>>
vars == <<clientVars, wire, requests, serverVars>>

Waits == {"greeting", "LOGIN", "LIST", "EXAMINE", "FETCH", "LOGOUT"}
Ends == {"done", "error", "threw"}

\* A line: its kind, a mailbox, a number, what it reads like, and the fields
\* that are found in it.  "entry" is a quoted name in a LIST.
Line(kind, box, n) ==
    [kind |-> kind, box |-> box, n |-> n, reads |-> "none", fields |-> {}]
Lines == [kind : {"reply", "text", "entry", "exists", "header"},
          box : Boxes \cup {NoBox}, n : 0 .. MaxMails, reads : Readings,
          fields : SUBSET Fields]

Owner == [box : Boxes \cup {NoBox}, n : 0 .. MaxMails]
NoMail == [box |-> NoBox, n |-> 0]
Mail == [Fields -> Owner]
Blank == [f \in Fields |-> NoMail]

TypeOK ==
    /\ pc \in Waits \cup Ends
    /\ lines \in Seq(Lines) /\ wire \in Seq(Lines)
    /\ storage \in Seq([name : Boxes, mails : Seq(Mail)])
    /\ current \in 0 .. Len(storage) + 1
    /\ exists \in 0 .. MaxMails
    /\ mails \in Seq(Mail) /\ Len(mails) <= exists
    /\ lost \in BOOLEAN
    /\ requests \in Seq([verb : Waits, box : Boxes \cup {NoBox}, n : 0 .. MaxMails])
    /\ reading \in [Boxes \cup {NoBox} -> Readings]
    /\ held \in [Boxes -> 0 .. MaxMails]
    /\ examined \in Boxes \cup {NoBox}

Request(verb, box, n) == [verb |-> verb, box |-> box, n |-> n]

Init ==
    /\ pc = "greeting" /\ lines = <<>> /\ storage = <<>> /\ current = 0
    /\ exists = 0 /\ mails = <<>> /\ lost = FALSE
    /\ wire = <<>> /\ requests = <<Request("greeting", NoBox, 0)>>
    /\ reading \in [Boxes \cup {NoBox} -> Readings]
    /\ \A b \in (Boxes \cup {NoBox}) \ Misleading : reading[b] = "none"
    /\ held = Held /\ examined = NoBox

-----------------------------------------------------------------------------
(* Reading.                                                                *)

\* Mutant of HasStatus: only success ends an answer.
IsSuccess(line) == line.reads = "ok"

\* An answer ends with the first line that reads like a status.
HasStatus(line) == line.reads # "none"

\* is_ok of the last line.
IsOk(line) == line.reads = "ok"

\* A read takes the first k lines of the wire, none of them the end.
ReadsMore(k) ==
    /\ pc \in Waits
    /\ \A j \in 1 .. k : ~HasStatus(wire[j])
    /\ lines' = lines \o SubSeq(wire, 1, k)
    /\ wire' = SubSeq(wire, k + 1, Len(wire))
    /\ UNCHANGED <<pc, storage, current, exists, mails, lost, requests,
                   serverVars>>

\* A read takes the first k lines, the j-th is the end: what follows in the
\* buffer is dropped, the rest stays on the wire.
Ended(j, k) ==
    /\ HasStatus(wire[j]) /\ \A i \in 1 .. j - 1 : ~HasStatus(wire[i])
    /\ wire' = SubSeq(wire, k + 1, Len(wire))
    /\ lines' = <<>>
    /\ lost' = \/ lost
               \/ \E i \in j + 1 .. k : wire[i].kind \in {"header", "exists"}
               \/ \E i \in k + 1 .. Len(wire) : wire[i].kind # "exists"

\* The lines of the answer that ends at wire[j].
Answer(j) == lines \o SubSeq(wire, 1, j)

\* Where an answer has lines of one kind.
Places(kind, answer) == {i \in DOMAIN answer : answer[i].kind = kind}

-----------------------------------------------------------------------------
(* What the client does with an answer.                                    *)

Write(verb, box, n) ==
    /\ pc' = verb /\ requests' = Append(requests, Request(verb, box, n))

GoTo(end) == pc' = end /\ UNCHANGED requests

\* The next mailbox, or the end of the loop over them.
NextBox(boxes, at) ==
    /\ current' = at + 1
    /\ exists' = 0 /\ mails' = <<>>
    /\ IF at < Len(boxes) THEN Write("EXAMINE", boxes[at + 1].name, 0)
                          ELSE Write("LOGOUT", NoBox, 0)

Greeted(answer) ==
    /\ pc = "greeting"
    /\ IF IsOk(Last(answer)) THEN Write("LOGIN", NoBox, 0) ELSE GoTo("error")
    /\ UNCHANGED <<storage, current, exists, mails>>

LoggedIn(answer) ==
    /\ pc = "LOGIN"
    /\ IF IsOk(Last(answer)) THEN Write("LIST", NoBox, 0) ELSE GoTo("error")
    /\ UNCHANGED <<storage, current, exists, mails>>

StoreMailboxNames(answer) ==
    LET entries == Selected(answer, {line \in Lines : line.kind = "entry"})
    IN [k \in DOMAIN entries |-> [name |-> entries[k].box, mails |-> <<>>]]

\* Mutant of Listed: the status of the answer is not looked at.
ListedAnyway(answer) ==
    /\ pc = "LIST"
    /\ storage' = StoreMailboxNames(answer) /\ NextBox(storage', 0)

\* The names are stored, and the first mailbox is examined.
Listed(answer) ==
    /\ pc = "LIST"
    /\ IF IsOk(Last(answer))
       THEN storage' = StoreMailboxNames(answer) /\ NextBox(storage', 0)
       ELSE GoTo("error") /\ UNCHANGED <<storage, current, exists, mails>>

\* Mutants of ExistsAmount: the first number counts; all of them do.
FirstAmount(answer) ==
    LET amounts == Places("exists", answer)
    IN IF amounts = {} THEN 0 ELSE answer[Min(amounts)].n
SumOfAmounts(answer) ==
    MapThenSumSet(LAMBDA i : answer[i].n, Places("exists", answer))

\* get_exists_amount: the last one counts.
ExistsAmount(answer) ==
    LET amounts == Places("exists", answer)
    IN IF amounts = {} THEN 0 ELSE answer[Max(amounts)].n

\* An answer to EXAMINE: its status is not looked at.
Examined(answer) ==
    /\ pc = "EXAMINE"
    /\ IF ExistsAmount(answer) = 0
       THEN NextBox(storage, current)
       ELSE /\ exists' = ExistsAmount(answer)
            /\ Write("FETCH", NoBox, 1)
            /\ UNCHANGED <<current, mails>>
    /\ UNCHANGED storage

\* extract_header_summary: of each field the last line it is found in counts.
Summary(answer) ==
    [f \in Fields |->
        LET found == {i \in DOMAIN answer : f \in answer[i].fields}
        IN IF found = {} THEN NoMail
           ELSE LET line == answer[Max(found)]
                IN [box |-> line.box, n |-> line.n]]

\* The mailbox of the storage gets its mails when all were fetched.
Fetched(answer) ==
    /\ pc = "FETCH"
    /\ LET all == Append(mails, Summary(answer))
       IN IF Len(all) < exists
          THEN /\ mails' = all
               /\ Write("FETCH", NoBox, Len(all) + 1)
               /\ UNCHANGED <<storage, current, exists>>
          ELSE /\ storage' = [storage EXCEPT ![current].mails = all]
               /\ NextBox(storage, current)

LoggedOut == pc = "LOGOUT" /\ GoTo("done")
             /\ UNCHANGED <<storage, current, exists, mails>>

\* The end of an answer arrives.
ReadsEnd(k) ==
    \E j \in 1 .. k :
        /\ Ended(j, k)
        /\ \/ Greeted(Answer(j)) \/ LoggedIn(Answer(j)) \/ Listed(Answer(j))
           \/ Examined(Answer(j)) \/ Fetched(Answer(j)) \/ LoggedOut
        /\ UNCHANGED serverVars

\* A read or a write throws: what was fetched is printed all the same.
Throws ==
    /\ pc \in Waits /\ GoTo("threw")
    /\ UNCHANGED <<lines, storage, current, exists, mails, lost, wire,
                   serverVars>>

Reads == \E k \in 1 .. Len(wire) : ReadsMore(k) \/ ReadsEnd(k)

-----------------------------------------------------------------------------
(* The server.                                                             *)

\* A status response, tagged or not.
Reply(reads) == [Line("reply", NoBox, 0) EXCEPT !.reads = reads]

\* The lines of the header of a mail.
Header(box, n, shapes) ==
    [i \in DOMAIN shapes |-> [Line("header", box, n) EXCEPT
                                 !.reads = shapes[i].reads,
                                 !.fields = shapes[i].fields]]

\* The line of a mailbox in the listing, and the one before a reply to LOGIN.
TextLine(box) ==
    [Line(IF box \in Quoted THEN "entry" ELSE "text", box, 0)
        EXCEPT !.reads = reading[box]]

\* What the server may answer.
Answers(r) ==
    CASE r.verb = "greeting" -> {<<Reply("ok")>>, <<Reply("no")>>}
      [] r.verb = "LOGIN" ->
            {<<TextLine(NoBox), Reply("ok")>>, <<Reply("no")>>}
      [] r.verb = "LIST" ->
            {[k \in DOMAIN Listing |-> TextLine(Listing[k])] \o <<Reply("ok")>>,
             <<Reply("no")>>}
      [] r.verb = "EXAMINE" ->
            IF r.box \in Refused THEN {<<Reply("no")>>}
            ELSE LET e == Line("exists", r.box, held[r.box])
                 IN {<<e, Reply("ok"), Reply("ok")>>,
                     <<Reply("ok"), e, Reply("ok")>>}
      [] r.verb = "FETCH" ->
            IF examined = NoBox \/ r.n > held[examined]
            THEN {<<Reply("no")>>}
            ELSE {Header(examined, r.n, shapes) \o <<Reply("ok")>> :
                    shapes \in Headers}
      [] r.verb = "LOGOUT" -> {<<Reply("ok"), Reply("ok")>>}

\* The server answers the commands in their order.
ServerAnswers ==
    /\ pc \in Waits /\ requests # <<>>
    /\ LET r == Head(requests)
       IN /\ \E answer \in Answers(r) : wire' = wire \o answer
          /\ examined' = IF r.verb # "EXAMINE" THEN examined
                         ELSE IF r.box \in Refused THEN NoBox ELSE r.box
    /\ requests' = Tail(requests)
    /\ UNCHANGED <<clientVars, reading, held>>

\* A mail arrives, and the server says so without being asked.
Arrives ==
    /\ pc \in Waits
    /\ examined # NoBox /\ held[examined] < MaxMails
    /\ held' = [held EXCEPT ![examined] = @ + 1]
    /\ wire' = Append(wire, Line("exists", examined, held'[examined]))
    /\ UNCHANGED <<clientVars, requests, reading, examined>>

Next == Reads \/ Throws \/ ServerAnswers \/ Arrives
Spec == Init /\ [][Next]_vars

\* The server answers, and what it sends is read.
FairSpec == Spec /\ WF_vars(Reads) /\ WF_vars(ServerAnswers)

-----------------------------------------------------------------------------
(* Properties.                                                             *)

\* A mail that is shown with the right fields.
Whole(box, n) == [f \in Fields |-> [box |-> box, n |-> n]]

\* What is printed for the k-th mailbox: each of its mails from the first to
\* the last, in its place; of one that could not be examined blanks at most.
ShownWell(k) ==
    LET box == storage[k].name
    IN IF box \in Refused
       THEN \A i \in DOMAIN storage[k].mails : storage[k].mails[i] = Blank
       ELSE /\ storage[k].mails =
                 [i \in 1 .. Len(storage[k].mails) |-> Whole(box, i)]
            /\ Len(storage[k].mails) \in Held[box] .. held[box]

\* Whenever the client ends, the mailboxes it has gone through are shown with
\* all their mails and the others with none: unless a part of an answer was
\* dropped or left for the next one, mails never change places or mailboxes,
\* although new ones arrive meanwhile.
Shown ==
    ~lost => \A k \in DOMAIN storage :
        IF k < current
        THEN ShownWell(k) ELSE storage[k].mails = <<>>

\* The listing up to the first line of it that reads like a status.
Heard ==
    LET ends == {k \in DOMAIN Listing : reading[Listing[k]] # "none"}
    IN IF ends = {} THEN Listing ELSE SubSeq(Listing, 1, Min(ends))

\* Mailboxes are shown as the server lists them, all of those whose names are
\* in quotes and in that order, up to the first whose line reads like a
\* status: no more, no fewer, and none if that line reads like a failure; once
\* the client is through they are shown, unless a line before the reply to
\* LOGIN was taken for it.
AllListed ==
    /\ storage # <<>> =>
        /\ [k \in DOMAIN storage |-> storage[k].name] = Selected(Heard, Quoted)
        /\ reading[Last(Heard)] # "no"
    /\ pc = "done" /\ reading[NoBox] # "ok" /\ Selected(Heard, Quoted) # <<>>
        => storage # <<>>

\* The client ends if the server answers, also when answers were cut short and
\* it reads each of them as the answer to a later command.
Finishes == <>(pc \in Ends)
=============================================================================
