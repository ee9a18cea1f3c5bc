------------------------------ MODULE SmtpSession ------------------------------
(***************************************************************************)
(* smtp_session: one coroutine per connection to the SMTP port.            *)
(*                                                                         *)
(* pc is the session_state; while `writing' holds the session waits for a  *)
(* reply to be written and pc is the state it will be in afterwards,       *)
(* otherwise it waits for a request.  In state "data" it waits for the     *)
(* lines of the mail in a synchronous read_until: see Blocking.            *)
(* `accepted' is a history, which the program does not keep: the           *)
(* recipients of each mail whose last line the session has read.           *)
(***************************************************************************)
EXTENDS MailStorage

VARIABLE smtp

SmtpPcs == {"absent", "wait_helo", "init_transaction", "recipients", "data",
            "quit", "closed"}

SmtpTypeOK ==
    smtp \in [SmtpSessions -> [pc : SmtpPcs, writing : BOOLEAN,
                               recipients : SUBSET Addresses,
                               accepted : Seq(SUBSET Addresses)]]

SmtpInit == smtp = [s \in SmtpSessions |->
                      [pc |-> "absent", writing |-> FALSE, recipients |-> {},
                       accepted |-> <<>>]]

\* The only thread of the server waits for a line of this peer.
Blocking(s) == smtp[s].pc = "data" /\ ~smtp[s].writing

\* Session s waits for a request in one of the given states.
Requested(s, pcs) == smtp[s].pc \in pcs /\ ~smtp[s].writing

\* Session s writes a reply and goes to state pc with the given recipients.
Reply(s, pc, recipients) ==
    smtp' = [smtp EXCEPT ![s].pc = pc, ![s].recipients = recipients,
                         ![s].writing = TRUE]

\* Mutant of Kept: current_mail is not reset.
KeptAlways(s) == smtp[s].recipients

\* In init_transaction every request resets current_mail before it is looked
\* at; in the other states nothing but the command does.
Kept(s) == IF smtp[s].pc = "init_transaction" THEN {} ELSE smtp[s].recipients

SmtpAccept(s) ==
    /\ smtp[s].pc = "absent"
    /\ Reply(s, "wait_helo", {})
    /\ UNCHANGED drops

SmtpWritten(s) ==
    /\ smtp[s].writing
    /\ smtp' = [smtp EXCEPT ![s].writing = FALSE,
                            ![s].pc = IF @ = "quit" THEN "closed" ELSE @]
    /\ UNCHANGED drops

\* 500, 501, 503, or a second HELO: the state stays.
SmtpRepliesOnly(s) ==
    /\ Requested(s, {"wait_helo", "init_transaction", "recipients"})
    /\ Reply(s, smtp[s].pc, Kept(s))
    /\ UNCHANGED drops

Helo(s) ==
    /\ Requested(s, {"wait_helo"})
    /\ Reply(s, "init_transaction", Kept(s))
    /\ UNCHANGED drops

MailFrom(s) ==
    /\ Requested(s, {"init_transaction"})
    /\ Reply(s, "recipients", Kept(s))
    /\ UNCHANGED drops

RcptTo(s, u) ==
    /\ Requested(s, {"recipients"})
    /\ Reply(s, "recipients", smtp[s].recipients \cup {u})
    /\ UNCHANGED drops

Data(s) ==
    /\ Requested(s, {"recipients"}) /\ smtp[s].recipients # {}
    /\ Len(smtp[s].accepted) < MaxMails
    /\ Reply(s, "data", smtp[s].recipients)
    /\ UNCHANGED drops

\* The line "." arrived: the mail is stored, then acknowledged.
Message(s) ==
    /\ Blocking(s)
    /\ Deliver([session |-> s, number |-> Len(smtp[s].accepted) + 1,
                recipients |-> smtp[s].recipients])
    /\ smtp' = [smtp EXCEPT ![s].pc = "init_transaction", ![s].writing = TRUE,
                            ![s].accepted = Append(@, smtp[s].recipients)]

\* QUIT is taken alike in the three states; 221 is what the state quit writes.
SmtpQuit(s) ==
    /\ Requested(s, {"wait_helo", "init_transaction", "recipients"})
    /\ Reply(s, "quit", Kept(s))
    /\ UNCHANGED drops

\* The peer closed or reset the connection: a read or a write throws.
SmtpThrows(s) ==
    /\ smtp[s].pc \notin {"absent", "closed"}
    /\ smtp' = [smtp EXCEPT ![s].pc = "closed", ![s].writing = FALSE]
    /\ UNCHANGED drops

\* Steps of a session that does not block the thread.
SmtpStep(s) ==
    \/ SmtpAccept(s) \/ SmtpWritten(s) \/ SmtpRepliesOnly(s) \/ Helo(s)
    \/ MailFrom(s) \/ (\E u \in Addresses : RcptTo(s, u)) \/ Data(s)
    \/ SmtpQuit(s) \/ SmtpThrows(s)

\* How a session that blocks the thread goes on.
SmtpUnblocks(s) == Blocking(s) /\ (Message(s) \/ SmtpThrows(s))
=============================================================================
