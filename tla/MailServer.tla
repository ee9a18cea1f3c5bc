------------------------------- MODULE MailServer -------------------------------
(***************************************************************************)
(* The mail server: the sessions of the three protocols as coroutines of   *)
(* one io_context, run by one thread, over one mail_storage.  A step is    *)
(* what the thread does for one session between two waits.                 *)
(***************************************************************************)
EXTENDS SmtpSession, Pop3Session, ImapSession

VARIABLE running    \* the io_context has not been stopped

vars == <<drops, smtp, pop3, imap, running>>

Init ==
    /\ StorageInit /\ SmtpInit /\ Pop3Init /\ ImapInit
    /\ running = TRUE

\* The thread sits in the synchronous read_until of read_multiple_lines.
Blocked == \E s \in SmtpSessions : Blocking(s)

\* The io_context runs a handler.
Runs == running /\ ~Blocked

SmtpRuns(s) == Runs /\ SmtpStep(s) /\ UNCHANGED <<pop3, imap, running>>
Unblocks(s) == running /\ SmtpUnblocks(s) /\ UNCHANGED <<pop3, imap, running>>
Pop3Runs(p) == Runs /\ Pop3Step(p) /\ UNCHANGED <<smtp, imap, running>>
ImapRuns(i) == Runs /\ ImapStep(i) /\ UNCHANGED <<smtp, pop3, running>>

\* SIGINT or SIGTERM: a handler of the same io_context.
Stop == Runs /\ running' = FALSE /\ UNCHANGED <<drops, smtp, pop3, imap>>

Next ==
    \/ \E s \in SmtpSessions : SmtpRuns(s) \/ Unblocks(s)
    \/ \E p \in Pop3Sessions : Pop3Runs(p)
    \/ \E i \in ImapSessions : ImapRuns(i)
    \/ Stop

Spec == Init /\ [][Next]_vars

-----------------------------------------------------------------------------
(* Fairness.  The io_context completes a write that its peer takes; it is   *)
(* stopped only by a signal.                                               *)

SmtpWrites(s) == Runs /\ SmtpWritten(s) /\ UNCHANGED <<pop3, imap, running>>
Pop3WriteRuns(p) == Runs /\ Pop3Writes(p) /\ UNCHANGED <<smtp, imap, running>>

WriteFairness ==
    /\ \A s \in SmtpSessions : WF_vars(SmtpWrites(s))
    /\ \A p \in Pop3Sessions : SF_vars(Pop3WriteRuns(p))

\* Every mail that was begun ends, with its last line or with the connection.
MailFairness == \A s \in SmtpSessions : WF_vars(Unblocks(s))

\* Every POP3 client disconnects in the end.
Pop3Leaves(p) == Runs /\ Pop3Throws(p) /\ UNCHANGED <<smtp, imap, running>>
LeaveFairness == \A p \in Pop3Sessions : SF_vars(Pop3Leaves(p))

\* The program alone.
WriteSpec == Spec /\ WriteFairness
\* SMTP clients finish their mails.
FairSpec == WriteSpec /\ MailFairness

-----------------------------------------------------------------------------
(* Properties.                                                             *)

TypeOK ==
    /\ StorageTypeOK /\ SmtpTypeOK /\ Pop3TypeOK /\ ImapTypeOK
    /\ running \in BOOLEAN

\* The POP3 sessions that own the mutex of a maildrop: from the PASS that got
\* it to the end of the coroutine.
InTransaction(p) == pop3[p].pc \in {"transaction", "list", "list_end"}

\* Transaction locking: a session in a transaction owns the mutex of its
\* maildrop, so no two are in one; and a mutex that is owned belongs to a
\* session that still lives, for no path out of a coroutine leaks it.
TransactionLocking ==
    /\ \A p \in Pop3Sessions : InTransaction(p) =>
        pop3[p].user \in DOMAIN drops /\ drops[pop3[p].user].transaction = p
    /\ \A u \in DOMAIN drops : \A p \in Pop3Sessions :
        drops[u].transaction = p =>
            pop3[p].user = u /\ (InTransaction(p) \/ pop3[p].pc = "quit")

\* The mails of u's INBOX that SMTP session s stored.
From(s, u) == {n \in DOMAIN Inbox(u) : Inbox(u)[n].session = s}

\* Every mail whose last line was read, which the reply 250 confirms, is in the
\* INBOX of each of its local recipients; what is in an INBOX is such a mail,
\* once, and for this recipient: of one that was interrupted there is nothing.
\* All maildrops have an INBOX, as the at("INBOX") of POP3 relies on.
Delivery ==
    /\ \A u \in DOMAIN drops : "INBOX" \in DOMAIN drops[u].mails
    /\ \A u \in DOMAIN drops : \A s \in SmtpSessions : \A n \in From(s, u) :
        LET m == Inbox(u)[n]
        IN /\ m.number \in DOMAIN smtp[s].accepted
           /\ m.recipients = smtp[s].accepted[m.number] /\ u \in m.recipients
           /\ \A k \in From(s, u) : k # n => Inbox(u)[k].number # m.number
    /\ \A s \in SmtpSessions : \A i \in DOMAIN smtp[s].accepted :
        \A u \in smtp[s].accepted[i] \cap Local :
            /\ u \in DOMAIN drops
            /\ \E n \in From(s, u) : Inbox(u)[n].number = i

\* The INBOX of a maildrop keeps the order of its mails and loses none, and a
\* maildrop never gets or loses a mailbox while it exists: the iteration of
\* an IMAP LIST, which waits between two elements, stays valid.
MailsKept ==
    [][\A u \in DOMAIN drops :
        /\ u \in DOMAIN drops'
        /\ DOMAIN drops'[u].mails = DOMAIN drops[u].mails
        /\ Len(Inbox(u)) <= Len(Inbox(u)')
        /\ SubSeq(Inbox(u)', 1, Len(Inbox(u))) = Inbox(u)]_vars

\* A mail starts with no recipients: nobody gets a mail because an earlier
\* one of the same connection was for him.
FreshEnvelope ==
    [][\A s \in SmtpSessions :
        smtp[s].pc # "recipients" /\ smtp'[s].pc = "recipients"
            => smtp'[s].recipients = {}]_vars

\* The answer to LIST has an entry for every message its first line counted,
\* and only for messages that exist, though mails arrive while it is written.
ListCovers ==
    \A p \in Pop3Sessions : pop3[p].pc \in {"list", "list_end"} =>
        /\ pop3[p].announced <= Len(Inbox(pop3[p].user))
        /\ pop3[p].sent <= Len(Inbox(pop3[p].user))
        /\ pop3[p].pc = "list_end" => pop3[p].announced <= pop3[p].sent

\* The answer to an IMAP LIST of everything names every mailbox that the user
\* has when it ends.
ListComplete ==
    \A i \in ImapSessions : imap[i].pc = "list_ok" =>
        imap[i].listed = DOMAIN drops[imap[i].user].mails

\* What is begun is answered: no write of a POP3 session waits for ever, the
\* lines of a LIST to which mails are added included, until the server stops.
Answered ==
    \A p \in Pop3Sessions : pop3[p].writing ~> ~pop3[p].writing \/ ~running

Held(u) == u \in DOMAIN drops /\ ~IsFree(u)

\* A maildrop does not stay locked when its client has gone.
Unlocked ==
    LeaveFairness => \A u \in Local : Held(u) ~> ~Held(u) \/ ~running
=============================================================================
