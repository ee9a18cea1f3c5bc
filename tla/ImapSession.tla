------------------------------ MODULE ImapSession ------------------------------
(***************************************************************************)
(* imap_session: one coroutine per connection to the IMAP port.            *)
(*                                                                         *)
(* pc and writing are as in SmtpSession.  A LIST of "*" iterates over the  *)
(* live map of mailboxes and waits after each one; `listed' are those it   *)
(* has written.                                                            *)
(***************************************************************************)
EXTENDS MailStorage

VARIABLE imap

ImapPcs == {"absent", "unauthenticated", "authenticated", "list", "list_ok",
            "quit", "closed"}

ImapTypeOK ==
    imap \in [ImapSessions -> [pc : ImapPcs, writing : BOOLEAN,
                               user : Addresses \cup {NoUser},
                               listed : SUBSET Mailboxes]]

ImapInit == imap = [i \in ImapSessions |->
                      [pc |-> "absent", writing |-> FALSE, user |-> NoUser,
                       listed |-> {}]]

\* Session i waits for a request in state pc.
Awaits(i, pc) == imap[i].pc = pc /\ ~imap[i].writing

\* Session i writes a reply and goes to state pc.
Respond(i, pc) == imap' = [imap EXCEPT ![i].pc = pc, ![i].writing = TRUE]

ImapAccept(i) ==
    /\ imap[i].pc = "absent"
    /\ Respond(i, "unauthenticated")
    /\ UNCHANGED drops

ImapWritten(i) ==
    /\ imap[i].writing /\ imap[i].pc \in {"unauthenticated", "authenticated"}
    /\ imap' = [imap EXCEPT ![i].writing = FALSE]
    /\ UNCHANGED drops

\* NO and BAD, and the replies to a LIST of one name or of a reference that is
\* not the root: OK, after at most one line.
ImapRepliesOnly(i) ==
    /\ \E pc \in {"unauthenticated", "authenticated"} :
        Awaits(i, pc) /\ Respond(i, pc)
    /\ UNCHANGED drops

Login(i, u) ==
    /\ Awaits(i, "unauthenticated") /\ u \in DOMAIN drops
    /\ imap' = [imap EXCEPT ![i].user = u, ![i].pc = "authenticated",
                            ![i].writing = TRUE]
    /\ UNCHANGED drops

\* Mutant of Unlisted: the iteration ends after its first element.
UnlistedOnce(i) ==
    IF imap[i].listed = {} THEN DOMAIN drops[imap[i].user].mails ELSE {}

\* The mailboxes the iteration has not reached.
Unlisted(i) == DOMAIN drops[imap[i].user].mails \ imap[i].listed

\* LIST "*" begins, or goes on after a line: the next mailbox, if any.
ListStar(i) ==
    /\ Awaits(i, "authenticated") \/ imap[i].pc = "list"
    /\ \E box \in Unlisted(i) :
        imap' = [imap EXCEPT ![i].pc = "list", ![i].writing = TRUE,
                             ![i].listed = @ \cup {box}]
    /\ UNCHANGED drops

ListStarEnds(i) ==
    /\ Awaits(i, "authenticated") \/ imap[i].pc = "list"
    /\ Unlisted(i) = {}
    /\ Respond(i, "list_ok")
    /\ UNCHANGED drops

ListStarWritten(i) ==
    /\ imap[i].pc = "list_ok"
    /\ imap' = [imap EXCEPT ![i].pc = "authenticated", ![i].writing = FALSE,
                            ![i].listed = {}]
    /\ UNCHANGED drops

Logout(i) ==
    /\ Awaits(i, "unauthenticated") \/ Awaits(i, "authenticated")
    /\ Respond(i, "quit")
    /\ UNCHANGED drops

ImapEnds(i) ==
    /\ imap' = [imap EXCEPT ![i].pc = "closed", ![i].writing = FALSE]
    /\ UNCHANGED drops

ImapCloses(i) == imap[i].pc = "quit" /\ ImapEnds(i)

\* The peer closed or reset the connection.
ImapThrows(i) == imap[i].pc \notin {"absent", "closed"} /\ ImapEnds(i)

ImapStep(i) ==
    \/ ImapAccept(i) \/ ImapWritten(i) \/ ImapRepliesOnly(i)
    \/ (\E u \in Addresses : Login(i, u)) \/ ListStar(i) \/ ListStarEnds(i)
    \/ ListStarWritten(i) \/ Logout(i) \/ ImapCloses(i) \/ ImapThrows(i)
=============================================================================
