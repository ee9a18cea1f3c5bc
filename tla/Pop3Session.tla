------------------------------ MODULE Pop3Session ------------------------------
(***************************************************************************)
(* pop3_session: one coroutine per connection to the POP3 port.            *)
(*                                                                         *)
(* pc and writing are as in SmtpSession.  In state "list" the lines of a   *)
(* LIST are written, each with a wait of its own: `announced' is the       *)
(* number in the first line, `sent' the entries written so far.  The       *)
(* mutex is owned by try_transaction while the answer to PASS is written   *)
(* and by current_transaction afterwards; both are unlocked when the       *)
(* coroutine ends, however it ends.                                        *)
(***************************************************************************)
EXTENDS MailStorage

VARIABLE pop3

Pop3Pcs == {"absent", "authorization", "transaction", "list", "list_end",
            "quit", "closed"}

Pop3TypeOK ==
    pop3 \in [Pop3Sessions -> [pc : Pop3Pcs, writing : BOOLEAN,
                               user : Addresses \cup {NoUser},
                               announced : Nat, sent : Nat]]

Pop3Init == pop3 = [p \in Pop3Sessions |->
                      [pc |-> "absent", writing |-> FALSE, user |-> NoUser,
                       announced |-> 0, sent |-> 0]]

\* Session p waits for a request in state pc.
Asked(p, pc) == pop3[p].pc = pc /\ ~pop3[p].writing

\* Session p writes a reply and goes to state pc.
Answer(p, pc) == pop3' = [pop3 EXCEPT ![p].pc = pc, ![p].writing = TRUE]

Pop3Accept(p) ==
    /\ pop3[p].pc = "absent"
    /\ Answer(p, "authorization")
    /\ UNCHANGED drops

\* A line has been written.  The loop of LIST compares with the size that the
\* mailbox has now.
Pop3Written(p) ==
    /\ pop3[p].writing /\ pop3[p].pc \in {"authorization", "transaction"}
    /\ pop3' = [pop3 EXCEPT ![p].writing = FALSE]
    /\ UNCHANGED drops

ListEntry(p) ==
    /\ pop3[p].pc = "list" /\ pop3[p].sent < Len(Inbox(pop3[p].user))
    /\ pop3' = [pop3 EXCEPT ![p].sent = @ + 1]
    /\ UNCHANGED drops

\* Mutants of ListEnds: the last message is left out; the end is
\* where the first line said.
ListEndsEarly(p) ==
    /\ pop3[p].pc = "list" /\ pop3[p].sent + 1 >= Len(Inbox(pop3[p].user))
    /\ Answer(p, "list_end")
    /\ UNCHANGED drops
ListEndsAtAnnounced(p) ==
    /\ pop3[p].pc = "list" /\ pop3[p].sent = pop3[p].announced
    /\ Answer(p, "list_end")
    /\ UNCHANGED drops

ListEnds(p) ==
    /\ pop3[p].pc = "list" /\ pop3[p].sent >= Len(Inbox(pop3[p].user))
    /\ Answer(p, "list_end")
    /\ UNCHANGED drops

ListWritten(p) ==
    /\ pop3[p].pc = "list_end"
    /\ pop3' = [pop3 EXCEPT ![p].pc = "transaction", ![p].writing = FALSE,
                            ![p].announced = 0, ![p].sent = 0]
    /\ UNCHANGED drops

\* -ERR, or the one line that LIST with a number is answered with.
Pop3RepliesOnly(p) ==
    /\ \E pc \in {"authorization", "transaction"} :
        Asked(p, pc) /\ Answer(p, pc)
    /\ UNCHANGED drops

\* USER is looked at only once; a name without a maildrop is refused.
User(p, u) ==
    /\ Asked(p, "authorization") /\ pop3[p].user = NoUser
    /\ u \in DOMAIN drops
    /\ pop3' = [pop3 EXCEPT ![p].user = u, ![p].writing = TRUE]
    /\ UNCHANGED drops

\* PASS: the password is not checked.  While another session is in its
\* transaction the request is refused: Pop3RepliesOnly.
Pass(p) ==
    /\ Asked(p, "authorization") /\ pop3[p].user # NoUser
    /\ IsFree(pop3[p].user)
    /\ Lock(pop3[p].user, p)
    /\ Answer(p, "transaction")

List(p) ==
    /\ Asked(p, "transaction")
    /\ pop3' = [pop3 EXCEPT ![p].pc = "list", ![p].writing = TRUE,
                            ![p].announced = Len(Inbox(pop3[p].user))]
    /\ UNCHANGED drops

Pop3Quit(p) ==
    /\ Asked(p, "authorization") \/ Asked(p, "transaction")
    /\ Answer(p, "quit")
    /\ UNCHANGED drops

\* The coroutine ends and its unique_locks are destroyed.
Pop3Ends(p) ==
    /\ pop3' = [pop3 EXCEPT ![p].pc = "closed", ![p].writing = FALSE]
    /\ Unlock(p)

Pop3Closes(p) == pop3[p].pc = "quit" /\ Pop3Ends(p)

\* The peer closed or reset the connection, or the number of a LIST does not
\* fit an int and stoi throws.
Pop3Throws(p) == pop3[p].pc \notin {"absent", "closed"} /\ Pop3Ends(p)

Pop3Writes(p) == Pop3Written(p) \/ ListEntry(p) \/ ListEnds(p)
                 \/ ListWritten(p) \/ Pop3Closes(p)

Pop3Step(p) ==
    \/ Pop3Accept(p) \/ Pop3Writes(p) \/ Pop3RepliesOnly(p)
    \/ (\E u \in Addresses : User(p, u)) \/ Pass(p) \/ List(p) \/ Pop3Quit(p)
    \/ Pop3Throws(p)
=============================================================================
