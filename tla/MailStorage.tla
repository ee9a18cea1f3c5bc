------------------------------ MODULE MailStorage ------------------------------
(***************************************************************************)
(* mail_storage: the maildrops that the SMTP, POP3 and IMAP sessions of    *)
(* the mail server share.  A maildrop has mailboxes and the mutex that a   *)
(* POP3 session holds during its transaction.  write_lock is not modelled: *)
(* it is taken and given back in one step of the only thread.              *)
(*                                                                         *)
(* An address is a model value; Local are those that is_local accepts.  A  *)
(* mail is the SMTP session it came from, its number there and its         *)
(* recipients.                                                             *)
(***************************************************************************)
EXTENDS Integers, Sequences, FiniteSets

CONSTANTS
    SmtpSessions, Pop3Sessions, ImapSessions,
    Local,      \* addresses of this host
    Remote,     \* any other address
    Mailboxes,  \* names of mailboxes, "INBOX" among them
    Mock,       \* the mailboxes of each maildrop that main creates
    MaxMails,   \* bounds the mails of one SMTP session
    NoUser,     \* the empty string of `user'
    Nobody      \* the mutex is free

ASSUME NamesAssumption ==
    /\ Local \cap Remote = {}
    /\ NoUser \notin Local \cup Remote
    /\ Nobody \notin Pop3Sessions \cup SmtpSessions
    /\ "INBOX" \in Mailboxes
ASSUME MockAssumption ==
    /\ DOMAIN Mock \subseteq Local
    /\ \A u \in DOMAIN Mock : Mock[u] \subseteq Mailboxes /\ "INBOX" \in Mock[u]
ASSUME BoundAssumption == MaxMails \in Nat

VARIABLE drops      \* storage->maildrops

Addresses == Local \cup Remote

Mails == [session : SmtpSessions \cup {Nobody}, number : 0 .. MaxMails,
          recipients : SUBSET Addresses]
MockMail == [session |-> Nobody, number |-> 0, recipients |-> {}]

StorageTypeOK ==
    /\ DOMAIN drops \subseteq Local
    /\ \A u \in DOMAIN drops :
        /\ DOMAIN drops[u] = {"mails", "transaction"}
        /\ DOMAIN drops[u].mails \subseteq Mailboxes
        /\ drops[u].mails \in [DOMAIN drops[u].mails -> Seq(Mails)]
        /\ drops[u].transaction \in Pop3Sessions \cup {Nobody}

\* maildrops[u].mails[box], both default-constructed when they are missing.
EmptyDrop == [mails |-> [box \in {} |-> <<>>], transaction |-> Nobody]
DropOf(u) == IF u \in DOMAIN drops THEN drops[u] ELSE EmptyDrop
BoxOf(drop, box) == IF box \in DOMAIN drop.mails THEN drop.mails[box] ELSE <<>>

\* Mutant of PushBack: the newest mail comes first.
PushFront(drop, m) ==
    [drop EXCEPT !.mails =
        [box \in DOMAIN drop.mails \cup {"INBOX"} |->
            IF box = "INBOX" THEN <<m>> \o BoxOf(drop, box)
            ELSE drop.mails[box]]]

\* push_back into the INBOX of a maildrop.
PushBack(drop, m) ==
    [drop EXCEPT !.mails =
        [box \in DOMAIN drop.mails \cup {"INBOX"} |->
            IF box = "INBOX" THEN Append(BoxOf(drop, box), m)
            ELSE drop.mails[box]]]

\* Mutant of StoredFor: remote recipients are not filtered out.
StoredForAll(m) == m.recipients

\* Which recipients a mail is stored for.
StoredFor(m) == m.recipients \cap Local

\* Mutant of Deliver: no maildrop is created.
DeliverKnown(m) ==
    drops' = [u \in DOMAIN drops |->
                IF u \in StoredFor(m) THEN PushBack(drops[u], m) ELSE drops[u]]

\* The loop over the local recipients, under write_lock.
Deliver(m) ==
    drops' = [u \in DOMAIN drops \cup StoredFor(m) |->
                IF u \in StoredFor(m) THEN PushBack(DropOf(u), m) ELSE drops[u]]

Inbox(u) == drops[u].mails["INBOX"]

\* Mutant of IsFree: try_lock's result is not looked at.
SeemsFree(u) == u \in DOMAIN drops

\* try_lock of the transaction mutex, and the destructor of a unique_lock
\* that may own one.
IsFree(u) == drops[u].transaction = Nobody
Lock(u, p) == drops' = [drops EXCEPT ![u].transaction = p]
\* Mutant of Unlock: the mutex is locked without an owner that unlocks it.
UnlockNothing(p) == p \in Pop3Sessions /\ UNCHANGED drops

Unlock(p) ==
    drops' = [u \in DOMAIN drops |->
                IF drops[u].transaction = p
                THEN [drops[u] EXCEPT !.transaction = Nobody] ELSE drops[u]]

StorageInit ==
    drops = [u \in DOMAIN Mock |->
                [mails |-> [box \in Mock[u] |-> <<MockMail>>],
                 transaction |-> Nobody]]
=============================================================================
