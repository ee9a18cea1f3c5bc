--------------------------- MODULE MailServerProofs ---------------------------
(***************************************************************************)
(* IInv is an invariant of the mail server, for any number of sessions,    *)
(* addresses and mails; the safety properties of MailServer follow.        *)
(*                                                                         *)
(* A step is one of a few kinds: a mail is delivered, a mutex is taken or  *)
(* given back, or the storage stays as it is.                              *)
(***************************************************************************)
EXTENDS MailServer, SequenceTheorems, TLAPS

\* Every maildrop has an INBOX.
HasInbox == \A u \in DOMAIN drops : "INBOX" \in DOMAIN drops[u].mails

\* What holds of one POP3 session: its user has a maildrop, it owns the mutex of
\* that maildrop during its transaction and no other, and a LIST that is being
\* written has announced and sent no more than the INBOX has.
Pop3SessionInv(p) ==
    /\ pop3[p].user \in DOMAIN drops \cup {NoUser}
    /\ pop3[p].pc \in {"absent", "authorization", "transaction"} =>
        pop3[p].sent = 0
    /\ InTransaction(p) =>
        pop3[p].user \in DOMAIN drops /\ drops[pop3[p].user].transaction = p
    /\ \A u \in DOMAIN drops : drops[u].transaction = p =>
        pop3[p].user = u /\ (InTransaction(p) \/ pop3[p].pc = "quit")
    /\ pop3[p].pc \in {"list", "list_end"} =>
        /\ pop3[p].announced <= Len(Inbox(pop3[p].user))
        /\ pop3[p].sent <= Len(Inbox(pop3[p].user))
        /\ pop3[p].pc = "list_end" => pop3[p].announced <= pop3[p].sent

\* What holds of one IMAP session: after LOGIN its user has a maildrop, and a
\* LIST names mailboxes of that maildrop, all of them when it ends.
ImapSessionInv(i) ==
    /\ imap[i].pc \in {"authenticated", "list", "list_ok"} =>
        imap[i].user \in DOMAIN drops
    /\ imap[i].pc \in {"absent", "unauthenticated", "authenticated"} =>
        imap[i].listed = {}
    /\ imap[i].pc = "list" =>
        imap[i].listed \subseteq DOMAIN drops[imap[i].user].mails
    /\ imap[i].pc = "list_ok" =>
        imap[i].listed = DOMAIN drops[imap[i].user].mails

\* The mail that DATA has begun has a number left.
SmtpInv ==
    /\ SmtpTypeOK
    /\ \A s \in SmtpSessions :
        smtp[s].pc = "data" => Len(smtp[s].accepted) < MaxMails

StorageInv == StorageTypeOK /\ HasInbox
Pop3Inv == Pop3TypeOK /\ \A p \in Pop3Sessions : Pop3SessionInv(p)
ImapInv == ImapTypeOK /\ \A i \in ImapSessions : ImapSessionInv(i)

IInv ==
    /\ StorageInv /\ SmtpInv /\ Delivery /\ Pop3Inv /\ ImapInv
    /\ running \in BOOLEAN

\* Maildrops stay, with their mailboxes and with the mails of their INBOX.
Grows ==
    \A u \in DOMAIN drops :
        /\ u \in DOMAIN drops'
        /\ DOMAIN drops'[u].mails = DOMAIN drops[u].mails
        /\ Len(Inbox(u)) <= Len(Inbox(u)')
        /\ SubSeq(Inbox(u)', 1, Len(Inbox(u))) = Inbox(u)

\* Session p owns after the step the mutexes it owned before.
SameLocks(p) ==
    \A u \in DOMAIN drops' :
        drops'[u].transaction = p <=>
            u \in DOMAIN drops /\ drops[u].transaction = p

-----------------------------------------------------------------------------
(* The storage.                                                            *)

\* What a delivery does to the maildrops: those of the local recipients get
\* the mail at the end of their INBOX, or are created with it.
LEMMA DeliverFacts ==
    ASSUME StorageInv, NEW m \in Mails, Deliver(m)
    PROVE  /\ DOMAIN drops' = DOMAIN drops \cup StoredFor(m)
           /\ StorageInv'
           /\ \A u \in DOMAIN drops' :
                IF u \in DOMAIN drops
                THEN /\ drops'[u].transaction = drops[u].transaction
                     /\ DOMAIN drops'[u].mails = DOMAIN drops[u].mails
                     /\ Inbox(u)' = IF u \in StoredFor(m)
                                    THEN Append(Inbox(u), m) ELSE Inbox(u)
                ELSE /\ drops'[u].transaction = Nobody
                     /\ u \in StoredFor(m)
                     /\ Inbox(u)' = <<m>>
<1>1. /\ DOMAIN drops' = DOMAIN drops \cup StoredFor(m)
      /\ \A u \in DOMAIN drops' :
            drops'[u] = IF u \in StoredFor(m) THEN PushBack(DropOf(u), m)
                        ELSE drops[u]
  BY DEF Deliver
<1>2. ASSUME NEW drop, DOMAIN drop = {"mails", "transaction"}
      PROVE  /\ DOMAIN PushBack(drop, m) = {"mails", "transaction"}
             /\ PushBack(drop, m).transaction = drop.transaction
             /\ DOMAIN PushBack(drop, m).mails = DOMAIN drop.mails \cup {"INBOX"}
             /\ PushBack(drop, m).mails =
                    [box \in DOMAIN drop.mails \cup {"INBOX"} |->
                        IF box = "INBOX" THEN Append(BoxOf(drop, box), m)
                        ELSE drop.mails[box]]
  BY <1>2 DEF PushBack
<1>3. ASSUME NEW u \in DOMAIN drops
      PROVE  /\ DOMAIN drops'[u] = {"mails", "transaction"}
             /\ drops'[u].transaction = drops[u].transaction
             /\ DOMAIN drops'[u].mails = DOMAIN drops[u].mails
             /\ Inbox(u)' = IF u \in StoredFor(m)
                            THEN Append(Inbox(u), m) ELSE Inbox(u)
             /\ drops'[u].mails \in [DOMAIN drops'[u].mails -> Seq(Mails)]
  <2>1. /\ DOMAIN drops[u] = {"mails", "transaction"}
        /\ "INBOX" \in DOMAIN drops[u].mails
        /\ drops[u].mails \in [DOMAIN drops[u].mails -> Seq(Mails)]
    BY DEF StorageInv, StorageTypeOK, HasInbox
  <2>2. CASE u \notin StoredFor(m)
    BY <1>1, <2>1, <2>2 DEF Inbox
  <2>3. CASE u \in StoredFor(m)
    <3>1. drops'[u] = PushBack(drops[u], m)
      BY <1>1, <2>3 DEF DropOf
    <3>2. BoxOf(drops[u], "INBOX") = Inbox(u) /\ Inbox(u) \in Seq(Mails)
      BY <2>1 DEF BoxOf, Inbox
    <3>3. Append(Inbox(u), m) \in Seq(Mails)
      BY <3>2, AppendProperties
    <3>4. /\ DOMAIN drops'[u] = {"mails", "transaction"}
          /\ drops'[u].transaction = drops[u].transaction
          /\ drops'[u].mails =
                [box \in DOMAIN drops[u].mails |->
                    IF box = "INBOX" THEN Append(BoxOf(drops[u], box), m)
                    ELSE drops[u].mails[box]]
      <4>1. DOMAIN drops[u].mails \cup {"INBOX"} = DOMAIN drops[u].mails
        BY <2>1
      <4> QED
        BY <1>2, <2>1, <3>1, <4>1
    <3>5. Inbox(u)' = Append(Inbox(u), m)
      BY <2>1, <3>2, <3>4 DEF Inbox
    <3>6. drops'[u].mails \in [DOMAIN drops[u].mails -> Seq(Mails)]
      BY <2>1, <3>2, <3>3, <3>4
    <3> QED
      BY <2>3, <3>4, <3>5, <3>6
  <2> QED
    BY <2>2, <2>3
<1>4. ASSUME NEW u \in DOMAIN drops', u \notin DOMAIN drops
      PROVE  /\ DOMAIN drops'[u] = {"mails", "transaction"}
             /\ drops'[u].transaction = Nobody /\ u \in StoredFor(m)
             /\ DOMAIN drops'[u].mails = {"INBOX"}
             /\ Inbox(u)' = <<m>>
             /\ drops'[u].mails \in [DOMAIN drops'[u].mails -> Seq(Mails)]
  <2>1. u \in StoredFor(m) /\ drops'[u] = PushBack(EmptyDrop, m)
    BY <1>1, <1>4 DEF DropOf
  <2>2. /\ DOMAIN EmptyDrop = {"mails", "transaction"}
        /\ DOMAIN EmptyDrop.mails = {} /\ EmptyDrop.transaction = Nobody
        /\ BoxOf(EmptyDrop, "INBOX") = <<>>
    BY DEF EmptyDrop, BoxOf
  <2>3. /\ DOMAIN drops'[u] = {"mails", "transaction"}
        /\ drops'[u].transaction = Nobody
        /\ drops'[u].mails =
                [box \in {"INBOX"} |->
                    IF box = "INBOX" THEN Append(BoxOf(EmptyDrop, box), m)
                    ELSE EmptyDrop.mails[box]]
    <3>1. DOMAIN EmptyDrop.mails \cup {"INBOX"} = {"INBOX"}
      BY <2>2
    <3> QED
      BY <1>2, <2>1, <2>2, <3>1
  <2>4. Append(<<>>, m) = <<m>> /\ <<m>> \in Seq(Mails)
    OBVIOUS
  <2>5. Inbox(u)' = <<m>>
    BY <2>2, <2>3, <2>4 DEF Inbox
  <2>6. drops'[u].mails \in [{"INBOX"} -> Seq(Mails)]
    BY <2>2, <2>3, <2>4
  <2> QED
    BY <2>1, <2>3, <2>5, <2>6
<1>5. StorageInv'
  <2>1. DOMAIN drops' \subseteq Local
    BY <1>1 DEF StoredFor, StorageInv, StorageTypeOK
  <2>2. ASSUME NEW u \in DOMAIN drops'
        PROVE  /\ DOMAIN drops'[u] = {"mails", "transaction"}
               /\ DOMAIN drops'[u].mails \subseteq Mailboxes
               /\ drops'[u].mails \in [DOMAIN drops'[u].mails -> Seq(Mails)]
               /\ drops'[u].transaction \in Pop3Sessions \cup {Nobody}
               /\ "INBOX" \in DOMAIN drops'[u].mails
    BY <1>3, <1>4, NamesAssumption DEF StorageInv, StorageTypeOK, HasInbox
  <2> QED
    BY <2>1, <2>2 DEF StorageInv, StorageTypeOK, HasInbox
<1> QED
  BY <1>1, <1>3, <1>4, <1>5

\* The mutexes are all that changes when they are taken and given back.
LEMMA MutexFacts ==
    ASSUME StorageInv, NEW p \in Pop3Sessions,
           Unlock(p) \/ \E u \in DOMAIN drops : Lock(u, p)
    PROVE  /\ StorageInv' /\ DOMAIN drops' = DOMAIN drops
           /\ \A u \in DOMAIN drops : drops'[u].mails = drops[u].mails
<1>1. CASE Unlock(p)
  BY <1>1 DEF Unlock, StorageInv, StorageTypeOK, HasInbox
<1>2. ASSUME NEW u \in DOMAIN drops, Lock(u, p)
      PROVE  /\ StorageInv' /\ DOMAIN drops' = DOMAIN drops
             /\ \A v \in DOMAIN drops : drops'[v].mails = drops[v].mails
  BY <1>2 DEF Lock, StorageInv, StorageTypeOK, HasInbox
<1> QED
  BY <1>1, <1>2

\* The number of mails in an INBOX is a number.
LEMMA InboxFacts ==
    ASSUME StorageInv, NEW u \in DOMAIN drops
    PROVE  Inbox(u) \in Seq(Mails) /\ Len(Inbox(u)) \in Nat
BY LenProperties DEF StorageInv, StorageTypeOK, HasInbox, Inbox

\* A step of the storage, whichever it is, keeps the mails; one that is not
\* about session p keeps its mutexes.
LEMMA StorageSteps ==
    ASSUME StorageInv
    PROVE  /\ UNCHANGED drops =>
                StorageInv' /\ Grows /\ \A p \in Pop3Sessions : SameLocks(p)
           /\ \A m \in Mails : Deliver(m) =>
                StorageInv' /\ Grows /\ \A p \in Pop3Sessions : SameLocks(p)
           /\ \A p \in Pop3Sessions :
                Unlock(p) \/ (\E u \in DOMAIN drops : IsFree(u) /\ Lock(u, p)) =>
                    /\ StorageInv' /\ Grows
                    /\ \A q \in Pop3Sessions \ {p} : SameLocks(q)
<1>1. ASSUME UNCHANGED drops
      PROVE  StorageInv' /\ Grows /\ \A p \in Pop3Sessions : SameLocks(p)
  <2>1. StorageInv' /\ \A p \in Pop3Sessions : SameLocks(p)
    BY <1>1 DEF StorageInv, StorageTypeOK, HasInbox, SameLocks
  <2>2. ASSUME NEW u \in DOMAIN drops
        PROVE  /\ Inbox(u)' = Inbox(u) /\ Inbox(u) \in Seq(Mails)
               /\ Len(Inbox(u)) \in Nat
    BY <1>1, InboxFacts DEF Inbox
  <2>3. \A q \in Seq(Mails) : SubSeq(q, 1, Len(q)) = q
    OBVIOUS
  <2> QED
    BY <1>1, <2>1, <2>2, <2>3 DEF Grows
<1>2. ASSUME NEW m \in Mails, Deliver(m)
      PROVE  StorageInv' /\ Grows /\ \A p \in Pop3Sessions : SameLocks(p)
  <2>1. StorageInv' /\ \A p \in Pop3Sessions : SameLocks(p)
    BY <1>2, DeliverFacts, NamesAssumption DEF SameLocks
  <2>2. ASSUME NEW u \in DOMAIN drops
        PROVE  /\ u \in DOMAIN drops'
               /\ DOMAIN drops'[u].mails = DOMAIN drops[u].mails
               /\ Inbox(u)' = Inbox(u) \/ Inbox(u)' = Append(Inbox(u), m)
    BY <1>2, DeliverFacts
  <2>3. \A q \in Seq(Mails) :
            /\ SubSeq(q, 1, Len(q)) = q /\ SubSeq(Append(q, m), 1, Len(q)) = q
            /\ Len(q) \in Nat /\ Len(Append(q, m)) = Len(q) + 1
    OBVIOUS
  <2>4. ASSUME NEW u \in DOMAIN drops
        PROVE  /\ Len(Inbox(u)) <= Len(Inbox(u)')
               /\ SubSeq(Inbox(u)', 1, Len(Inbox(u))) = Inbox(u)
    <3>1. Inbox(u) \in Seq(Mails)
      BY InboxFacts
    <3> QED
      BY <2>2, <2>3, <3>1
  <2> QED
    BY <2>1, <2>2, <2>4 DEF Grows
<1>3. ASSUME NEW p \in Pop3Sessions,
             Unlock(p) \/ \E u \in DOMAIN drops : IsFree(u) /\ Lock(u, p)
      PROVE  StorageInv' /\ Grows /\ \A q \in Pop3Sessions \ {p} : SameLocks(q)
  <2>1. /\ StorageInv' /\ DOMAIN drops' = DOMAIN drops
        /\ \A u \in DOMAIN drops : drops'[u].mails = drops[u].mails
    BY <1>3, MutexFacts
  <2>2. \A q \in Seq(Mails) : SubSeq(q, 1, Len(q)) = q /\ Len(q) \in Nat
    OBVIOUS
  <2>3. Grows
    BY <2>1, <2>2, InboxFacts DEF Grows, Inbox
  <2>4. ASSUME NEW q \in Pop3Sessions \ {p} PROVE SameLocks(q)
    <3>1. CASE Unlock(p)
      BY <3>1, NamesAssumption DEF Unlock, SameLocks, StorageInv, StorageTypeOK
    <3>2. ASSUME NEW u \in DOMAIN drops, IsFree(u), Lock(u, p)
          PROVE  SameLocks(q)
      BY <3>2, NamesAssumption
         DEF IsFree, Lock, SameLocks, StorageInv, StorageTypeOK
    <3> QED
      BY <1>3, <3>1, <3>2
  <2> QED
    BY <2>1, <2>3, <2>4
<1> QED
  BY <1>1, <1>2, <1>3

-----------------------------------------------------------------------------
(* What other sessions do leaves the invariant of a session alone.         *)

LEMMA Pop3Frame ==
    ASSUME StorageInv, StorageInv', Grows,
           NEW p \in Pop3Sessions, Pop3TypeOK,
           Pop3SessionInv(p), SameLocks(p), pop3'[p] = pop3[p]
    PROVE  Pop3SessionInv(p)'
<1>1. InTransaction(p)' = InTransaction(p)
  BY DEF InTransaction
<1>2. DOMAIN drops \subseteq DOMAIN drops'
  BY DEF Grows
<1>3. pop3[p].user \in DOMAIN drops =>
        Len(Inbox(pop3[p].user)) <= Len(Inbox(pop3[p].user)')
  BY DEF Grows
<1>4. pop3[p].user \in DOMAIN drops =>
        Len(Inbox(pop3[p].user)) \in Nat /\ Len(Inbox(pop3[p].user)') \in Nat
  BY <1>2, LenProperties DEF StorageInv, StorageTypeOK, HasInbox, Inbox
<1>5. Inbox(pop3[p].user)' = drops'[pop3[p].user].mails["INBOX"]
  BY DEF Inbox
<1>6. ASSUME pop3[p].pc \in {"list", "list_end"}
      PROVE  /\ pop3[p].announced <= Len(Inbox(pop3[p].user)')
             /\ pop3[p].sent <= Len(Inbox(pop3[p].user)')
  <2>1. pop3[p].user \in DOMAIN drops
    BY <1>6 DEF Pop3SessionInv, InTransaction
  <2>2. /\ pop3[p].announced <= Len(Inbox(pop3[p].user))
        /\ pop3[p].sent <= Len(Inbox(pop3[p].user))
    BY <1>6 DEF Pop3SessionInv
  <2>3. pop3[p].announced \in Nat /\ pop3[p].sent \in Nat
    BY DEF Pop3TypeOK
  <2> QED
    BY <1>3, <1>4, <2>1, <2>2, <2>3
<1>7. InTransaction(p) =>
        pop3[p].user \in DOMAIN drops' /\ drops'[pop3[p].user].transaction = p
  BY <1>2 DEF Pop3SessionInv, SameLocks
<1>8. \A u \in DOMAIN drops' : drops'[u].transaction = p =>
        pop3[p].user = u /\ (InTransaction(p) \/ pop3[p].pc = "quit")
  BY DEF Pop3SessionInv, SameLocks
<1> QED
  BY <1>1, <1>2, <1>5, <1>6, <1>7, <1>8 DEF Pop3SessionInv, Inbox

LEMMA ImapFrame ==
    ASSUME Grows, NEW i \in ImapSessions, ImapSessionInv(i), imap'[i] = imap[i]
    PROVE  ImapSessionInv(i)'
BY DEF Grows, ImapSessionInv

-----------------------------------------------------------------------------
(* Delivery.                                                               *)

\* The mails of the INBOXes, and the mails each session has accepted, are all
\* that Delivery is about.
LEMMA DeliveryFrame ==
    ASSUME HasInbox', Delivery, DOMAIN drops' = DOMAIN drops,
           \A u \in DOMAIN drops : Inbox(u)' = Inbox(u),
           \A s \in SmtpSessions : smtp'[s].accepted = smtp[s].accepted
    PROVE  Delivery'
<1>1. \A u \in DOMAIN drops : \A s \in SmtpSessions : From(s, u)' = From(s, u)
  BY DEF From
<1>2. ASSUME NEW u \in DOMAIN drops, NEW s \in SmtpSessions, NEW n \in From(s, u)
      PROVE  LET m == Inbox(u)[n]
             IN /\ m.number \in DOMAIN smtp[s].accepted
                /\ m.recipients = smtp[s].accepted[m.number]
                /\ u \in m.recipients
                /\ \A k \in From(s, u) : k # n => Inbox(u)[k].number # m.number
  BY DEF Delivery
<1>3. ASSUME NEW s \in SmtpSessions, NEW i \in DOMAIN smtp[s].accepted,
             NEW u \in smtp[s].accepted[i] \cap Local
      PROVE  u \in DOMAIN drops /\ \E n \in From(s, u) : Inbox(u)[n].number = i
  BY DEF Delivery
<1> QED
  BY <1>1, <1>2, <1>3 DEF Delivery, HasInbox

\* The mail whose last line arrives gets the next number of its session, and
\* so is none that is stored already.
LEMMA MessageDelivers ==
    ASSUME StorageInv, SmtpInv, Delivery, NEW s \in SmtpSessions, Message(s)
    PROVE  StorageInv' /\ Grows /\ (\A p \in Pop3Sessions : SameLocks(p))
           /\ SmtpInv' /\ Delivery'
<1> DEFINE old == smtp[s].accepted
<1> DEFINE new == [session |-> s, number |-> Len(old) + 1,
                   recipients |-> smtp[s].recipients]
<1>1. /\ smtp[s].pc = "data" /\ old \in Seq(SUBSET Addresses)
      /\ Len(old) < MaxMails /\ smtp[s].recipients \subseteq Addresses
  BY DEF Message, Blocking, SmtpInv, SmtpTypeOK
<1>2. new \in Mails /\ Deliver(new)
  BY <1>1, BoundAssumption DEF Message, Mails
<1>3. StorageInv' /\ Grows /\ \A p \in Pop3Sessions : SameLocks(p)
  BY <1>2, StorageSteps
<1>4. /\ smtp'[s].accepted = Append(old, smtp[s].recipients)
      /\ \A t \in SmtpSessions : t # s => smtp'[t] = smtp[t]
  BY DEF Message, SmtpInv, SmtpTypeOK
<1>5. SmtpInv'
  <2>1. Append(old, smtp[s].recipients) \in Seq(SUBSET Addresses)
    BY <1>1, AppendProperties
  <2>2. smtp' = [smtp EXCEPT ![s] = [smtp[s] EXCEPT
                    !.pc = "init_transaction", !.writing = TRUE,
                    !.accepted = Append(old, smtp[s].recipients)]]
    BY DEF Message, SmtpInv, SmtpTypeOK
  <2> HIDE DEF old
  <2> QED
    BY <2>1, <2>2 DEF SmtpInv, SmtpTypeOK, SmtpPcs
<1>6. /\ DOMAIN drops' = DOMAIN drops \cup StoredFor(new)
      /\ \A u \in DOMAIN drops' :
            Inbox(u)' = IF u \in DOMAIN drops
                        THEN IF u \in StoredFor(new)
                             THEN Append(Inbox(u), new) ELSE Inbox(u)
                        ELSE <<new>>
  BY <1>2, DeliverFacts
\* The mails accepted are those from before and the new one.
<1>7. /\ Len(old) \in Nat /\ DOMAIN old = 1 .. Len(old)
      /\ DOMAIN smtp'[s].accepted = 1 .. Len(old) + 1
      /\ smtp'[s].accepted[Len(old) + 1] = smtp[s].recipients
      /\ \A i \in DOMAIN old : smtp'[s].accepted[i] = old[i]
  BY <1>1, <1>4, AppendProperties, LenProperties
<1>8. /\ new.session = s /\ new.number = Len(old) + 1
      /\ new.recipients = smtp[s].recipients
      /\ StoredFor(new) = smtp[s].recipients \cap Local
  BY DEF StoredFor
<1> HIDE DEF new
<1>9. ASSUME NEW t \in SmtpSessions, NEW i \in DOMAIN smtp[t].accepted
      PROVE  /\ i \in DOMAIN smtp'[t].accepted
             /\ smtp'[t].accepted[i] = smtp[t].accepted[i]
  <2>1. CASE t = s
    BY <1>7, <2>1
  <2>2. CASE t # s
    BY <1>4, <2>2
  <2> QED
    BY <2>1, <2>2
\* Each mail of an INBOX is the new one, in one place and only for a recipient,
\* or it was there, in the same place.
<1>10. ASSUME NEW u \in DOMAIN drops', NEW n \in DOMAIN Inbox(u)'
       PROVE  \/ /\ Inbox(u)'[n] = new /\ u \in StoredFor(new)
                 /\ \A k \in DOMAIN Inbox(u)' :
                     k # n => u \in DOMAIN drops /\ k \in DOMAIN Inbox(u)
              \/ /\ u \in DOMAIN drops /\ n \in DOMAIN Inbox(u)
                 /\ Inbox(u)'[n] = Inbox(u)[n]
  <2>1. CASE u \notin DOMAIN drops
    <3>1. Inbox(u)' = <<new>> /\ u \in StoredFor(new)
      BY <1>6, <2>1
    <3> QED
      BY <3>1
  <2>2. CASE u \in DOMAIN drops /\ u \in StoredFor(new)
    <3>1. Inbox(u)' = Append(Inbox(u), new) /\ Inbox(u) \in Seq(Mails)
      BY <1>6, <2>2, InboxFacts
    <3> QED
      BY <2>2, <3>1
  <2>3. CASE u \in DOMAIN drops /\ u \notin StoredFor(new)
    BY <1>6, <2>3
  <2> QED
    BY <2>1, <2>2, <2>3
<1>11. ASSUME NEW u \in DOMAIN drops, NEW n \in DOMAIN Inbox(u)
       PROVE  /\ u \in DOMAIN drops' /\ n \in DOMAIN Inbox(u)'
              /\ Inbox(u)'[n] = Inbox(u)[n] /\ Inbox(u)[n] \in Mails
  <2>1. Inbox(u) \in Seq(Mails)
    BY InboxFacts
  <2>2. CASE u \in StoredFor(new)
    <3>1. Inbox(u)' = Append(Inbox(u), new)
      BY <1>6, <2>2
    <3> QED
      BY <1>6, <2>1, <3>1
  <2>3. CASE u \notin StoredFor(new)
    BY <1>6, <2>1, <2>3
  <2> QED
    BY <2>2, <2>3
\* Each local recipient gets the new mail.
<1>12. ASSUME NEW v \in StoredFor(new)
       PROVE  v \in DOMAIN drops' /\ \E k \in DOMAIN Inbox(v)' : Inbox(v)'[k] = new
  <2>1. CASE v \in DOMAIN drops
    <3>1. Inbox(v)' = Append(Inbox(v), new) /\ Inbox(v) \in Seq(Mails)
      BY <1>6, <2>1, InboxFacts
    <3>2. /\ Len(Inbox(v)) + 1 \in DOMAIN Append(Inbox(v), new)
          /\ Append(Inbox(v), new)[Len(Inbox(v)) + 1] = new
      BY <3>1
    <3> QED
      BY <1>6, <3>1, <3>2
  <2>2. CASE v \notin DOMAIN drops
    <3>1. Inbox(v)' = <<new>>
      BY <1>6, <2>2
    <3>2. 1 \in DOMAIN <<new>> /\ <<new>>[1] = new
      OBVIOUS
    <3> QED
      BY <1>6, <3>1, <3>2
  <2> QED
    BY <2>1, <2>2
\* What is in an INBOX was accepted, is there once and for a recipient.
<1>13. ASSUME NEW u \in DOMAIN drops', NEW t \in SmtpSessions, NEW n \in From(t, u)'
       PROVE  LET m == Inbox(u)'[n]
              IN /\ m.number \in DOMAIN smtp'[t].accepted
                 /\ m.recipients = smtp'[t].accepted[m.number]
                 /\ u \in m.recipients
                 /\ \A k \in From(t, u)' :
                     k # n => Inbox(u)'[k].number # m.number
  <2>1. n \in DOMAIN Inbox(u)' /\ Inbox(u)'[n].session = t
    BY DEF From
  \* A mail of session s that was there has a smaller number than the new one.
  <2>2. ASSUME NEW k \in DOMAIN Inbox(u), u \in DOMAIN drops,
               Inbox(u)[k].session = s
        PROVE  Inbox(u)[k].number # new.number
    <3>1. k \in From(s, u)
      BY <2>2 DEF From
    <3>2. Inbox(u)[k].number \in DOMAIN old
      BY <2>2, <3>1 DEF Delivery
    <3> QED
      BY <1>7, <1>8, <3>2
  <2>3. CASE Inbox(u)'[n] = new /\ u \in StoredFor(new)
             /\ \A k \in DOMAIN Inbox(u)' :
                    k # n => u \in DOMAIN drops /\ k \in DOMAIN Inbox(u)
    <3>1. /\ t = s /\ new.number \in DOMAIN smtp'[t].accepted
          /\ new.recipients = smtp'[t].accepted[new.number]
          /\ u \in new.recipients
      BY <1>7, <1>8, <2>1, <2>3
    <3>2. ASSUME NEW k \in From(t, u)', k # n
          PROVE  Inbox(u)'[k].number # new.number
      <4>1. /\ u \in DOMAIN drops /\ k \in DOMAIN Inbox(u)
            /\ Inbox(u)'[k].session = s
        BY <2>3, <3>1, <3>2 DEF From
      <4> QED
        BY <1>11, <2>2, <4>1
    <3> QED
      BY <2>3, <3>1, <3>2
  <2>4. CASE /\ u \in DOMAIN drops /\ n \in DOMAIN Inbox(u)
             /\ Inbox(u)'[n] = Inbox(u)[n]
    <3> DEFINE m == Inbox(u)[n]
    <3>1. n \in From(t, u) /\ m.session = t
      BY <2>1, <2>4 DEF From
    <3>2. /\ m.number \in DOMAIN smtp[t].accepted
          /\ m.recipients = smtp[t].accepted[m.number] /\ u \in m.recipients
          /\ \A k \in From(t, u) : k # n => Inbox(u)[k].number # m.number
      BY <2>4, <3>1 DEF Delivery
    <3> HIDE DEF m
    <3>3. /\ m.number \in DOMAIN smtp'[t].accepted
          /\ m.recipients = smtp'[t].accepted[m.number]
      BY <1>9, <3>2
    <3>4. ASSUME NEW k \in From(t, u)', k # n
          PROVE  Inbox(u)'[k].number # m.number
      <4>1. k \in DOMAIN Inbox(u)' /\ Inbox(u)'[k].session = t
        BY DEF From
      <4>2. CASE Inbox(u)'[k] = new
        BY <1>8, <2>2, <2>4, <3>1, <4>1, <4>2 DEF m
      <4>3. CASE Inbox(u)'[k] = Inbox(u)[k] /\ k \in DOMAIN Inbox(u)
        BY <2>4, <3>2, <3>4, <4>1, <4>3 DEF From
      <4> QED
        BY <1>10, <4>1, <4>2, <4>3
    <3> QED
      BY <2>4, <3>2, <3>3, <3>4 DEF m
  <2> QED
    BY <1>10, <2>1, <2>3, <2>4
\* What was accepted is in the INBOX of each local recipient.
<1>14. ASSUME NEW t \in SmtpSessions, NEW i \in DOMAIN smtp'[t].accepted,
              NEW u \in smtp'[t].accepted[i] \cap Local
       PROVE  /\ u \in DOMAIN drops'
              /\ \E n \in From(t, u)' : Inbox(u)'[n].number = i
  <2>1. CASE t = s /\ i = Len(old) + 1
    <3>1. u \in StoredFor(new)
      BY <1>7, <1>8, <2>1
    <3>2. PICK n \in DOMAIN Inbox(u)' : Inbox(u)'[n] = new
      BY <1>12, <3>1
    <3>3. n \in From(t, u)' /\ Inbox(u)'[n].number = i
      BY <1>8, <2>1, <3>2 DEF From
    <3> QED
      BY <1>12, <3>1, <3>3
  <2>2. CASE ~(t = s /\ i = Len(old) + 1)
    <3>1. i \in DOMAIN smtp[t].accepted
      BY <1>4, <1>7, <2>2
    <3>2. u \in smtp[t].accepted[i] \cap Local
      BY <1>9, <3>1
    <3>3. PICK n \in From(t, u) : u \in DOMAIN drops /\ Inbox(u)[n].number = i
      BY <3>1, <3>2 DEF Delivery
    <3>4. n \in DOMAIN Inbox(u) /\ Inbox(u)[n].session = t
      BY DEF From
    <3>5. u \in DOMAIN drops' /\ n \in DOMAIN Inbox(u)' /\ Inbox(u)'[n] = Inbox(u)[n]
      BY <1>11, <3>3, <3>4
    <3>6. n \in From(t, u)'
      BY <3>4, <3>5 DEF From
    <3> QED
      BY <3>3, <3>5, <3>6
  <2> QED
    BY <2>1, <2>2
<1> QED
  BY <1>3, <1>5, <1>13, <1>14 DEF Delivery, StorageInv, HasInbox

-----------------------------------------------------------------------------
(* The steps of the sessions.                                              *)

SmtpState == [pc : SmtpPcs, writing : BOOLEAN, recipients : SUBSET Addresses,
              accepted : Seq(SUBSET Addresses)]
Pop3State == [pc : Pop3Pcs, writing : BOOLEAN, user : Addresses \cup {NoUser},
              announced : Nat, sent : Nat]
ImapState == [pc : ImapPcs, writing : BOOLEAN, user : Addresses \cup {NoUser},
              listed : SUBSET Mailboxes]

\* A session that changes goes to a state of its type, and no other moves.
LEMMA SmtpChanges ==
    ASSUME SmtpInv, NEW s \in SmtpSessions, NEW new \in SmtpState,
           smtp' = [smtp EXCEPT ![s] = new], new.accepted = smtp[s].accepted,
           new.pc = "data" => Len(new.accepted) < MaxMails
    PROVE  SmtpInv' /\ \A t \in SmtpSessions : smtp'[t].accepted = smtp[t].accepted
BY DEF SmtpInv, SmtpTypeOK, SmtpState

LEMMA Pop3Changes ==
    ASSUME Pop3TypeOK, NEW p \in Pop3Sessions, NEW new \in Pop3State,
           pop3' = [pop3 EXCEPT ![p] = new]
    PROVE  Pop3TypeOK' /\ \A q \in Pop3Sessions \ {p} : pop3'[q] = pop3[q]
BY DEF Pop3TypeOK, Pop3State

LEMMA ImapChanges ==
    ASSUME ImapTypeOK, NEW i \in ImapSessions, NEW new \in ImapState,
           imap' = [imap EXCEPT ![i] = new]
    PROVE  ImapTypeOK' /\ \A j \in ImapSessions \ {i} : imap'[j] = imap[j]
BY DEF ImapTypeOK, ImapState

\* A reply changes the state of the session and makes it write.
LEMMA Replies ==
    ASSUME SmtpInv, NEW s \in SmtpSessions, NEW pc \in SmtpPcs,
           NEW recipients \in SUBSET Addresses, Reply(s, pc, recipients),
           pc = "data" => Len(smtp[s].accepted) < MaxMails
    PROVE  SmtpInv' /\ \A t \in SmtpSessions : smtp'[t].accepted = smtp[t].accepted
<1>1. smtp[s] \in SmtpState
  BY DEF SmtpInv, SmtpTypeOK, SmtpState
<1>2. smtp'[s] = [pc |-> pc, writing |-> TRUE, recipients |-> recipients,
                  accepted |-> smtp[s].accepted]
  BY <1>1 DEF Reply, SmtpState, SmtpInv, SmtpTypeOK
<1>3. smtp' = [smtp EXCEPT ![s] = smtp'[s]]
  BY DEF Reply, SmtpInv, SmtpTypeOK
<1>4. smtp'[s] \in SmtpState /\ smtp'[s].accepted = smtp[s].accepted /\ smtp'[s].pc = pc
  BY <1>1, <1>2 DEF SmtpState
<1> QED
  BY <1>3, <1>4, SmtpChanges

LEMMA Answers ==
    ASSUME Pop3TypeOK, NEW p \in Pop3Sessions, NEW pc \in Pop3Pcs, Answer(p, pc)
    PROVE  Pop3TypeOK' /\ \A q \in Pop3Sessions \ {p} : pop3'[q] = pop3[q]
<1>1. pop3[p] \in Pop3State
  BY DEF Pop3TypeOK, Pop3State
<1>2. pop3'[p] = [pop3[p] EXCEPT !.pc = pc, !.writing = TRUE]
  BY DEF Answer, Pop3TypeOK
<1>3. pop3' = [pop3 EXCEPT ![p] = pop3'[p]]
  BY DEF Answer, Pop3TypeOK
<1>4. pop3'[p] \in Pop3State
  BY <1>1, <1>2 DEF Pop3State
<1> QED
  BY <1>3, <1>4, Pop3Changes

LEMMA Responds ==
    ASSUME ImapTypeOK, NEW i \in ImapSessions, NEW pc \in ImapPcs, Respond(i, pc)
    PROVE  ImapTypeOK' /\ \A j \in ImapSessions \ {i} : imap'[j] = imap[j]
<1>1. imap[i] \in ImapState
  BY DEF ImapTypeOK, ImapState
<1>2. imap'[i] = [imap[i] EXCEPT !.pc = pc, !.writing = TRUE]
  BY DEF Respond, ImapTypeOK
<1>3. imap' = [imap EXCEPT ![i] = imap'[i]]
  BY DEF Respond, ImapTypeOK
<1>4. imap'[i] \in ImapState
  BY <1>1, <1>2 DEF ImapState
<1> QED
  BY <1>3, <1>4, ImapChanges

\* A session that does not block the thread leaves the storage alone.
LEMMA SmtpStepFacts ==
    ASSUME SmtpInv, NEW s \in SmtpSessions, SmtpStep(s) \/ SmtpThrows(s)
    PROVE  /\ UNCHANGED drops /\ SmtpInv'
           /\ \A t \in SmtpSessions : smtp'[t].accepted = smtp[t].accepted
<1>0. /\ smtp[s] \in SmtpState /\ Kept(s) \in SUBSET Addresses
      /\ smtp[s].pc = "data" => Len(smtp[s].accepted) < MaxMails
  BY DEF SmtpInv, SmtpTypeOK, SmtpState, Kept
<1>p. SmtpPcs = {"absent", "wait_helo", "init_transaction", "recipients",
                 "data", "quit", "closed"}
  BY DEF SmtpPcs
<1>1. CASE SmtpAccept(s)
  BY <1>1, <1>p, Replies DEF SmtpAccept
<1>2. CASE SmtpWritten(s)
  <2> DEFINE pc == IF smtp[s].pc = "quit" THEN "closed" ELSE smtp[s].pc
  <2>0. pc \in SmtpPcs /\ (pc = "data" => smtp[s].pc = "data")
    BY <1>0, <1>p DEF SmtpState
  <2>1. smtp'[s] = [pc |-> pc, writing |-> FALSE,
                    recipients |-> smtp[s].recipients, accepted |-> smtp[s].accepted]
    BY <1>0, <1>2 DEF SmtpWritten, SmtpInv, SmtpTypeOK, SmtpState
  <2> HIDE DEF pc
  <2>2. smtp' = [smtp EXCEPT ![s] = smtp'[s]]
    BY <1>2 DEF SmtpWritten, SmtpInv, SmtpTypeOK
  <2>3. /\ smtp'[s] \in SmtpState /\ smtp'[s].accepted = smtp[s].accepted
        /\ smtp'[s].pc = pc
    BY <1>0, <2>0, <2>1 DEF SmtpState
  <2> QED
    BY <1>0, <1>2, <2>0, <2>2, <2>3, SmtpChanges DEF SmtpWritten
<1>3. CASE SmtpRepliesOnly(s)
  BY <1>0, <1>3, <1>p, Replies DEF SmtpRepliesOnly, Requested
<1>4. CASE Helo(s)
  BY <1>0, <1>4, <1>p, Replies DEF Helo
<1>5. CASE MailFrom(s)
  BY <1>0, <1>5, <1>p, Replies DEF MailFrom
<1>6. ASSUME NEW u \in Addresses, RcptTo(s, u)
      PROVE  /\ UNCHANGED drops /\ SmtpInv'
             /\ \A t \in SmtpSessions : smtp'[t].accepted = smtp[t].accepted
  <2>1. smtp[s].recipients \cup {u} \in SUBSET Addresses
    BY <1>0 DEF SmtpState
  <2> QED
    BY <1>6, <1>p, <2>1, Replies DEF RcptTo
<1>7. CASE Data(s)
  <2>1. smtp[s].recipients \in SUBSET Addresses
    BY <1>0 DEF SmtpState
  <2> QED
    BY <1>7, <1>p, <2>1, Replies DEF Data
<1>8. CASE SmtpQuit(s)
  BY <1>0, <1>8, <1>p, Replies DEF SmtpQuit
<1>9. CASE SmtpThrows(s)
  <2>1. smtp'[s] = [smtp[s] EXCEPT !.pc = "closed", !.writing = FALSE]
    BY <1>9 DEF SmtpThrows, SmtpInv, SmtpTypeOK
  <2>2. smtp' = [smtp EXCEPT ![s] = smtp'[s]]
    BY <1>9 DEF SmtpThrows, SmtpInv, SmtpTypeOK
  <2>3. /\ smtp'[s] \in SmtpState /\ smtp'[s].accepted = smtp[s].accepted
        /\ smtp'[s].pc = "closed"
    BY <1>0, <1>p, <2>1 DEF SmtpState
  <2> QED
    BY <1>9, <2>2, <2>3, SmtpChanges DEF SmtpThrows
<1> QED
  BY <1>1, <1>2, <1>3, <1>4, <1>5, <1>6, <1>7, <1>8, <1>9 DEF SmtpStep

\* What a step of a POP3 session does to the storage: nothing, except that PASS
\* takes the mutex and the end of the coroutine gives it back.
LEMMA Pop3StepFacts ==
    ASSUME StorageInv, Pop3Inv, NEW p \in Pop3Sessions, Pop3Step(p)
    PROVE  /\ \/ UNCHANGED drops
              \/ Unlock(p)
              \/ \E u \in DOMAIN drops : IsFree(u) /\ Lock(u, p)
           /\ Pop3TypeOK'
           /\ \A q \in Pop3Sessions \ {p} : pop3'[q] = pop3[q]
<1>0. pop3[p] \in Pop3State /\ Pop3TypeOK /\ Pop3SessionInv(p)
  BY DEF Pop3Inv, Pop3TypeOK, Pop3State
<1>p. Pop3Pcs = {"absent", "authorization", "transaction", "list", "list_end",
                 "quit", "closed"}
  BY DEF Pop3Pcs
\* It remains to look at the new state of p.
<1>s. ASSUME pop3' = [pop3 EXCEPT ![p] = pop3'[p]], pop3'[p] \in Pop3State
      PROVE  Pop3TypeOK' /\ \A q \in Pop3Sessions \ {p} : pop3'[q] = pop3[q]
  BY <1>0, <1>s, Pop3Changes
<1>1. CASE Pop3Accept(p)
  BY <1>0, <1>1, <1>p, Answers DEF Pop3Accept
<1>2. CASE Pop3Written(p)
  <2>1. /\ pop3'[p] = [pop3[p] EXCEPT !.writing = FALSE]
        /\ pop3' = [pop3 EXCEPT ![p] = pop3'[p]]
    BY <1>0, <1>2 DEF Pop3Written, Pop3TypeOK
  <2>2. pop3'[p] \in Pop3State
    BY <1>0, <2>1 DEF Pop3State
  <2> QED
    BY <1>2, <1>s, <2>1, <2>2 DEF Pop3Written
<1>3. CASE ListEntry(p)
  <2>1. /\ pop3'[p] = [pop3[p] EXCEPT !.sent = pop3[p].sent + 1]
        /\ pop3' = [pop3 EXCEPT ![p] = pop3'[p]]
    BY <1>0, <1>3 DEF ListEntry, Pop3TypeOK
  <2>2. pop3'[p] \in Pop3State
    BY <1>0, <2>1 DEF Pop3State
  <2> QED
    BY <1>3, <1>s, <2>1, <2>2 DEF ListEntry
<1>4. CASE ListEnds(p)
  BY <1>0, <1>4, <1>p, Answers DEF ListEnds
<1>5. CASE ListWritten(p)
  <2>1. /\ pop3'[p] = [pop3[p] EXCEPT !.pc = "transaction", !.writing = FALSE,
                                      !.announced = 0, !.sent = 0]
        /\ pop3' = [pop3 EXCEPT ![p] = pop3'[p]]
    BY <1>0, <1>5 DEF ListWritten, Pop3TypeOK
  <2>2. pop3'[p] = [pc |-> "transaction", writing |-> FALSE,
                    user |-> pop3[p].user, announced |-> 0, sent |-> 0]
    BY <1>0, <2>1 DEF Pop3State
  <2>3. pop3'[p] \in Pop3State
    BY <1>0, <1>p, <2>2 DEF Pop3State
  <2> QED
    BY <1>5, <1>s, <2>1, <2>3 DEF ListWritten
<1>6. CASE Pop3Ends(p)
  <2>1. /\ pop3'[p] = [pop3[p] EXCEPT !.pc = "closed", !.writing = FALSE]
        /\ pop3' = [pop3 EXCEPT ![p] = pop3'[p]]
    BY <1>0, <1>6 DEF Pop3Ends, Pop3TypeOK
  <2>2. pop3'[p] \in Pop3State
    BY <1>0, <1>p, <2>1 DEF Pop3State
  <2> QED
    BY <1>6, <1>s, <2>1, <2>2 DEF Pop3Ends
<1>7. CASE Pop3RepliesOnly(p)
  BY <1>0, <1>7, <1>p, Answers DEF Pop3RepliesOnly
<1>8. ASSUME NEW u \in Addresses, User(p, u)
      PROVE  /\ UNCHANGED drops /\ Pop3TypeOK'
             /\ \A q \in Pop3Sessions \ {p} : pop3'[q] = pop3[q]
  <2>1. /\ pop3'[p] = [pop3[p] EXCEPT !.user = u, !.writing = TRUE]
        /\ pop3' = [pop3 EXCEPT ![p] = pop3'[p]]
    BY <1>0, <1>8 DEF User, Pop3TypeOK
  <2>2. pop3'[p] \in Pop3State
    BY <1>0, <2>1 DEF Pop3State
  <2> QED
    BY <1>8, <1>s, <2>1, <2>2 DEF User
<1>9. CASE Pass(p)
  <2>1. pop3[p].user \in DOMAIN drops
    BY <1>0, <1>9 DEF Pass, Pop3SessionInv
  <2> QED
    BY <1>0, <1>9, <1>p, <2>1, Answers DEF Pass
<1>10. CASE List(p)
  <2>1. Len(Inbox(pop3[p].user)) \in Nat
    BY <1>0, <1>10, InboxFacts DEF List, Asked, Pop3SessionInv, InTransaction
  <2>2. /\ pop3'[p] = [pop3[p] EXCEPT !.pc = "list", !.writing = TRUE,
                                      !.announced = Len(Inbox(pop3[p].user))]
        /\ pop3' = [pop3 EXCEPT ![p] = pop3'[p]]
    BY <1>0, <1>10 DEF List, Pop3TypeOK
  <2>3. pop3'[p] \in Pop3State
    BY <1>0, <1>p, <2>1, <2>2 DEF Pop3State
  <2> QED
    BY <1>10, <1>s, <2>2, <2>3 DEF List
<1>11. CASE Pop3Quit(p)
  BY <1>0, <1>11, <1>p, Answers DEF Pop3Quit
<1> QED
  BY <1>1, <1>2, <1>3, <1>4, <1>5, <1>6, <1>7, <1>8, <1>9, <1>10, <1>11
     DEF Pop3Step, Pop3Writes, Pop3Closes, Pop3Throws

\* A step of a POP3 session keeps its own invariant.
LEMMA Pop3StepOwn ==
    ASSUME StorageInv, Pop3Inv, NEW p \in Pop3Sessions, Pop3Step(p)
    PROVE  Pop3SessionInv(p)'
<1>0. Pop3SessionInv(p) /\ pop3[p].announced \in Nat /\ pop3[p].sent \in Nat
  BY DEF Pop3Inv, Pop3TypeOK
<1>i. \A u \in DOMAIN drops : Len(Inbox(u)) \in Nat
  BY InboxFacts
<1>n. NoUser \notin DOMAIN drops
  BY NamesAssumption DEF StorageInv, StorageTypeOK
<1> USE DEF Pop3Inv, Pop3TypeOK, Answer, Asked, Pop3SessionInv, InTransaction, Inbox
<1>1. CASE Pop3Accept(p)
  BY <1>0, <1>1 DEF Pop3Accept
<1>2. CASE Pop3Written(p)
  BY <1>0, <1>2 DEF Pop3Written
<1>3. CASE ListEntry(p)
  BY <1>0, <1>i, <1>3 DEF ListEntry
<1>4. CASE ListEnds(p)
  BY <1>0, <1>i, <1>4 DEF ListEnds
<1>5. CASE ListWritten(p)
  BY <1>0, <1>5 DEF ListWritten
<1>6. CASE Pop3Ends(p)
  <2>1. DOMAIN drops' = DOMAIN drops /\ pop3'[p].user = pop3[p].user
        /\ pop3'[p].pc = "closed"
    BY <1>6 DEF Pop3Ends, Unlock
  <2>2. \A u \in DOMAIN drops : drops'[u].transaction # p
    BY <1>6, NamesAssumption DEF Pop3Ends, Unlock, StorageInv, StorageTypeOK
  <2> QED
    BY <1>0, <2>1, <2>2
<1>7. CASE Pop3RepliesOnly(p)
  BY <1>0, <1>7 DEF Pop3RepliesOnly
<1>8. ASSUME NEW u \in Addresses, User(p, u) PROVE Pop3SessionInv(p)'
  BY <1>0, <1>8 DEF User
<1>9. CASE Pass(p)
  <2>1. /\ pop3[p].user \in DOMAIN drops /\ pop3[p].pc = "authorization"
        /\ \A u \in DOMAIN drops : drops[u].transaction # p
    BY <1>0, <1>9 DEF Pass
  <2>2. /\ pop3'[p].pc = "transaction" /\ pop3'[p].user = pop3[p].user
        /\ pop3'[p].sent = pop3[p].sent
    BY <1>9 DEF Pass
  <2>3. /\ DOMAIN drops' = DOMAIN drops
        /\ \A u \in DOMAIN drops :
                drops'[u].transaction = p <=> u = pop3[p].user
    BY <1>9, <2>1 DEF Pass, Lock, StorageInv, StorageTypeOK
  <2> QED
    BY <1>0, <2>1, <2>2, <2>3
<1>10. CASE List(p)
  BY <1>0, <1>i, <1>10 DEF List
<1>11. CASE Pop3Quit(p)
  BY <1>0, <1>11 DEF Pop3Quit
<1> QED
  BY <1>1, <1>2, <1>3, <1>4, <1>5, <1>6, <1>7, <1>8, <1>9, <1>10, <1>11
     DEF Pop3Step, Pop3Writes, Pop3Closes, Pop3Throws

\* A step of an IMAP session never changes the storage.
LEMMA ImapStepFacts ==
    ASSUME StorageInv, ImapInv, NEW i \in ImapSessions, ImapStep(i)
    PROVE  /\ UNCHANGED drops /\ ImapTypeOK'
           /\ \A j \in ImapSessions \ {i} : imap'[j] = imap[j]
<1>0. imap[i] \in ImapState /\ ImapTypeOK
  BY DEF ImapInv, ImapTypeOK, ImapState
<1>p. ImapPcs = {"absent", "unauthenticated", "authenticated", "list",
                 "list_ok", "quit", "closed"}
  BY DEF ImapPcs
\* It remains to look at the new state of i.
<1>s. ASSUME imap' = [imap EXCEPT ![i] = imap'[i]], imap'[i] \in ImapState
      PROVE  ImapTypeOK' /\ \A j \in ImapSessions \ {i} : imap'[j] = imap[j]
  BY <1>0, <1>s, ImapChanges
<1>1. CASE ImapAccept(i)
  BY <1>0, <1>1, <1>p, Responds DEF ImapAccept
<1>2. CASE ImapWritten(i)
  <2>1. /\ imap'[i] = [imap[i] EXCEPT !.writing = FALSE]
        /\ imap' = [imap EXCEPT ![i] = imap'[i]]
    BY <1>0, <1>2 DEF ImapWritten, ImapTypeOK
  <2>2. imap'[i] \in ImapState
    BY <1>0, <2>1 DEF ImapState
  <2> QED
    BY <1>2, <1>s, <2>1, <2>2 DEF ImapWritten
<1>3. CASE ImapRepliesOnly(i)
  BY <1>0, <1>3, <1>p, Responds DEF ImapRepliesOnly
<1>4. ASSUME NEW u \in Addresses, Login(i, u)
      PROVE  /\ UNCHANGED drops /\ ImapTypeOK'
             /\ \A j \in ImapSessions \ {i} : imap'[j] = imap[j]
  <2>1. /\ imap'[i] = [imap[i] EXCEPT !.user = u, !.pc = "authenticated",
                                      !.writing = TRUE]
        /\ imap' = [imap EXCEPT ![i] = imap'[i]]
    BY <1>0, <1>4 DEF Login, ImapTypeOK
  <2>2. imap'[i] \in ImapState
    BY <1>0, <1>p, <2>1 DEF ImapState
  <2> QED
    BY <1>4, <1>s, <2>1, <2>2 DEF Login
<1>5. CASE ListStar(i)
  <2>1. PICK box \in Unlisted(i) :
            imap' = [imap EXCEPT ![i].pc = "list", ![i].writing = TRUE,
                                 ![i].listed = @ \cup {box}]
    BY <1>5 DEF ListStar
  <2>2. box \in Mailboxes
    BY <1>5, <2>1
       DEF ListStar, Unlisted, Awaits, StorageInv, StorageTypeOK, ImapInv,
           ImapSessionInv
  <2>3. /\ imap'[i] = [imap[i] EXCEPT !.pc = "list", !.writing = TRUE,
                                      !.listed = imap[i].listed \cup {box}]
        /\ imap' = [imap EXCEPT ![i] = imap'[i]]
    BY <1>0, <2>1 DEF ImapTypeOK
  <2>4. imap[i].listed \cup {box} \in SUBSET Mailboxes
    BY <1>0, <2>2 DEF ImapState
  <2>5. imap'[i] \in ImapState
    BY <1>0, <1>p, <2>3, <2>4 DEF ImapState
  <2> QED
    BY <1>5, <1>s, <2>3, <2>5 DEF ListStar
<1>6. CASE ListStarEnds(i)
  BY <1>0, <1>6, <1>p, Responds DEF ListStarEnds
<1>7. CASE ListStarWritten(i)
  <2>1. /\ imap'[i] = [imap[i] EXCEPT !.pc = "authenticated",
                                      !.writing = FALSE, !.listed = {}]
        /\ imap' = [imap EXCEPT ![i] = imap'[i]]
    BY <1>0, <1>7 DEF ListStarWritten, ImapTypeOK
  <2>2. imap'[i] \in ImapState
    BY <1>0, <1>p, <2>1 DEF ImapState
  <2> QED
    BY <1>7, <1>s, <2>1, <2>2 DEF ListStarWritten
<1>8. CASE Logout(i)
  BY <1>0, <1>8, <1>p, Responds DEF Logout
<1>9. CASE ImapEnds(i)
  <2>1. /\ imap'[i] = [imap[i] EXCEPT !.pc = "closed", !.writing = FALSE]
        /\ imap' = [imap EXCEPT ![i] = imap'[i]]
    BY <1>0, <1>9 DEF ImapEnds, ImapTypeOK
  <2>2. imap'[i] \in ImapState
    BY <1>0, <1>p, <2>1 DEF ImapState
  <2> QED
    BY <1>9, <1>s, <2>1, <2>2 DEF ImapEnds
<1> QED
  BY <1>1, <1>2, <1>3, <1>4, <1>5, <1>6, <1>7, <1>8, <1>9
     DEF ImapStep, ImapCloses, ImapThrows

\* And it keeps its own invariant.
LEMMA ImapStepOwn ==
    ASSUME StorageInv, ImapInv, NEW i \in ImapSessions, ImapStep(i)
    PROVE  ImapSessionInv(i)'
<1>0. ImapSessionInv(i) /\ UNCHANGED drops
  BY ImapStepFacts DEF ImapInv
<1> USE DEF ImapInv, ImapTypeOK, Awaits, Respond, ImapSessionInv
<1>1. CASE ImapAccept(i)
  BY <1>0, <1>1 DEF ImapAccept
<1>2. CASE ImapWritten(i)
  BY <1>0, <1>2 DEF ImapWritten
<1>3. CASE ImapRepliesOnly(i)
  BY <1>0, <1>3 DEF ImapRepliesOnly
<1>4. ASSUME NEW u \in Addresses, Login(i, u) PROVE ImapSessionInv(i)'
  BY <1>0, <1>4 DEF Login
<1>5. CASE ListStar(i)
  <2>1. PICK box \in Unlisted(i) :
            /\ imap'[i].pc = "list" /\ imap'[i].user = imap[i].user
            /\ imap'[i].listed = imap[i].listed \cup {box}
    BY <1>5 DEF ListStar
  <2>2. /\ imap[i].user \in DOMAIN drops
        /\ imap[i].listed \subseteq DOMAIN drops[imap[i].user].mails
    BY <1>0, <1>5 DEF ListStar
  <2> QED
    BY <1>0, <2>1, <2>2 DEF Unlisted
<1>6. CASE ListStarEnds(i)
  <2>1. /\ imap[i].user \in DOMAIN drops
        /\ imap[i].listed = DOMAIN drops[imap[i].user].mails
    BY <1>0, <1>6 DEF ListStarEnds, Unlisted
  <2>2. /\ imap'[i].pc = "list_ok" /\ imap'[i].user = imap[i].user
        /\ imap'[i].listed = imap[i].listed
    BY <1>6 DEF ListStarEnds
  <2> QED
    BY <1>0, <2>1, <2>2
<1>7. CASE ListStarWritten(i)
  BY <1>0, <1>7 DEF ListStarWritten
<1>8. CASE Logout(i)
  BY <1>0, <1>8 DEF Logout
<1>9. CASE ImapEnds(i)
  <2>1. imap'[i].pc = "closed"
    BY <1>9 DEF ImapEnds
  <2> QED
    BY <2>1
<1> QED
  BY <1>1, <1>2, <1>3, <1>4, <1>5, <1>6, <1>7, <1>8, <1>9
     DEF ImapStep, ImapCloses, ImapThrows

-----------------------------------------------------------------------------
(* The invariant.                                                          *)

\* The main program starts with maildrops that have an INBOX and are free.
LEMMA InitInvariant == ASSUME Init PROVE IInv
<1>1. StorageInv
  <2>1. ASSUME NEW u \in DOMAIN Mock, NEW box \in Mock[u]
        PROVE  <<MockMail>> \in Seq(Mails)
    <3>1. MockMail \in Mails
      BY BoundAssumption DEF Mails, MockMail
    <3> QED
      BY <3>1
  <2> QED
    BY <2>1, MockAssumption
       DEF Init, StorageInit, StorageInv, StorageTypeOK, HasInbox
<1>2. SmtpInv
  BY BoundAssumption DEF Init, SmtpInit, SmtpInv, SmtpTypeOK, SmtpPcs
<1>3. Delivery
  <2>1. ASSUME NEW u \in DOMAIN drops
        PROVE  "INBOX" \in DOMAIN drops[u].mails /\ Inbox(u) = <<MockMail>>
    BY <2>1, MockAssumption DEF Init, StorageInit, Inbox
  <2>2. \A u \in DOMAIN drops : \A s \in SmtpSessions : From(s, u) = {}
    BY <2>1, NamesAssumption DEF From, MockMail
  <2>3. \A s \in SmtpSessions : DOMAIN smtp[s].accepted = {}
    BY DEF Init, SmtpInit
  <2> QED
    BY <2>1, <2>2, <2>3 DEF Delivery
<1>4. Pop3Inv
  <2>1. \A u \in DOMAIN drops : drops[u].transaction = Nobody
    BY DEF Init, StorageInit
  <2>2. Pop3TypeOK
    BY DEF Init, Pop3Init, Pop3TypeOK, Pop3Pcs
  <2> QED
    BY <2>1, <2>2, NamesAssumption
       DEF Init, Pop3Init, Pop3Inv, Pop3SessionInv, InTransaction
<1>5. ImapInv
  BY DEF Init, ImapInit, ImapInv, ImapTypeOK, ImapPcs, ImapSessionInv
<1> QED
  BY <1>1, <1>2, <1>3, <1>4, <1>5 DEF Init, IInv

\* Every step, of whichever session, keeps the invariant and the mails.
LEMMA NextInvariant == ASSUME IInv, [Next]_vars PROVE IInv' /\ Grows
<1> USE DEF IInv
\* A session that did not move keeps its invariant when the storage grows.
<1>1. ASSUME StorageInv', Grows, UNCHANGED pop3,
             \A p \in Pop3Sessions : SameLocks(p)
      PROVE  Pop3Inv'
  <2>1. ASSUME NEW p \in Pop3Sessions PROVE Pop3SessionInv(p)'
    BY <1>1, Pop3Frame DEF Pop3Inv
  <2> QED
    BY <1>1, <2>1 DEF Pop3Inv, Pop3TypeOK
<1>2. ASSUME Grows, UNCHANGED imap PROVE ImapInv'
  <2>1. ASSUME NEW i \in ImapSessions PROVE ImapSessionInv(i)'
    BY <1>2, ImapFrame DEF ImapInv
  <2> QED
    BY <1>2, <2>1 DEF ImapInv, ImapTypeOK
\* A step that leaves the storage alone keeps what was delivered.
<1>3. ASSUME UNCHANGED drops, SmtpInv',
             \A s \in SmtpSessions : smtp'[s].accepted = smtp[s].accepted
      PROVE  /\ StorageInv' /\ Grows /\ Delivery'
             /\ \A p \in Pop3Sessions : SameLocks(p)
  <2>1. StorageInv' /\ Grows /\ \A p \in Pop3Sessions : SameLocks(p)
    BY <1>3, StorageSteps
  <2>2. Delivery'
    BY <1>3, <2>1, DeliveryFrame DEF StorageInv, Inbox
  <2> QED
    BY <2>1, <2>2
<1>4. ASSUME NEW s \in SmtpSessions, SmtpRuns(s) \/ Unblocks(s)
      PROVE  IInv' /\ Grows
  <2>1. CASE SmtpStep(s) \/ SmtpThrows(s)
    BY <1>1, <1>2, <1>3, <1>4, <2>1, SmtpStepFacts DEF SmtpRuns, Unblocks
  <2>2. CASE Message(s)
    BY <1>1, <1>2, <1>4, <2>2, MessageDelivers DEF SmtpRuns, Unblocks
  <2> QED
    BY <1>4, <2>1, <2>2 DEF SmtpRuns, Unblocks, SmtpUnblocks
<1>5. ASSUME NEW p \in Pop3Sessions, Pop3Runs(p) PROVE IInv' /\ Grows
  <2>1. Pop3Step(p) /\ UNCHANGED <<smtp, imap, running>>
    BY <1>5 DEF Pop3Runs
  <2>2. StorageInv' /\ Grows /\ \A q \in Pop3Sessions \ {p} : SameLocks(q)
    BY <2>1, Pop3StepFacts, StorageSteps
  <2>3. Pop3Inv'
    <3>1. ASSUME NEW q \in Pop3Sessions \ {p} PROVE Pop3SessionInv(q)'
      BY <2>1, <2>2, Pop3Frame, Pop3StepFacts DEF Pop3Inv
    <3> QED
      BY <2>1, <3>1, Pop3StepFacts, Pop3StepOwn DEF Pop3Inv
  <2>4. SmtpInv'
    BY <2>1 DEF SmtpInv, SmtpTypeOK
  <2>5. Delivery'
    <3>1. /\ DOMAIN drops' = DOMAIN drops
          /\ \A u \in DOMAIN drops : Inbox(u)' = Inbox(u)
      BY <2>1, Pop3StepFacts, MutexFacts DEF Inbox
    <3> QED
      BY <2>1, <2>2, <3>1, DeliveryFrame DEF StorageInv
  <2> QED
    BY <1>2, <2>1, <2>2, <2>3, <2>4, <2>5
<1>6. ASSUME NEW i \in ImapSessions, ImapRuns(i) PROVE IInv' /\ Grows
  <2>1. ImapStep(i) /\ UNCHANGED <<smtp, pop3, running>>
    BY <1>6 DEF ImapRuns
  <2>2. /\ UNCHANGED drops /\ ImapTypeOK'
        /\ \A j \in ImapSessions \ {i} : imap'[j] = imap[j]
    BY <2>1, ImapStepFacts
  <2>3. SmtpInv'
    BY <2>1 DEF SmtpInv, SmtpTypeOK
  <2>4. /\ StorageInv' /\ Grows /\ Delivery'
        /\ \A p \in Pop3Sessions : SameLocks(p)
    BY <1>3, <2>1, <2>2, <2>3
  <2>5. ImapInv'
    <3>1. ASSUME NEW j \in ImapSessions \ {i} PROVE ImapSessionInv(j)'
      BY <2>2, <2>4, ImapFrame DEF ImapInv
    <3> QED
      BY <2>1, <2>2, <3>1, ImapStepOwn DEF ImapInv
  <2> QED
    BY <1>1, <2>1, <2>3, <2>4, <2>5
<1>7. ASSUME UNCHANGED <<drops, smtp, pop3, imap>>, running' \in BOOLEAN
      PROVE  IInv' /\ Grows
  <2>1. SmtpInv'
    BY <1>7 DEF SmtpInv, SmtpTypeOK
  <2> QED
    BY <1>1, <1>2, <1>3, <1>7, <2>1
<1> QED
  BY <1>4, <1>5, <1>6, <1>7 DEF Next, Stop, vars

-----------------------------------------------------------------------------
(* The theorems.                                                           *)

\* The invariant holds in every state the server can reach.
THEOREM Invariance == Spec => []IInv
<1>1. Init => IInv
  BY InitInvariant
<1>2. IInv /\ [Next]_vars => IInv'
  BY NextInvariant
<1> QED
  BY <1>1, <1>2, PTL DEF Spec

\* Every variable of the storage and of the sessions keeps its type.
THEOREM TypeCorrectness == Spec => []TypeOK
<1>1. IInv => TypeOK
  BY DEF IInv, StorageInv, SmtpInv, Pop3Inv, ImapInv, TypeOK
<1> QED
  BY <1>1, Invariance, PTL

\* The mutex of try_lock and of the two unique_locks excludes: no maildrop is in
\* the transactions of two POP3 sessions, and none stays locked for a coroutine
\* that has ended.
THEOREM LockingIsExclusive == Spec => []TransactionLocking
<1>1. IInv => TransactionLocking
  BY DEF IInv, Pop3Inv, Pop3SessionInv, TransactionLocking
<1> QED
  BY <1>1, Invariance, PTL

\* The loop of LIST, which waits after every line, writes an entry for all that
\* its first line announced and only for mails that exist.
THEOREM ListIsCovered == Spec => []ListCovers
<1>1. IInv => ListCovers
  BY DEF IInv, Pop3Inv, Pop3SessionInv, ListCovers
<1> QED
  BY <1>1, Invariance, PTL

\* read_message and store_mail: every local recipient gets the mail once, and
\* nobody else; an interrupted mail goes to nobody.
THEOREM DeliveryIsExact == Spec => []Delivery
<1>1. IInv => Delivery
  BY DEF IInv
<1> QED
  BY <1>1, Invariance, PTL

\* The range-for of an IMAP LIST reaches every mailbox.
THEOREM ImapListIsComplete == Spec => []ListComplete
<1>1. IInv => ListComplete
  BY DEF IInv, ImapInv, ImapSessionInv, ListComplete
<1> QED
  BY <1>1, Invariance, PTL

\* No step of any session loses, moves or replaces a mail of an INBOX, or adds
\* or removes a mailbox under an iteration.
THEOREM MailsAreKept == Spec => MailsKept
<1>1. IInv /\ [Next]_vars => [Grows]_vars
  BY NextInvariant
<1>2. [Grows]_vars <=>
        [\A u \in DOMAIN drops :
            /\ u \in DOMAIN drops'
            /\ DOMAIN drops'[u].mails = DOMAIN drops[u].mails
            /\ Len(Inbox(u)) <= Len(Inbox(u)')
            /\ SubSeq(Inbox(u)', 1, Len(Inbox(u))) = Inbox(u)]_vars
  BY DEF Grows
<1> QED
  BY <1>1, <1>2, Invariance, PTL DEF Spec, MailsKept

\* A step into the state "recipients" is MAIL FROM, or RCPT TO and an unknown
\* request in that state: from any other state the envelope becomes empty.
LEMMA EnvelopeStep ==
    ASSUME SmtpInv, NEW s \in SmtpSessions, NEW t \in SmtpSessions,
           SmtpStep(t) \/ SmtpThrows(t) \/ Message(t),
           smtp[s].pc # "recipients", smtp'[s].pc = "recipients"
    PROVE  smtp'[s].recipients = {}
<1> USE DEF SmtpInv, SmtpTypeOK, Reply, Requested, Kept
<1>1. CASE MailFrom(t)
  BY <1>1 DEF MailFrom
<1>2. CASE SmtpAccept(t) \/ SmtpThrows(t)
  BY <1>2 DEF SmtpAccept, SmtpThrows
<1>6. CASE SmtpWritten(t)
  <2>1. smtp'[s].pc \in {smtp[s].pc, "closed"}
    BY <1>6 DEF SmtpWritten
  <2> QED
    BY <2>1
<1>3. CASE SmtpRepliesOnly(t) \/ Helo(t) \/ SmtpQuit(t)
  BY <1>3 DEF SmtpRepliesOnly, Helo, SmtpQuit
<1>4. CASE Data(t) \/ Message(t)
  BY <1>4 DEF Data, Message
<1>5. ASSUME NEW u \in Addresses, RcptTo(t, u) PROVE FALSE
  BY <1>5 DEF RcptTo
<1> QED
  BY <1>1, <1>2, <1>3, <1>4, <1>5, <1>6 DEF SmtpStep

\* The reset of current_mail in the state init_transaction is enough: no mail
\* begins with the recipients of an earlier one.
THEOREM EnvelopeIsFresh == Spec => FreshEnvelope
<1>1. ASSUME IInv, [Next]_vars, NEW s \in SmtpSessions,
             smtp[s].pc # "recipients", smtp'[s].pc = "recipients"
      PROVE  smtp'[s].recipients = {}
  <2>1. SmtpInv
    BY <1>1 DEF IInv
  <2>2. \/ UNCHANGED smtp
        \/ \E t \in SmtpSessions : SmtpStep(t) \/ SmtpThrows(t) \/ Message(t)
    BY <1>1 DEF Next, SmtpRuns, Unblocks, SmtpUnblocks, Pop3Runs, ImapRuns, Stop, vars
  <2> QED
    BY <1>1, <2>1, <2>2, EnvelopeStep
<1>2. IInv /\ [Next]_vars =>
        [\A s \in SmtpSessions :
            smtp[s].pc # "recipients" /\ smtp'[s].pc = "recipients"
                => smtp'[s].recipients = {}]_vars
  BY <1>1
<1> QED
  BY <1>2, Invariance, PTL DEF Spec, FreshEnvelope
=============================================================================
