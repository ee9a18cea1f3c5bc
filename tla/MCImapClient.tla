----------------------------- MODULE MCImapClient -----------------------------
(* ImapClient for TLC: two mailboxes with a mail, one that cannot be         *)
(* examined, and between them one whose name is not in quotes; the lines of  *)
(* the last two may read like a status.  A count of mails can come late,     *)
(* into the answer for a later mailbox.                                      *)
EXTENDS ImapClient, TLC

CONSTANTS inbox, drafts, sent, spam

SomeBoxes == <<inbox, spam, sent, drafts>>

\* A line of a header that shows the given fields.  One with "from: " in it
\* may be the subject; one that reads like a status may be first or last.
Shows(fields) == [reads |-> "none", fields |-> fields]
ReadsLikeNo(fields) == [reads |-> "no", fields |-> fields]
SomeHeaders == {<<Shows({"from"}), Shows({"subject"})>>,
                <<Shows({"from"}), ReadsLikeNo({"subject", "from"})>>,
                <<ReadsLikeNo({"subject"}), Shows({"from"})>>,
                <<Shows({"subject", "from"}), ReadsLikeNo({"from"})>>}

SomeMails == inbox :> 1 @@ drafts :> 0 @@ sent :> 1 @@ spam :> 0
=============================================================================
