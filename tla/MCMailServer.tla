----------------------------- MODULE MCMailServer -----------------------------
(* MailServer for TLC: one maildrop of main's mock data, and the symmetry of *)
(* sessions of the same protocol.                                            *)
EXTENDS MailServer, TLC

CONSTANT liia

MockDrops == liia :> {"INBOX", "Sent"}
Symmetry == Permutations(SmtpSessions) \cup Permutations(Pop3Sessions)
=============================================================================
