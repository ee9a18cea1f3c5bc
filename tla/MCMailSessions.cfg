SPECIFICATION FairSpec
CONSTANTS
    SmtpSessions = {s1}
    Pop3Sessions = {p1, p2}
    ImapSessions = {}
    Local = {liia, mika}
    Remote = {}
    Mailboxes = {"INBOX", "Sent"}
    MaxMails = 1
    liia = liia
    Mock <- MockDrops
    NoUser = NoUser
    Nobody = Nobody
CHECK_DEADLOCK FALSE
INVARIANTS TransactionLocking ListCovers
PROPERTIES Answered Unlocked
