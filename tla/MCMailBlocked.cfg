SPECIFICATION WriteSpec
CONSTANTS
    SmtpSessions = {s1}
    Pop3Sessions = {p1}
    ImapSessions = {}
    Local = {liia}
    Remote = {}
    Mailboxes = {"INBOX", "Sent"}
    MaxMails = 1
    liia = liia
    Mock <- MockDrops
    NoUser = NoUser
    Nobody = Nobody
CHECK_DEADLOCK FALSE
PROPERTIES Answered
