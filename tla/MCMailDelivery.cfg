SPECIFICATION Spec
CONSTANTS
    SmtpSessions = {s1, s2}
    Pop3Sessions = {}
    ImapSessions = {i1}
    Local = {liia, mika}
    Remote = {remote}
    Mailboxes = {"INBOX", "Sent"}
    MaxMails = 1
    liia = liia
    Mock <- MockDrops
    NoUser = NoUser
    Nobody = Nobody
CHECK_DEADLOCK FALSE
SYMMETRY Symmetry
INVARIANTS TypeOK Delivery ListComplete
PROPERTIES MailsKept FreshEnvelope
