SPECIFICATION FairSpec
CONSTANTS
    Mails <- SomeMails
    MaxMails = 2
    MaxFetches = 2
    Refuses = {"greeting", "USER", "PASS", "LIST", "RETR", "QUIT"}
CHECK_DEADLOCK FALSE
INVARIANTS TypeOK InOrder OkIsComplete
PROPERTIES ShownStays WindowReturns
