SPECIFICATION FairSpec
CONSTANTS
    inbox = inbox
    drafts = drafts
    sent = sent
    spam = spam
    Listing <- SomeBoxes
    Quoted = {inbox, drafts, sent}
    Misleading = {drafts, spam, NoBox}
    Refused = {drafts}
    Headers <- SomeHeaders
    Held <- SomeMails
    MaxMails = 2
    NoBox = NoBox
CHECK_DEADLOCK FALSE
INVARIANTS TypeOK Shown AllListed
PROPERTIES Finishes
