----------------------------- MODULE FileTransfer -----------------------------
(***************************************************************************)
(* What a TFTP transfer promises, whichever direction it goes and whatever *)
(* the network does: the file grows one chunk at a time, the sending side  *)
(* reports success only when all of it has been written, the receiving     *)
(* side only then or after the source failed, and no report is taken back. *)
(* TftpRead and TftpWrite implement this specification.                    *)
(***************************************************************************)
EXTENDS Naturals

CONSTANT NumBlocks      \* the number of chunks of the file

VARIABLES
    delivered,  \* how many chunks were written
    sender,     \* the report of the side that has the file: "cut" when it
                \* met a read error, which ends the file early
    receiver    \* the report of the side that writes it

vars == <<delivered, sender, receiver>>

Init == delivered = 0 /\ sender = "open" /\ receiver = "open"

\* The sending side ends, or its source fails.
SenderEnds ==
    /\ sender = "open"
    /\ sender' \in {"cut", "failed"}
    /\ UNCHANGED <<delivered, receiver>>

SenderSucceeds ==
    /\ sender = "open" /\ delivered = NumBlocks
    /\ sender' = "done"
    /\ UNCHANGED <<delivered, receiver>>

\* Before the two sides have found each other the sender counts as open; it
\* may turn out to have ended.
SenderStays == \/ sender' = sender
               \/ /\ delivered = 0 /\ sender = "open"
                  /\ sender' \in {"cut", "failed"}

\* A chunk is written.  It may come from a sender that has ended since, and
\* the receiving side may fail before it has acknowledged it.
Deliver ==
    /\ receiver = "open" /\ delivered < NumBlocks
    /\ delivered' = delivered + 1
    /\ receiver' \in {"open", "failed"}
    /\ SenderStays

ReceiverSucceeds ==
    /\ receiver = "open"
    /\ delivered = NumBlocks \/ sender = "cut"
    /\ receiver' = "done"
    /\ UNCHANGED <<delivered, sender>>

ReceiverFails ==
    /\ receiver = "open"
    /\ receiver' = "failed"
    /\ SenderStays
    /\ UNCHANGED delivered

Next == SenderEnds \/ SenderSucceeds \/ Deliver \/ ReceiverSucceeds
        \/ ReceiverFails

Spec == Init /\ [][Next]_vars

=============================================================================
