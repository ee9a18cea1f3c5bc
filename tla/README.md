# A TLA+ model of the TFTP and mail programs of ties323

The repository holds small network programs written for a course: clients and
servers for TFTP, a mail server that speaks SMTP, POP3 and IMAP, and clients
for FTP, POP3 and IMAP, all in C++ on asio. This directory models all of them;
it checks the models with TLC, and proves with TLAPS the safety of every one of
them (TFTP reads and writes, the mail server, the FTP, POP3 and IMAP clients)
and that the TFTP protocols implement an abstract file transfer. Paths below
are relative to the repository.

## Inventory

| component | state | operations | interacts with |
|---|---|---|---|
| TFTP client, `protocols/ftp/tftp_client` | locked server port, block number, last data size, file stream, watchdog | request, handle response, `send_loop`, `receive_loop`, timeout, watchdog, signal | TFTP server, over UDP |
| TFTP server, `protocols/ftp/tftp_server` | per connection: socket, block number, stream, watchdog; shared: the directory | accept RRQ or WRQ (one coroutine per request), both loops, stop | clients over UDP; connections share files |
| mail storage, `protocols/mail/smtp_server/src/mail.h` | maildrops, mailboxes, transaction mutex per maildrop, `write_lock` | append, look up, lock, unlock | shared by all sessions |
| SMTP, POP3, IMAP sessions, same directory | session state, envelope or user, owned lock, position in a LIST | one per command, write of each line, end by exception | storage; one thread of one `io_context` |
| FTP client, `protocols/ftp/ftp_client` | control and data socket, the lines read in a window | login, PASV, LIST, RETR | an external server, over two connections |
| POP3 client and its GUI, `protocols/mail/pop3_client` | numbers to retrieve, fetched mails, status, selected row | button, select; login, LIST, RETR, QUIT | an external server; the window waits for the client |
| IMAP client, `protocols/mail/imap_client` | lines read, mailboxes with summaries | login, LIST, EXAMINE, FETCH, LOGOUT | an external server |
| `kathara/`, `server/` | | | configuration, scripts and notes: no program logic |

What is hard, and what makes the parts correct:

- **TFTP.** Packets are lost, duplicated and reordered (the repository's own
  test does so with netem); a duplicated request makes two connections serve
  one client; timeouts race late packets; files end on or off a block
  boundary; block numbers are finite; streams fail in the middle. Correct
  means: what is written is a prefix of the file, a reported success is true,
  nobody waits for ever, and a transfer completes if the network lets it.
- **Mail server.** Every `co_await` lets other sessions run: what was read
  from the storage before it may be stale after it; a mutex is held across
  many of them; a session may end by an exception at each. Correct means:
  delivery to all local recipients once, no leaked or shared lock, listings
  that agree with the mailboxes, and answers for everybody.
- **Clients of TCP protocols.** Sequential dialogues with a server that is not
  part of the program. Replies come late, end early or not at all, lines are
  torn by a timer, answers to one command are read as those to the next.
  Correct means: nothing false is shown, nothing is attributed to the wrong
  file, mail or mailbox, and the client comes back.

`PROJECT.json` lists the hazards with their lines and the properties that
cover them.

## Modules

| module | models |
|---|---|
| `TftpCommon` | the file, block numbers, and the loop bodies that client and server share in copy: `SenderTop`, `SenderAfterAck` (send_loop), `ReceiverTop`, `ReceiverAfterWrite` (receive_loop) |
| `TftpRead` | an RRQ: `read_client`, the listener, `read_connection`, UDP |
| `TftpWrite` | WRQs of several clients to one name: `write_client`, the listener, `write_connection`, UDP |
| `FileTransfer` | the abstract specification: a file that grows by a chunk at a time, two reports that are true and final |
| `MailStorage` | `mail_storage`: maildrops, delivery, the transaction mutex |
| `SmtpSession`, `Pop3Session`, `ImapSession` | one session of each protocol, over the shared storage |
| `MailServer` | the composition: all sessions on one thread, the signal, properties |
| `Selection` | `Selected`: the loop by which the mail clients pick lines out of an answer |
| `FtpClient` | the FTP client, its two connections and any server |
| `Pop3Client` | the POP3 client, the window that calls it, and any server |
| `ImapClient` | the IMAP client, the lines on their way to it, and any server |
| `MCTftpRead`, `MCTftpWrite`, `MCMailServer`, `MCPop3Client`, `MCImapClient` | the instances for TLC; `FtpClient` needs none |
| `TftpCommonProofs`, `TftpReadProofs`, `TftpWriteProofs` | safety of TFTP, and that reads and writes implement `FileTransfer`, proved |
| `MailServerProofs`, `FtpClientProofs` | safety of the mail server and of the FTP client, proved |
| `SelectionProofs` | what `Selected` returns, for every sequence, proved |
| `Pop3ClientProofs`, `ImapClientProofs` | safety of the POP3 and of the IMAP client, proved |

A definition called `...Unreduced`, `Any...`, `...Anyway` and the like, whose
comment says *Mutant of*, is a plausible wrong version of its neighbour. No
specification uses it; it shows that a property would notice the mistake.

### How TFTP is modelled

A step is what a coroutine does from one wait to the next, so the sending of
a packet that ends a loop body belongs to the step that led to it. All
`continue` statements go to the top of the loop: `SenderTop` and `ReceiverTop`
are the code from there to the wait (loop condition, watchdog test, send), as
the set of its outcomes. What arrives then selects the action:

| code | action |
|---|---|
| timeout of two seconds | `ConnTimeout`, `ClientTimeout`; `ClientFinish`, `ConnFinish` after the last block |
| packet of another endpoint | `ClientRejects`: an error packet goes back, the loop goes on from its top. Where the origin is in no transfer, its packet is the fault "stray" and has the effect of a timeout |
| wrong opcode or block number | `ClientIgnores`, `ConnIgnores` |
| the awaited packet | `ClientAccepts`, `ConnAdvances`; `ClientAdvances`, `ConnAccepts` |
| `watchdog` | `ClientWatchdog`, `ConnWatchdog` set the flag, which is only looked at by the top of a loop; `reset()` does not clear it |
| signal, `io_context.stop()` | `ClientInterrupted`, `ServerStops` |

The network is a set of packets: a copy of a packet that is equal to another
one adds nothing. A packet that is received may stay, which is duplication.
The bytes of a chunk are its number, so a packet carries the block number
(which wraps) and the chunk (which does not), and the programs only look at
the first. `block_t` has 16 bits; `BlockModulus` stands for 2^16. Both
receivers compare `block_number` with `current_block + 1`, which C++ computes
as `int`: `IsNextData` does not reduce the sum. When reading and when writing
chunks the streams fail as the fault set allows: a failed read returns no
byte, and `send_loop` treats this like the end of the file until it asks for
`eof`. A failed write at the server may have stored any part of the data; the
connection ends at the top of its loop, without an acknowledgement, and the
part stays (`StoredIsPrefix`). In a read such a part is never seen, because
`read_client` removes the file when `receive_loop` fails (`TargetOf`). A file
that cannot be opened is a stream that is bad from the beginning.

`Faults` names what may go wrong, so a run can show which property holds under
which faults.

### How the mail server is modelled

`pc` is the code's `session_state`, split where a LIST waits between lines.
While `writing` is true the session waits for its reply to be written, and
`pc` is the state it goes to then. `SmtpThrows`, `Pop3Throws` and `ImapThrows`
are the exceptions of reads and writes when a peer goes away, possible at
every wait. Requests that change nothing but produce a reply are one action
(`...RepliesOnly`), whatever the text. The lines of a reply between which no
shared state is read are one write.

Nothing but `main` runs the `io_context`, so one handler runs at a time.
`read_multiple_lines` of the SMTP server is a coroutine that never waits: it
calls the synchronous `read_until`. While a session is there (`Blocking`) no
other session takes a step, nor does the signal handler: `Runs`.

`accepted` is a history: the recipients of each mail whose last line a session
has read, which is when the code delivers it and then says 250. `Delivery`
compares the maildrops with it, in both directions: an acknowledged mail is in
the INBOX of each of its local recipients, and what is in an INBOX is such a
mail.

`write_lock` is taken and released in one step, which is why it is not a
variable. The envelope of a mail is its set of recipients; `from` and the
text are left out. `is_local` is a search for `@localhost` anywhere in the
address, without regard to case, while maildrops are found by the exact
string: `Local` is the set of addresses the search accepts, so two spellings
of one name are two members of it.

### How the clients are modelled

The servers are external: their actions (`Server...`, `Arrives`, ...) are what
the protocols let them do, with every refusal, and are marked so in
`PROJECT.json`.

**FTP.** `read_multiple_lines` takes lines until none comes for 100 ms and
returns all of them, of which the callers look at the last. `ReadLine` takes
one; `Closes` is the timer, possible at any time, so replies may come after
their window has closed. The buffer of the window goes with it, and what it
holds by then: no line, or some lines, or some lines and the head of the next,
whose tail remains and reads like an unknown reply. `DataBreaks` resets the
data connection, also when 226 has been said: a read that ends otherwise than
with `eof` (`EndOfData`) prints nothing. `last` is the last line
taken. Every line the client writes has a number and every reply bears that
of the line it answers (`of`), which the client never looks at: the
properties do. `TransferGivenUp` is the `default` branch of `execute`: any
last line but 226 and 550 ends the command without output or error, which is
what happens to a transfer that takes longer than the window and to a file
the buffers of a connection cannot hold, because nobody reads the data before
226 has come. `OutputTrue` therefore says what is printed is true, not that
something is. `ls` is the transfer of a name like `cat`.

**POP3.** One answer at a time, in lock step; `pc` is the answer that is
waited for, and `"window"` when the client is not running. `InWindow` is the
guard of all actions of the window, since the button's handler calls the
client and returns when it has ended. `parse_message` is `ParseMessage`, over
lines that are their kind. `Throws` may come at every wait. The maildrop
changes between sessions and not in one, as POP3 promises; the other mails a
person moves are `Removed`. -ERR in answer to LIST or RETR has no line ".",
and `read_multiline` waits for it: `Hangs` is that state, which no step but an
exception leaves. It is the exception that `WindowReturns` makes: that
property shows that nothing else keeps the window, not that `Hangs` is
harmless.
`OkIsComplete` compares with what the server listed: with a refused login the
status is "OK" and there are no mails.

**IMAP.** `wire` holds the lines that have come. An answer ends at the first
line that `has_status` matches: a tagged status, an untagged OK, which many
servers send in answer to EXAMINE, a header such as "Subject: say no more",
the name of a mailbox in the answer to LIST, or a capability before the reply
to LOGIN. Every line therefore has a field `reads`: "none", "ok" (`is_ok`
accepts it too) or "no". What the lines of the listing and the one before the
reply to LOGIN read like is chosen once (`reading`), for those that are
`Misleading`; what the lines of a header read like, and which fields the
searches find in each of them, is one of `Headers`: "Subject: re: from: me" is
a line in which two fields are found, and the last line counts.

What the same buffer holds after the end is dropped; what comes later is
the beginning of the next answer. `Ended(j, k)` is a read that finds the end
in line j when k lines were there. The commands wait in `requests` and the
server answers all of them in their order, also when the client has gone on to
the next because of a line of an earlier answer. The ghost `lost` is set when
a part that matters was dropped or left; `Shown` holds as long as it is not,
and it is seldom set in vain: with an early end the summaries may be those of
other mails or empty. `Shown` says nothing then, which is the hazard itself;
`AllListed` and `Finishes` hold nevertheless. `AllListed` says exactly what an
early end does to a listing: the mailboxes are those up to the misleading
line, and with `* LIST () "/" "Old notes"` (no "ok" after a space) there are
none, because the answer is taken for a failure.

## Runs

| run | question | bounds |
|---|---|---|
| `tftp_read` | safety of reads, the inductive invariant, refinement of `FileTransfer` | three blocks, the last one short; two connections; all faults |
| `tftp_read_live` | does every party end, and does a transfer complete? | two full blocks and an empty one; two connections; slowness, loss, duplication, strays |
| `tftp_write` | two uploaders of one name, the inductive invariant (types included), refinement of `FileTransfer` | two clients, two connections, two blocks; all faults but strays and signals |
| `tftp_write_live` | does every party end, and does an upload complete? | one client, two connections, two full blocks and an empty one; slowness, loss, duplication, strays, signals |
| `mail_delivery` | delivery, and the iteration of an IMAP LIST | two SMTP sessions, one mail each, one IMAP session, a maildrop, a new address and a remote one |
| `mail_sessions` | locking, LIST; are sessions answered and maildrops unlocked? | two POP3 sessions, one SMTP session with one mail, a maildrop and a new address |
| `ftp_client` | replies in step, true output, a client that comes back | three commands; two files that fit the buffers, one that does not, one that is absent; a data connection that may break at any time |
| `pop3_client` | the window shows what the server listed, and comes back | two mails, two fetches, every refusal; a mail with two paragraphs and a dot, one without text, one without a blank line |
| `imap_client` | summaries in their places, the mailboxes of the listing, and an end | two mailboxes with one mail, which grow to two; an empty one that is refused and one whose name is not quoted, both misleading, as is the line before the reply to LOGIN; four forms of headers |

Two connections are enough for the case that matters, an old copy of the
request that reaches the listener while a transfer runs; a third one would be
another instance of the second. Two blocks after the first show a step in the
middle, a last one, and an acknowledgement that is two numbers old.
`BlockModulus` is the smallest value that the file does not reach, so that
the number of the block after the last one wraps. One mail on its way is
enough to change a mailbox between two lines of a LIST. `ChunkSize` is 2 so that
empty, short and full chunks differ. What is
proved has no such bounds.
Three FTP commands let a reply to the first be read in the window of the
second and its transfer be replaced in the third. Two fetches are a first one
and one that finds an old storage and a selection. In `imap_client` a mailbox
whose count comes late is followed by one that can be examined and that by
one that cannot; the listing may end early in its second line, which is not
quoted, or in its last, which is. `tftp_read_live` has no stopping server:
that a client ends without one is shown by `tftp_write_live`.

`CHECK_DEADLOCK FALSE` stands in every configuration: clients, connections
and sessions end, and the server can be stopped.

### Disagreements with the documentation

Three runs end with a counterexample.

- `tftp_read_wrap`: the block after number 65535 is never accepted, so files
  of 32 MiB and more cannot be transferred. The run has `BlockModulus` 3.
- `tftp_read_truncated`: a read error at the server produces an empty data
  packet, which the client takes for the end of the file: it reports success.
  The server notices afterwards.
- `mail_blocked`: one SMTP client between DATA and the final dot keeps all
  sessions waiting.

These are the exceptions that `ClientSuccess` and `Answered` state explicitly
or avoid by an assumption. Other disagreements are exceptions of properties
that hold, and stated in them:

- an empty file is never sent, the connection reports success and the client
  times out (`ServerSuccess`, `LockStep` of `TftpRead`);
- a mail delivered during a LIST makes its entries more than the number in its
  first line (`ListCovers` has `<=` where `=` would be expected);
- an FTP transfer that takes longer than the window ends in silence
  (`OutputTrue` says nothing of `"nothing"`);
- a refused RETR keeps the POP3 client waiting (`Hangs`). The POP3 server of
  this repository has no RETR, so the two programs of the repository meet in
  this state whenever there is a mail;
- an answer of an IMAP server that ends early puts summaries in the wrong
  places (`lost`), and a mailbox whose name reads like a status is the last
  one that is shown, or there is none (`Heard`).

## Fairness

- `FairSpec` of the TFTP modules: each wait ends, since `receive_packet` has a
  timer of two seconds. Weak fairness of the whole wait is assumed, not of
  the arrival of a packet; nothing is assumed of the network.
- `Termination` assumes `WatchdogsFire` in addition: a timer of ten seconds
  fires. It is an assumption of the property and not of `FairSpec`, because
  `Completion` is about the behaviours in which no watchdog fires.
- `Completion` assumes `Delivery`: a packet that is sent again and again is in
  the end received while it is awaited (strong fairness of `ClientAccepts`
  and `ConnAdvances`, `ClientAdvances` and `ConnAccepts`), after the last
  block of a read the network is quiet for two seconds at some time, and no
  watchdog has fired. With a watchdog a transfer may of course fail under
  heavy loss. The mutants and `tftp_read_wrap` show behaviours that satisfy
  the assumption and do not complete.
- `WriteSpec` of the mail server: a line that is written reaches its peer.
  Strong fairness for POP3, because the thread is taken away while a mail is
  read and given back, and asio serves handlers in their order. `FairSpec`
  adds that SMTP clients finish or drop their mails, and `Unlocked` assumes
  that POP3 clients disconnect; the code has no timeout that would replace
  either, as `mail_blocked` shows for the first.
- `FairSpec` of `FtpClient`: every wait of the client ends, for each has a
  timer, but for the resolving of the server's name and the writing of a line,
  which the system ends. Nothing is assumed of the server.
- `FairSpec` of `Pop3Client` and `ImapClient`: the client reads what has come,
  and the server answers. Their reads block and have no timer, so without
  the second nothing could be promised.

## Proofs

Every theorem is about `Spec`, without fairness, for all values of the
constants that the assumptions of its module allow. None of the safety
properties is inductive; each module has an invariant that is (`IInv`), shown
to hold initially and to be kept by one step of the proof per action, and the
properties follow from it.

### TFTP reads: `TftpReadProofs`

For any file, any number of connections, any set of faults and any
`BlockModulus` of at least 2, smaller than the file included.

The argument of `IInv`: the client's block number counts the chunks it has
written and therefore never wraps (`IsNextData` accepts no wrapped number);
acknowledgements under way are for chunks it has written, and all go to the
port it is locked on to (`ClientInv`, `AckInv`); hence that connection is at
the chunk the client has or at the next one, and any other connection at its
first (`ConnInv`). A packet under way holds the chunk whose number it bears,
because of the chunks up to `BlockModulus` no two have the same number
(`BlockInv`). Chunks are whole unless the connection's stream went bad, and
then nothing follows (`StreamInv`, `NothingAfter`). So what the client
accepts is the next chunk of the file (`TargetInv`).

`InitIInv`, `ClientKeepsIInv`, `ServerKeepsIInv` and `LoseKeepsIInv` have one
step per action. They rest on lemmas for the kinds of steps there are:
`QuietStep` (nothing counts), `ClientRepeats` (an acknowledgement is sent),
`ClientWrites` (a chunk is written), `ConnsQuiet` and `ConnSends`. The
theorems are `Invariance`, `TypeCorrectness`, `Integrity` (`TargetIsPrefix`),
`StopAndWait` (`LockStep`), `ClientSuccessIsTrue` and `ServerSuccessIsTrue`.
`StopAndWait` and `ServerSuccessIsTrue` assume that the file is not empty,
since an empty one is never sent.

### TFTP writes: `TftpWriteProofs`

For any number of clients and connections and any faults, if
`NumBlocks < BlockModulus`: with more blocks an old acknowledgement can be
taken for a new one (see Limits).

Only one connection ever creates the file, the writer (`Writers` has at most
one member), because the others find it there. Only the writer acknowledges
blocks other than 0, and only blocks it has written (`AckInv`), so only its
own client gets on, and that client is at the chunk the writer has or at the
next one (`ConnInv`, `ClientInv`); a client that has not found the writer
sends no data. Data packets go to the writer and hold the chunk whose number
they bear
(`BlockInv`, `IsChunk`), and a chunk cut short by a read error is the last one
(`NothingAfter`). So what the writer stores is the next chunk of its client's
file (`StoredInv`), or a part of it when the write fails; then the writer has
ended, no acknowledgement of that block is under way and its client has not
got past it (`BrokeOff`), so that no report rests on it. `ClientQuiet`, `ClientSends`, `ConnsQuiet`, `NewWriter`
and `ConnWrites` are the kinds of steps. The theorems have the names of those
about reads; `ClientSuccessIsTrue` assumes in addition that the file is not
empty.

### Refinement: `TftpReadProofs`, `TftpWriteProofs`

`Refinement`, at the end of both modules, is `Spec => ImplementsTransfer`, for
files that are not empty. In a read, steps of the client are deliveries or
reports of the receiver, steps of the connection the client is locked on to are
reports of the sender, and everything else stutters, so the proof is mostly
that a report once made stays (`ReportIsFinal`), and is true when it is made
(`ShortIsLast`, `OkIsAtEnd`). In an upload the transfer is the one between the
writer and its client; `ViewFacts` says what the abstract state is in terms of
the two.

### FTP client: `FtpClientProofs`

For any number of commands, any files and any server the model allows.

The client never looks which command a reply answers, and windows close too
early. `InStep` holds nevertheless. The server answers in order and PASV is the
last line written, so a 227 is the last thing on its way, and when the client
leaves the window with it for a data connection nothing is left (`PassiveInv`,
`Quiet`). From there everything that comes is about the line written next:
226 is said when all data were sent, 550 when the file is absent
(`TransferInv`, `TransferTrue`). 230 comes only from a server that let the
user in, however late (`LoginInv`). Torn lines need care, since the rest of
one is a line too; it never reads like a reply the client acts on
(`TornIsRest`). The theorems are
`LoginIsTrue`, `RepliesInStep` and `OutputIsTrue`, next to `Invariance` and
`TypeCorrectness`.

### Mail server: `MailServerProofs`

For any number of sessions, addresses, mailboxes and mails.

Each session has an invariant of its own over the shared storage
(`Pop3SessionInv`, `ImapSessionInv`). Steps of other sessions keep it because
the storage only grows (`Grows`) and nobody touches a mutex that another
session owns (`SameLocks`): `Pop3Frame`, `ImapFrame` and `DeliveryFrame` say
so once, and `StorageSteps` shows that all steps are of this kind. `Delivery`
is inductive with the fact that a session in DATA has a number left for its
mail: `Deliver` makes the maildrops of all recipients of the mail and appends
it to each, in the step in which it is appended to `accepted`, and nothing is
ever taken from an INBOX. The theorems are `LockingIsExclusive`, `ListIsCovered`,
`DeliveryIsExact`, `ImapListIsComplete`, and of steps `MailsAreKept` and
`EnvelopeIsFresh`.

### Picking lines: `SelectionProofs`

`Selected` is a recursive function over the positions of a sequence. The
induction theorems of the library take an operator as a parameter, which the
provers cannot instantiate; `Induction` takes a set of numbers instead, and
follows from the well-foundedness of `<` on the naturals (`Least`). With the
set of those lengths for which a statement holds it serves as induction over
sequences too (`SequenceInduction`). The lemmas say what `Selected` returns
for a sequence that grows by a line (`SelectedAppend`), for two sequences one
after the other (`SelectedConcat`), where nothing or everything is picked
(`SelectedNone`, `SelectedAll`), how many lines are picked
(`SelectedCounts`), and that picking and then reading a field is the same as
reading and then picking (`SelectedImage`), which is how lines of a LIST
become names of mailboxes. `LineRead`, `LastLineRead` and `SomeRead` are about
an answer that is read with other lines before and after it.

### POP3 client: `Pop3ClientProofs`

For any mails, any number of them, any number of fetches and any refusals.

`ParseIsShown` is about `parse_message` alone: the answer to RETR, for a mail
of any length and form, is parsed into what the window should show of that
mail: the headers are those above the first blank line and the text is what
comes after it; where there is none, the whole answer is the text. The two
cases are `ParseWithBlank` and `ParseWithoutBlank`; that as many headers are
counted as `Selected` picks is an induction (`SelectedCounts`).

`IInv` says in addition where the dialogue is. Client and server take turns,
so what has been read and what is on its way are together the answer to the
command written last, or a refusal (`AnswerInv`). The numbers still to be
retrieved follow those of the mails retrieved, and both together are the
maildrop (`MailsInv`), which is why the answer to RETR is of the mail that
belongs in the next place of the storage. The theorems are `MailsInOrder`
(`InOrder`), `OkCompleteness` (`OkIsComplete`) and, of steps,
`SelectionStays` (`ShownStays`).

### IMAP client: `ImapClientProofs`

For any mailboxes, any number of mails in them, mails that arrive at any time,
and listings and headers whose lines read like a status or not and show any
fields.

A server may say how many mails there are without being asked, and a read may
end too early; so what has come (`Come`: the lines read and those on the wire)
may belong to any command. `StepInv` says that it does not, unless `lost` is
set: while the client waits, what has come is counts and nothing else
(`Pending`), or the one answer to the command written last, with counts before
and after it (`Answered`). `TheEnd` and `EndOfReply` are the heart of the
proof: the first line with a status lies within that answer, so what a read
takes is counts and a part of the answer, and what it leaves or drops is noticed
(`lost`) if it matters. `AmountRead` and `HeaderRead` say what the
client gets out of that part, although it does not know where the answer
begins: `AmountRead` gives a number of mails that the mailbox had at some time
since the client began with it, `HeaderRead` the summary of the mail asked
for. `HeaderRead` needs that each field has a line of its own, which
`HeadersAssumption` states, and nothing about the others it is found in: the
values are told apart by their mails only. Before the answer to LIST the
server sends no counts, so the answers up to it are read whole, up to their
first status (`BeforeKeeps`). A line before the reply to LOGIN that was taken
for it leaves that reply to be read as the beginning, and end, of the listing;
then nothing is stored. Once the listing was read the names stay
(`NamesKept`), whatever the client takes for answers; this is why `AllListed`
needs no assumption about what is lost later. `LoopInv` is the part of
`IInv` that holds of answers out of step. `NextBoxKeeps`, `NextMailKeeps` and
`OverKeeps` are the three ways the loops over mailboxes and mails go on. The
theorems are `MailsShown` (`Shown`) and `MailboxesListed` (`AllListed`).

The two `IInv` hold on the instances of the runs `pop3_client` and
`imap_client`; TLC checked that before they were proved.

### Only model-checked

Liveness: `Termination`, `Completion`, `Answered`, `Unlocked`, `Responds`,
`WindowReturns` and `Finishes`, since fairness and ENABLED are out of the
prover's reach. Every other property of a passing run is stated by a theorem.

## Limits

- `ClientSuccess` of `TftpWrite` needs files with fewer blocks than there are
  block numbers: beyond that an acknowledgement of block 0 that was delayed
  for a whole transfer of 32 MiB would be taken for a new one.
- Streams are written through: errors at the close of a stream are not seen.
- Names of files, modes and texts of error packets are left out; so are
  malformed packets, which the code maps to opcode `unknown` or block 0 and
  which then are packets that are not awaited.
- A read of a file that another connection still writes is not modelled, nor
  is the lifetime of a `watchdog` whose handler is queued.
- Peers of the mail server send one request at a time: `read_data` drops what
  follows a line in the same segment.
- The clients' servers answer every command, if with a refusal, in the form the
  protocol gives it; lines that no server sends are not explored.
- A summary of the IMAP client has two fields for the program's four, and the
  value of a field is the mail it comes from: a subject that is shown as a
  sender of the same mail is not noticed.
- Closing the POP3 client's window, and SIGINT while it waits, do nothing in
  the model; in the code the second is swallowed because the `io_context`
  never runs.

## Plan

1. Done: TFTP reads and writes, the mail server, the three clients; the proofs
   of safety of all of them, and of both refinements of `FileTransfer`.
2. `TftpServer`: connections of both kinds over one directory, with a read
   of a name that is being written; `Watchdog`: the lifetime of the object
   against its queued handler; the byte stream that the SMTP server's
   `read_data` cuts into lines.
