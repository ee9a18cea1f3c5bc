------------------------------- MODULE FtpClient -------------------------------
(***************************************************************************)
(* The FTP client: one coroutine that talks to an external server over a   *)
(* control connection, and opens a data connection for every command.     *)
(*                                                                         *)
(* A reply is read by read_multiple_lines, which takes lines until none    *)
(* comes for read_timeout and returns the last one: `last' is that of the  *)
(* lines taken so far.  Replies are late or early as they like, so the     *)
(* lines taken after a command may answer an older one, or not yet this    *)
(* one.  A reply bears the number of the line it answers (`of'), which the *)
(* client cannot see.  ls is the transfer of a name as cat is.             *)
(***************************************************************************)
EXTENDS Integers, Sequences

CONSTANTS
    Names,          \* what the user asks for
    Files,          \* the names that exist on the server
    Big,            \* files that the buffers of a connection cannot hold
    MaxCommands,    \* bounds the commands of the user
    NoName, NoLine

ASSUME FilesAssumption == Big \subseteq Files /\ Files \subseteq Names
ASSUME NoAssumption == NoName \notin Names
ASSUME BoundAssumption == MaxCommands \in Nat

VARIABLES
    pc,         \* where the coroutine waits
    last,       \* the last line read_multiple_lines has taken
    asked,      \* the name in the command of the user
    commands,   \* how many commands there were
    writes,     \* lines written to the control connection
    output,     \* what the current command has printed
    control,    \* replies on their way
    requests,   \* lines the server has not handled
    serving,    \* the transfer the server is at, 0 or its line
    data,       \* the data connection
    loggedIn    \* the server has let the user in

clientVars == <<pc, last, asked, commands, writes, output>>
serverVars == <<serving, loggedIn>>
vars == <<clientVars, control, requests, data, serverVars>>

\* enum reply; "passive" is 227 and "other" any code without a name.
Codes == {"ready", "closing", "login", "password", "invalid", "failed",
          "passive", "other"}
Verbs == {"OPTS", "USER", "PASS", "PASV", "TRANSFER"}
Reply(code, of) == [code |-> code, of |-> of]

MaxWrites == 3 + 2 * MaxCommands
Replies == [code : Codes, of : 0 .. MaxWrites]
\* The waits of read_multiple_lines, and all waits.
Reading == {"greeting", "opts", "user", "pass", "passive", "transfer"}
Pcs == Reading \cup {"connect", "prompt", "open", "data", "ended"}

\* Before PASV, after it, connected, closed by the server with all or with a
\* part of the file sent, broken, closed by the client.
DataStates == {"none", "listening", "open", "whole", "part", "broken", "closed"}

TypeOK ==
    /\ pc \in Pcs
    /\ last \in Replies \cup {NoLine}
    /\ asked \in Names \cup {NoName}
    /\ commands \in 0 .. MaxCommands
    /\ writes \in 0 .. MaxWrites
    /\ output \in [kind : {"nothing", "data", "missing"},
                   name : Names \cup {NoName}, whole : BOOLEAN]
    /\ control \in Seq(Replies)
    /\ requests \in Seq([verb : Verbs, name : Names \cup {NoName},
                         number : 1 .. MaxWrites])
    /\ serving \in 0 .. MaxWrites
    /\ data \in [state : DataStates, port : 0 .. MaxWrites,
                 name : Names \cup {NoName}]
    /\ loggedIn \in BOOLEAN

Nothing == [kind |-> "nothing", name |-> NoName, whole |-> FALSE]

Init ==
    /\ pc = "connect" /\ last = NoLine /\ asked = NoName
    /\ commands = 0 /\ writes = 0 /\ output = Nothing
    /\ control = <<>> /\ requests = <<>> /\ serving = 0
    /\ data = [state |-> "none", port |-> 0, name |-> NoName]
    /\ loggedIn = FALSE

-----------------------------------------------------------------------------
(* The client.                                                             *)

\* write_data to the control connection, and the wait for the reply.
Write(verb, name, next) ==
    /\ requests' = Append(requests, [verb |-> verb, name |-> name,
                                     number |-> writes + 1])
    /\ writes' = writes + 1
    /\ pc' = next /\ last' = NoLine

\* Nothing is written: the coroutine goes to a wait of another kind.
GoTo(next) == pc' = next /\ UNCHANGED <<requests, writes, last>>

Connect ==
    /\ pc = "connect"
    /\ GoTo("greeting") \/ GoTo("ended")
    /\ UNCHANGED <<asked, commands, output, control, data, serverVars>>

\* async_read_until comes before the timer.
ReadLine ==
    /\ pc \in Reading /\ control # <<>>
    /\ last' = Head(control) /\ control' = Tail(control)
    /\ UNCHANGED <<pc, asked, commands, writes, output, requests, data,
                   serverVars>>

\* Mutant of Closes: a first line is waited for without a timer.
ClosesAfterLine(next) ==
    pc = next /\ last # NoLine /\ UNCHANGED control

\* The timer comes first, or the read fails.  What the buffer of the window
\* holds is lost: none, or some of the lines, or the last of them in part.
Closes(wait) ==
    /\ pc = wait
    /\ \E lost \in 0 .. Len(control) :
        LET rest == SubSeq(control, lost + 1, Len(control))
        IN \/ control' = rest
           \/ /\ lost > 0
              /\ control' = <<Reply("other", control[lost].of)>> \o rest

\* The last line that was read has one of the codes.
Says(codes) == last # NoLine /\ last.code \in codes

Greeted ==
    /\ Closes("greeting") /\ Says({"ready"})
    /\ Write("OPTS", NoName, "opts")
    /\ UNCHANGED <<asked, commands, output, data, serverVars>>

\* Mutant of OptsRead: the command is sent again until it is answered.
OptsResent ==
    /\ Closes("opts")
    /\ IF last = NoLine THEN Write("OPTS", NoName, "opts")
                         ELSE Write("USER", NoName, "user")
    /\ UNCHANGED <<asked, commands, output, data, serverVars>>

\* The reply to OPTS is not looked at.
OptsRead ==
    /\ Closes("opts")
    /\ Write("USER", NoName, "user")
    /\ UNCHANGED <<asked, commands, output, data, serverVars>>

\* Mutant of LoginAccepted: everything but a refusal lets the user in.
NotRefused == last # NoLine /\ last.code # "invalid"

LoginAccepted == Says({"login"})

UserRead ==
    /\ Closes("user")
    /\ \/ Says({"password"}) /\ Write("PASS", NoName, "pass")
       \/ LoginAccepted /\ GoTo("prompt")
    /\ UNCHANGED <<asked, commands, output, data, serverVars>>

PassRead ==
    /\ Closes("pass") /\ LoginAccepted /\ GoTo("prompt")
    /\ UNCHANGED <<asked, commands, output, data, serverVars>>

\* No reply, or the wrong one: the client ends.
LoginFails ==
    /\ \/ Closes("greeting") /\ ~Says({"ready"})
       \/ Closes("user") /\ ~Says({"password"}) /\ ~LoginAccepted
       \/ Closes("pass") /\ ~LoginAccepted
    /\ GoTo("ended")
    /\ UNCHANGED <<asked, commands, output, data, serverVars>>

\* ls, cat
Ask(name) ==
    /\ pc = "prompt" /\ commands < MaxCommands
    /\ Write("PASV", NoName, "passive")
    /\ asked' = name /\ commands' = commands + 1 /\ output' = Nothing
    /\ UNCHANGED <<control, data, serverVars>>

Quit ==
    /\ pc = "prompt"
    /\ GoTo("ended")
    /\ UNCHANGED <<asked, commands, output, control, data, serverVars>>

\* Mutant of PassiveAccepted: the reply is not matched.
AnyReply == last # NoLine

PassiveAccepted == Says({"passive"})

PassiveRead ==
    /\ Closes("passive")
    /\ GoTo(IF PassiveAccepted THEN "open" ELSE "ended")
    /\ UNCHANGED <<asked, commands, output, data, serverVars>>

\* connect_with_timeout to the port that was read, then LIST or RETR.
DataConnects ==
    /\ pc = "open" /\ data.state = "listening" /\ data.port = last.of
    /\ data' = [data EXCEPT !.state = "open"]
    /\ Write("TRANSFER", asked, "transfer")
    /\ UNCHANGED <<asked, commands, output, control, serverVars>>

DataRefused ==
    /\ pc = "open"
    /\ GoTo("ended")
    /\ UNCHANGED <<asked, commands, output, control, data, serverVars>>

\* Mutant of Completed: the first reply is good enough.
Started == Says({"closing", "other"})

Completed == Says({"closing"})

\* The data socket is closed, or destroyed with the frame of execute.
CloseData == data' = [data EXCEPT !.state = "closed"]

TransferMissing ==
    /\ Closes("transfer") /\ Says({"failed"})
    /\ output' = [kind |-> "missing", name |-> asked, whole |-> FALSE]
    /\ CloseData /\ GoTo("prompt")
    /\ UNCHANGED <<asked, commands, serverVars>>

TransferCompleted ==
    /\ Closes("transfer") /\ Completed /\ GoTo("data")
    /\ UNCHANGED <<asked, commands, output, data, serverVars>>

\* No reply ends the client; any other reply ends the command, without a word.
TransferGivenUp ==
    /\ Closes("transfer") /\ ~Says({"failed"}) /\ ~Completed
    /\ GoTo(IF last = NoLine THEN "ended" ELSE "prompt")
    /\ CloseData
    /\ UNCHANGED <<asked, commands, output, serverVars>>

\* Mutant of EndOfData: a read that fails ends the data as eof does.
AnyEnd == data.state \in {"whole", "part", "broken"}

EndOfData == data.state \in {"whole", "part"}

\* read_raw_data meets the end of the data, or another error, or the timer.
DataRead ==
    /\ pc = "data" /\ EndOfData
    /\ output' = [kind |-> "data", name |-> data.name,
                  whole |-> data.state = "whole"]
    /\ CloseData /\ GoTo("prompt")
    /\ UNCHANGED <<asked, commands, control, serverVars>>

DataFails ==
    /\ pc = "data"
    /\ CloseData /\ GoTo("ended")
    /\ UNCHANGED <<asked, commands, output, control, serverVars>>

\* A write throws, or a signal stops the io_context; not during getline.
Breaks ==
    /\ pc \notin {"prompt", "ended"}
    /\ CloseData /\ GoTo("ended")
    /\ UNCHANGED <<asked, commands, output, control, serverVars>>

Waits ==
    \/ Connect \/ Greeted \/ OptsRead \/ UserRead \/ PassRead \/ LoginFails
    \/ PassiveRead \/ DataConnects \/ DataRefused \/ TransferMissing
    \/ TransferCompleted \/ TransferGivenUp \/ DataRead \/ DataFails

Client == Waits \/ ReadLine \/ (\E n \in Names : Ask(n)) \/ Quit \/ Breaks

-----------------------------------------------------------------------------
(* An FTP server: handles one line after the other and answers each; to a  *)
(* transfer it says that it begins, and how it ended.                      *)

Sends(code, of) == control' = Append(control, Reply(code, of))

ServerGreets ==
    /\ pc = "greeting" /\ writes = 0 /\ control = <<>> /\ last = NoLine
    /\ Sends("ready", 0) \/ Sends("other", 0)
    /\ UNCHANGED <<clientVars, requests, data, serverVars>>

\* The next line, when no transfer is going on.
Handles(verb) ==
    /\ serving = 0 /\ requests # <<>> /\ Head(requests).verb = verb
    /\ requests' = Tail(requests)
    /\ UNCHANGED clientVars

ServerOpts ==
    /\ Handles("OPTS") /\ Sends("other", Head(requests).number)
    /\ UNCHANGED <<data, serverVars>>

ServerLogsIn ==
    /\ Handles("USER") \/ Handles("PASS")
    /\ LET of == Head(requests).number
       IN \/ Sends("login", of) /\ loggedIn' = TRUE
          \/ Sends("invalid", of) /\ UNCHANGED loggedIn
          \/ /\ Head(requests).verb = "USER"
             /\ Sends("password", of) /\ UNCHANGED loggedIn
    /\ UNCHANGED <<data, serving>>

\* A new port, in place of an older one.
ServerPassive ==
    /\ Handles("PASV")
    /\ LET of == Head(requests).number
       IN \/ /\ loggedIn /\ Sends("passive", of)
             /\ data' = [state |-> "listening", port |-> of, name |-> NoName]
          \/ Sends("other", of) /\ UNCHANGED data
    /\ UNCHANGED serverVars

ServerBegins ==
    /\ Handles("TRANSFER")
    /\ LET r == Head(requests)
       IN IF r.name \in Files
          THEN /\ Sends("other", r.number) /\ serving' = r.number
               /\ data' = [data EXCEPT !.name = r.name]
          ELSE /\ Sends("failed", r.number) /\ UNCHANGED <<serving, data>>
    /\ UNCHANGED loggedIn

\* All was written and the connection closed; or it broke.
ServerEnds ==
    /\ serving # 0
    /\ \/ /\ data.state = "open" /\ data.name \notin Big
          /\ data' = [data EXCEPT !.state = "whole"]
          /\ Sends("closing", serving)
       \/ /\ data.state = "open"
          /\ data' = [data EXCEPT !.state = "part"]
          /\ Sends("other", serving)
       \/ /\ data.state \in {"broken", "closed"} /\ UNCHANGED data
          /\ Sends("closing", serving) \/ Sends("other", serving)
    /\ serving' = 0
    /\ UNCHANGED <<clientVars, requests, loggedIn>>

\* The network resets the data connection, also after the server's 226: what
\* the client has not read yet is gone.
DataBreaks ==
    /\ data.state \in {"open", "whole", "part"}
    /\ data' = [data EXCEPT !.state = "broken"]
    /\ UNCHANGED <<clientVars, control, requests, serverVars>>

Server == ServerGreets \/ ServerOpts \/ ServerLogsIn \/ ServerPassive
          \/ ServerBegins \/ ServerEnds \/ DataBreaks

Next == Client \/ Server
Spec == Init /\ [][Next]_vars

\* Every wait of the client has a timer, and a line that has come is read.
FairSpec == Spec /\ WF_vars(Waits)

-----------------------------------------------------------------------------
(* Properties.                                                             *)

\* Login: commands are given only when the server has let the user in,
\* although the reply to one line may be read after the next was written.
LetIn == pc \in {"prompt", "passive", "open", "transfer", "data"} => loggedIn

\* Replies in step: the reply that the client acts on by opening a data
\* connection, or by reading from it, answers the line it has just written,
\* and not an older one that was answered late.
InStep == pc \in {"open", "data"} => last.of = writes

\* What is printed is the whole of the file that was asked for, and what is
\* said not to exist does not, whatever replies were late, lost or cut and
\* whenever the data connection broke.
OutputTrue ==
    output.kind # "nothing" =>
        /\ output.name = asked
        /\ output.kind = "data" => output.whole
        /\ output.kind = "missing" => asked \notin Files

\* A server that falls silent does not keep the client from its prompt.
Responds == pc \notin {"prompt", "ended"} ~> pc \in {"prompt", "ended"}
=============================================================================
