------------------------------- MODULE Transfer -------------------------------
(***************************************************************************)
(* A file transfer between a client and a thread of the server after the   *)
(* handshake, each of them the Linux or the Windows program: DOWNLOAD      *)
(* (client to server) and SIZE then UPLOAD (server to client).  A          *)
(* connection is a stream: a read returns any non-empty part of what is    *)
(* there, 0 when it is empty and the other end has closed it.  A command   *)
(* or a code counts as one unit, a byte of a file (in the scale of Buffer) *)
(* as one.  What fwrite or WriteFile took counts as saved.  Files do not   *)
(* grow, and the network resets no connection.                             *)
(***************************************************************************)
EXTENDS Integers, Sequences, FiniteSets

CONSTANTS
  Platforms,  \* pairs of a client and a server
  Requests,   \* among "DOWNLOAD" and "UPLOAD"
  Sizes,      \* for each of them, sizes of the file; Missing when it has none
  Buffer,     \* BUFF_SIZE - 1
  Piece,      \* the most a Windows end receives of a file at a time (254)
  Mishaps     \* what may go wrong, each with the request during which it may

Missing == -1
OS == {"linux", "windows"}

\* "merge": a read of the command takes bytes sent after it.  "death": the client is
\* killed.  "shrink": the file becomes shorter than its announced size.  "unreadable":
\* the client can measure its file but not open it.  "full": a write to the destination
\* takes less than was read.
Kinds == {"merge", "death", "shrink", "unreadable", "full"}

ASSUME TransferAssumption ==
  /\ Platforms \subseteq OS \X OS /\ Requests \subseteq {"DOWNLOAD", "UPLOAD"}
  /\ Sizes \in [Requests -> SUBSET (Nat \cup {Missing})]
  /\ Buffer \in Nat \ {0} /\ Piece \in Nat \ {0} /\ Mishaps \subseteq Kinds \X Requests

VARIABLES
  client, server,      \* the platform of each end
  request, size,       \* what the client was started for
  disk,                \* bytes of the sender's file it has still to read
  toServer, toClient,  \* the two streams
  cleft,               \* file_size of the Linux client, size of the Windows one
  sleft,               \* file_length, size
  saved,               \* bytes of the file at the destination
  cpc, spc,
  reset,               \* the server wrote to a client that had closed
  acked,               \* the ends whose wait for the OK the OK has ended
  heard, log,          \* the commands the server has read; its lines in the log
  mishaps              \* the kinds of mishap that have happened

fixed == <<client, server, request, size>>
clientVars == <<cpc, cleft>>
serverVars == <<spc, sleft, reset, heard, log>>
vars == <<fixed, disk, toServer, toClient, clientVars, serverVars, saved, acked, mishaps>>

ClientPC == {"request", "code", "open", "value", "upload", "receive", "ack", "send",
             "wait", "ended", "gone"}
ServerPC == {"command", "300", "size", "400", "upload", "send", "wait", "receive", "ack",
             "log", "closed", "exited", "killed"}

ClientClosed == cpc \in {"ended", "gone"}
\* "exited": the thread ended inside the conversation.  "killed": the process ended.
ServerClosed == spc \in {"closed", "exited", "killed"}

Byte == "byte"
Stale == "stale"     \* a byte of the sender's memory that is not of the file
Unit == {Byte, Stale, "DOWNLOAD", "SIZE", "UPLOAD", "200", "300", "400", "value"}
AtMost(n, max) == IF n < max THEN n ELSE max
Units(u, n) == [i \in 1 .. n |-> u]
BytesIn(s) == Cardinality({i \in 1 .. Len(s) : s[i] = Byte})
After(s, n) == SubSeq(s, n + 1, Len(s))

May(kind) == <<kind, request>> \in Mishaps

Init ==
  /\ \E platform \in Platforms : client = platform[1] /\ server = platform[2]
  /\ request \in Requests /\ size \in Sizes[request]
  /\ disk = IF size = Missing THEN 0 ELSE size
  /\ toServer = <<>> /\ toClient = <<>> /\ cleft = 0 /\ sleft = 0 /\ saved = 0
  /\ cpc = "request" /\ spc = "command" /\ reset = FALSE
  /\ acked = {} /\ heard = <<>> /\ log = <<>> /\ mishaps = {}

-----------------------------------------------------------------------------
(* Writes.                                                                  *)

\* A client that closed resets the connection at the first write to it, or at once when
\* it had not read everything.
Reset == reset \/ toClient # <<>>

\* The server's: lost on a client that is gone, and on a connection it has reset possibly
\* the `end` of the daemon (SIGPIPE), of the Windows thread or process (Send).
ServerWrite(s, next, end) ==
  IF ~ClientClosed
  THEN toClient' = toClient \o s /\ spc' = next /\ UNCHANGED reset
  ELSE /\ spc' = next \/ (Reset /\ spc' = end)
       /\ reset' = TRUE /\ UNCHANGED toClient

WriteEnds == IF server = "linux" THEN "killed" ELSE "exited"

\* The client's: lost on a connection the server closed, possibly the end of the client.
ClientWrite(s, next) ==
  IF ~ServerClosed
  THEN toServer' = toServer \o s /\ cpc' = next
  ELSE cpc' \in {next, "gone"} /\ UNCHANGED toServer

-----------------------------------------------------------------------------
(* Faults: mistaken variants of the definitions they name.  No behaviour of *)
(* the specification uses them.                                             *)

\* Consumed: the receiving server counts down what it asked for, not what it read.
ConsumedAsAsked(n) == AtMost(sleft, IF server = "linux" THEN Buffer ELSE Piece)

\* Chunk: a whole buffer is sent, also for the last piece.
ChunkWhole(os, left) ==
  [read |-> AtMost(left, disk), left |-> left - Buffer, units |-> Units(Byte, Buffer)]

\* LogAfterUpload: the line of SIZE is forgotten, as UPLOAD takes its place.
LogForgotten == log

\* ReceiveData: one read instead of a loop.
ReceiveOnce ==
  /\ cpc = "receive" /\ toClient # <<>> /\ cpc' = "ack"
  /\ \E n \in 1 .. AtMost(Len(toClient), Buffer + 1) :
       /\ toClient' = After(toClient, n)
       /\ cleft' = cleft - n /\ saved' = saved + BytesIn(SubSeq(toClient, 1, n))
  /\ UNCHANGED <<fixed, disk, toServer, serverVars, acked, mishaps>>

\* WriteAck: readAck() and writeAck() taken for one another, so that both ends wait.
ServerAwaitsAck ==
  /\ spc = "ack" /\ spc' = "wait"
  /\ UNCHANGED <<fixed, disk, toServer, toClient, clientVars, saved, sleft, reset, heard,
                 log, acked, mishaps>>

-----------------------------------------------------------------------------
(* Pieces of a file.                                                        *)

\* The next piece of a file of which `left` bytes are due: Linux sends what it could
\* read; Windows too from a file of less than BUFF_SIZE, else the whole block.
Chunk(os, left) ==
  LET due == AtMost(left, IF os = "linux" THEN Buffer ELSE Buffer + 1)
      read == AtMost(due, disk)
      stale == IF os = "windows" /\ size > Buffer THEN due - read ELSE 0
  IN [read |-> read, left |-> left - (IF os = "linux" THEN read ELSE due),
      units |-> Units(Byte, read) \o Units(Stale, stale)]

\* What the receiving server counts down after a read of n bytes.
Consumed(n) == n

\* The write of what a read returned to the destination: all of it, or only a part.
Saves(piece) == saved' = saved + BytesIn(piece) /\ UNCHANGED mishaps
FallsShort(piece) ==
  /\ May("full") /\ mishaps' = mishaps \cup {"full"}
  /\ \E k \in 0 .. Len(piece) - 1 : saved' = saved + BytesIn(SubSeq(piece, 1, k))

-----------------------------------------------------------------------------
(* The client: protocol() of Linux, main() of Windows, after the handshake. *)

\* A client that cannot use its file ends: Linux after a command that announces the
\* size (or -1), Windows before it.
SendRequest ==
  /\ cpc = "request"
  /\ \/ request = "UPLOAD" /\ ClientWrite(<<"SIZE">>, "code") /\ UNCHANGED <<cleft, mishaps>>
     \/ /\ request = "DOWNLOAD" /\ size # Missing
        /\ ClientWrite(<<"DOWNLOAD">>, "send") /\ cleft' = size /\ UNCHANGED mishaps
     \/ /\ request = "DOWNLOAD" /\ (size = Missing \/ May("unreadable"))
        /\ mishaps' = mishaps \cup {"unreadable"} /\ UNCHANGED cleft
        /\ IF client = "linux" THEN ClientWrite(<<"DOWNLOAD">>, "ended")
           ELSE cpc' = "ended" /\ UNCHANGED toServer
  /\ UNCHANGED <<fixed, disk, toClient, serverVars, saved, acked>>

\* Linux stops sending when there is nothing more to read or a write failed.
SendData ==
  /\ cpc = "send" /\ cleft > 0
  /\ LET chunk == Chunk(client, cleft) IN
     /\ client = "linux" => disk > 0
     /\ \/ ClientWrite(chunk.units, "send")
        \/ client = "linux" /\ ServerClosed /\ cpc' = "wait" /\ UNCHANGED toServer
     /\ cleft' = chunk.left /\ disk' = disk - chunk.read
  /\ UNCHANGED <<fixed, toClient, serverVars, saved, acked, mishaps>>

\* Windows compares an array it never filled with OK, and normally waits for nothing.
DataSent ==
  /\ cpc = "send" /\ (cleft = 0 \/ (client = "linux" /\ disk = 0))
  /\ cpc' \in {"wait"} \cup (IF client = "linux" THEN {} ELSE {"ended"})
  /\ UNCHANGED <<fixed, disk, toServer, toClient, cleft, serverVars, saved, acked, mishaps>>

\* Until OK, or until the server closes.  A Windows client that waits does so while the
\* array is equal to OK, which no OK ends.
WaitAck ==
  /\ cpc = "wait"
  /\ \/ /\ toClient # <<>> /\ toClient' = Tail(toClient)
        /\ IF Head(toClient) = "200" /\ client = "linux"
           THEN acked' = acked \cup {"client"} /\ cpc' = "ended"
           ELSE UNCHANGED <<acked, cpc>>
     \/ toClient = <<>> /\ ServerClosed /\ cpc' = "ended" /\ UNCHANGED <<toClient, acked>>
  /\ UNCHANGED <<fixed, disk, toServer, cleft, serverVars, saved, mishaps>>

\* The answer to SIZE: 300 and the size, or 400 and the client exits.
ReadCode ==
  /\ cpc = "code" /\ toClient # <<>> /\ toClient' = Tail(toClient)
  /\ cpc' = IF Head(toClient) # "300" THEN "ended"
            ELSE IF client = "linux" THEN "value" ELSE "open"
  /\ UNCHANGED <<fixed, disk, toServer, cleft, serverVars, saved, acked, mishaps>>

\* Windows opens the destination before it reads the size, or exits.
OpenDestination ==
  /\ cpc = "open" /\ cpc' \in {"value", "ended"}
  /\ UNCHANGED <<fixed, disk, toServer, toClient, cleft, serverVars, saved, acked, mishaps>>

ReadSize ==
  /\ cpc = "value" /\ toClient # <<>> /\ toClient' = Tail(toClient)
  /\ cpc' = "upload" /\ cleft' = size
  /\ UNCHANGED <<fixed, disk, toServer, serverVars, saved, acked, mishaps>>

\* Linux opens the destination after UPLOAD, or ends.
SendUpload ==
  /\ cpc = "upload"
  /\ \E next \in {"receive"} \cup (IF client = "linux" THEN {"ended"} ELSE {}) :
       ClientWrite(<<"UPLOAD">>, next)
  /\ UNCHANGED <<fixed, disk, toClient, cleft, serverVars, saved, acked, mishaps>>

BreaksTo == IF client = "linux" THEN "ack" ELSE "ended"

\* When the server has closed early or the disk does not take all that was read, Linux
\* leaves its loop and sends the OK nevertheless, Windows exits.
ReceiveData ==
  /\ cpc = "receive" /\ cleft > 0
  /\ \/ /\ toClient # <<>>
        /\ \E n \in 1 .. AtMost(Len(toClient), IF client = "linux" THEN Buffer + 1 ELSE Piece) :
             /\ toClient' = After(toClient, n) /\ cleft' = cleft - n
             /\ \/ Saves(SubSeq(toClient, 1, n)) /\ UNCHANGED cpc
                \/ FallsShort(SubSeq(toClient, 1, n)) /\ cpc' = BreaksTo
     \/ /\ toClient = <<>> /\ ServerClosed /\ cpc' = BreaksTo
        /\ UNCHANGED <<toClient, cleft, saved, mishaps>>
  /\ UNCHANGED <<fixed, disk, toServer, serverVars, acked>>

DataReceived ==
  /\ cpc = "receive" /\ cleft = 0 /\ cpc' = "ack"
  /\ UNCHANGED <<fixed, disk, toServer, toClient, cleft, serverVars, saved, acked, mishaps>>

SendAck ==
  /\ cpc = "ack" /\ ClientWrite(<<"200">>, "ended")
  /\ UNCHANGED <<fixed, disk, toClient, cleft, serverVars, saved, acked, mishaps>>

Client ==
  \/ SendRequest \/ SendData \/ DataSent \/ WaitAck \/ ReadCode \/ OpenDestination
  \/ ReadSize \/ SendUpload \/ ReceiveData \/ DataReceived \/ SendAck

-----------------------------------------------------------------------------
(* The server: protocol() and executeCommand() of Linux, protocol() of      *)
(* Windows.                                                                 *)

\* The Linux worker writes its line after the command, the Windows one before it.
LeavesTo == IF server = "linux" THEN "log" ELSE "closed"
Heard(command) ==
  /\ heard' = Append(heard, command)
  /\ log' = IF server = "windows" /\ heard = <<>> THEN <<command>> ELSE log

\* The read of the command takes, beyond it, up to `extra` bytes.  Linux drops them as
\* the end of its text (a file that starts with a digit would change the size as well);
\* to Windows the size is no number any more, which exits the process, as does a new
\* file that cannot be created.  Other files that cannot be opened just end the command.
ReadCommand ==
  /\ spc = "command"
  /\ \/ /\ toServer # <<>> /\ Heard(Head(toServer))
        /\ \E extra \in 0 .. (IF May("merge") THEN Len(toServer) - 1 ELSE 0) :
             /\ toServer' = After(toServer, extra + 1)
             /\ mishaps' = IF extra > 0 THEN mishaps \cup {"merge"} ELSE mishaps
             /\ \/ /\ Head(toServer) = "DOWNLOAD" /\ sleft' = size
                   /\ \/ spc' = LeavesTo
                      \/ spc' = "receive" /\ (server = "linux" \/ extra = 0)
                      \/ spc' = "killed" /\ server = "windows"
                \/ /\ Head(toServer) = "SIZE" /\ UNCHANGED sleft
                   /\ spc' = IF size = Missing THEN "400" ELSE "300"
     \/ /\ toServer = <<>> /\ ClientClosed /\ spc' = "closed"
        /\ UNCHANGED <<toServer, sleft, heard, log, mishaps>>
  /\ UNCHANGED <<fixed, disk, toClient, clientVars, saved, reset, acked>>

\* While bytes are due.  Linux leaves the loop when the disk does not take all that was
\* read, before it counts that down, or when Read fails, as with the size -1 (Missing);
\* what follows is the OK.  When the client has closed, Read returns 0, which fwrite
\* repeats: the loop runs on without end and changes nothing.  Windows exits the
\* process at a failed write and at the end of the connection.
ReceiveFile ==
  /\ spc = "receive" /\ sleft # 0
  /\ \/ \E n \in 1 .. AtMost(Len(toServer),
                             IF server = "linux" THEN AtMost(sleft, Buffer) ELSE Piece) :
          /\ toServer' = After(toServer, n)
          /\ \/ /\ Saves(SubSeq(toServer, 1, n))
                /\ sleft' = sleft - Consumed(n) /\ UNCHANGED spc
             \/ /\ FallsShort(SubSeq(toServer, 1, n)) /\ UNCHANGED sleft
                /\ spc' = IF server = "linux" THEN "ack" ELSE "killed"
     \/ /\ \/ server = "linux" /\ sleft = Missing /\ spc' = "ack"
           \/ server = "windows" /\ toServer = <<>> /\ ClientClosed /\ spc' = "killed"
        /\ UNCHANGED <<toServer, sleft, saved, mishaps>>
  /\ UNCHANGED <<fixed, disk, toClient, clientVars, reset, heard, log, acked>>

FileReceived ==
  /\ spc = "receive" /\ sleft = 0 /\ spc' = "ack"
  /\ UNCHANGED <<fixed, disk, toServer, toClient, clientVars, sleft, saved, reset, heard,
                 log, acked, mishaps>>

WriteAck ==
  /\ spc = "ack" /\ ServerWrite(<<"200">>, LeavesTo, "killed")
  /\ UNCHANGED <<fixed, disk, toServer, clientVars, sleft, saved, heard, log, acked, mishaps>>

AnswerSize ==
  /\ \/ spc = "400" /\ ServerWrite(<<"400">>, LeavesTo, WriteEnds)
     \/ spc = "300" /\ ServerWrite(<<"300">>, "size", WriteEnds)
     \/ spc = "size" /\ ServerWrite(<<"value">>, "upload", WriteEnds)
  /\ UNCHANGED <<fixed, disk, toServer, clientVars, sleft, saved, heard, log, acked, mishaps>>

\* Linux writes the line of SIZE when UPLOAD has come, Windows none of UPLOAD.
LogAfterUpload == IF server = "linux" THEN Append(log, "SIZE") ELSE log

\* UPLOAD is expected.  Linux then opens the file, and nothing tells the client when it
\* cannot; Windows has it open since SIZE.
ReadUpload ==
  /\ spc = "upload"
  /\ \/ /\ toServer # <<>> /\ toServer' = Tail(toServer) /\ sleft' = size
        /\ heard' = Append(heard, "UPLOAD")
        /\ log' = LogAfterUpload
        /\ spc' = "send" \/ (server = "linux" /\ spc' = "log")
     \/ /\ toServer = <<>> /\ ClientClosed
        /\ spc' = IF server = "linux" THEN "log" ELSE "exited"
        /\ UNCHANGED <<toServer, sleft, heard, log>>
  /\ UNCHANGED <<fixed, disk, toClient, clientVars, saved, reset, acked, mishaps>>

\* Linux: a write that fails ends the loop, and the worker waits for the OK; a file
\* with nothing left to read makes Write exit the process.
SendFile ==
  /\ spc = "send" /\ sleft > 0
  /\ \/ LET chunk == Chunk(server, sleft) IN
        /\ server = "linux" => disk > 0
        /\ ServerWrite(chunk.units, "send", WriteEnds)
        /\ sleft' = chunk.left /\ disk' = disk - chunk.read
     \/ /\ server = "linux"
        /\ \/ disk = 0 /\ spc' = "killed"
           \/ ClientClosed /\ Reset /\ spc' = "wait"
        /\ UNCHANGED <<toClient, sleft, disk, reset>>
  /\ UNCHANGED <<fixed, toServer, clientVars, saved, heard, log, acked, mishaps>>

\* The Windows server compares an array it never filled with OK, like the client.
FileSent ==
  /\ spc = "send" /\ sleft = 0
  /\ spc' \in {"wait"} \cup (IF server = "linux" THEN {} ELSE {"closed"})
  /\ UNCHANGED <<fixed, disk, toServer, toClient, clientVars, sleft, saved, reset, heard,
                 log, acked, mishaps>>

ReadAck ==
  /\ spc = "wait"
  /\ \/ /\ toServer # <<>> /\ toServer' = Tail(toServer)
        /\ IF Head(toServer) = "200" /\ server = "linux"
           THEN acked' = acked \cup {"server"} /\ spc' = "log"
           ELSE UNCHANGED <<acked, spc>>
     \/ /\ toServer = <<>> /\ ClientClosed
        /\ spc' = IF server = "linux" THEN "log" ELSE "exited"
        /\ UNCHANGED <<toServer, acked>>
  /\ UNCHANGED <<fixed, disk, toClient, clientVars, sleft, saved, reset, heard, log, mishaps>>

\* writeLog() after executeCommand(), of the command that came last, and close().
WriteLog ==
  /\ spc = "log" /\ spc' = "closed" /\ log' = Append(log, heard[Len(heard)])
  /\ UNCHANGED <<fixed, disk, toServer, toClient, clientVars, sleft, saved, reset, heard,
                 acked, mishaps>>

Server ==
  \/ ReadCommand \/ ReceiveFile \/ FileReceived \/ WriteAck
  \/ AnswerSize \/ ReadUpload \/ SendFile \/ FileSent \/ ReadAck \/ WriteLog

-----------------------------------------------------------------------------
Die ==
  /\ May("death") /\ ~ClientClosed /\ cpc' = "gone" /\ mishaps' = mishaps \cup {"death"}
  /\ UNCHANGED <<fixed, disk, toServer, toClient, cleft, serverVars, saved, acked>>

\* Someone shortens the file between the announcement of its size and the reading.
Shrink ==
  /\ May("shrink") /\ mishaps' = mishaps \cup {"shrink"}
  /\ IF request = "DOWNLOAD" THEN cpc = "send" ELSE spc \in {"size", "upload", "send"}
  /\ disk' \in 0 .. disk - 1
  /\ UNCHANGED <<fixed, toServer, toClient, clientVars, serverVars, saved, acked>>

Next == Client \/ Server \/ Die \/ Shrink
Spec == Init /\ [][Next]_vars

\* Both processes are scheduled.
FairSpec == Spec /\ WF_vars(Client) /\ WF_vars(Server)

-----------------------------------------------------------------------------
(* Properties.                                                              *)

\* The type invariant.
TypeOK ==
  /\ <<client, server>> \in Platforms /\ request \in Requests /\ size \in Sizes[request]
  /\ toServer \in Seq(Unit) /\ toClient \in Seq(Unit)
  /\ disk \in Nat /\ cleft \in Nat /\ sleft \in Nat \cup {Missing} /\ saved \in Nat
  /\ cpc \in ClientPC /\ spc \in ServerPC /\ reset \in BOOLEAN /\ mishaps \subseteq Kinds
  /\ acked \subseteq {"client", "server"} /\ heard \in Seq(Unit) /\ log \in Seq(Unit)

\* An end that took the OK of a transfer can rely on it, whatever pieces the reads
\* returned, whoever died and however short a file became, unless a write to the
\* destination fell short: else the other end has saved the whole file.
AckMeansComplete == acked # {} => saved = size \/ "full" \in mishaps

\* A file that both ends opened is saved whole: what DOWNLOAD promises.
DownloadSaved == (spc = "receive" /\ size # Missing) ~> (saved = size)

\* The same between any two platforms when nothing goes wrong.
UndisturbedDownloadSaved == (spc = "receive") ~> (saved = size \/ mishaps # {})

\* One end waits for bytes of the file that a mishap took away: the other end waits for
\* the OK, or it is a client that is gone and the Linux loop does not notice the 0 that
\* Read returns.
Starved ==
  /\ mishaps # {}
  /\ \/ /\ spc = "receive" /\ sleft # 0 /\ toServer = <<>>
        /\ cpc = "wait" \/ (ClientClosed /\ server = "linux")
     \/ cpc = "receive" /\ cleft # 0 /\ toClient = <<>> /\ spc = "wait"

\* Both ends leave the conversation whatever goes wrong: no order of reads and writes
\* has them wait for each other, but for bytes that a mishap took away.
TransferEnds == <>((ServerClosed /\ ClientClosed) \/ Starved)

\* Every command the server read has its line in the log when it closes, once and in
\* order, on Linux.  On Windows only the command that began the conversation has.
RequestsLogged ==
  spc = "closed" => log = IF server = "linux" THEN heard
                          ELSE SubSeq(heard, 1, AtMost(Len(heard), 1))
=============================================================================
