-------------------------------- MODULE Output --------------------------------
(***************************************************************************)
(* LSF and EXEC after the handshake: the server sends a code and then the  *)
(* output of a command as a stream that ends with a marker, the client     *)
(* prints what it reads until it sees the marker.  Each end is the Linux   *)
(* or the Windows program.  The unit of the stream is a stretch of text;   *)
(* the marker is two units, since a read may end inside it.                *)
(***************************************************************************)
EXTENDS Integers, Sequences, SequencesExt

CONSTANTS
  Platforms,  \* pairs of a client and a server
  Requests,   \* among "LSF" and "EXEC"
  Outputs,    \* for each of them, outputs of a command: a sequence of lines, each the
              \* number of its units, or Nul or Inner
  Buffer,     \* BUFF_SIZE - 1
  MayDie      \* TRUE: the client may be killed

OS == {"linux", "windows"}
Nul == 0      \* a line of EXEC whose first byte is 0
Inner == -1   \* output that holds the marker: to fgets the end of a line and ".\r\n",
              \* which are written one behind the other

ASSUME OutputAssumption ==
  /\ Platforms \subseteq OS \X OS /\ Requests \subseteq {"LSF", "EXEC"}
  /\ Outputs \in [Requests -> SUBSET Seq({Nul, Inner} \cup (Nat \ {0}))]
  /\ Buffer \in Nat \ {0} /\ MayDie \in BOOLEAN

VARIABLES
  client, server, request,
  output,      \* what the command writes
  lines,       \* the lines of it that are still in the pipe
  code,        \* the answer the client has not read yet, or ""
  sent,        \* what the server has written after the code; text is numbered by place
  toClient,    \* the part of it that the client has not read
  buff,        \* the client's buffer: what it holds from earlier reads
  printed,     \* what the client has printed
  cpc, spc,
  reset,       \* the server wrote to a client that had closed
  death        \* the client was killed

fixed == <<client, server, request, output>>
vars == <<fixed, lines, code, sent, toClient, buff, printed, cpc, spc, reset, death>>

ClientPC == {"code", "read", "done", "refused", "cut", "crashed", "gone"}
ServerPC == {"command", "lines", "copy", "closed", "exited", "killed"}

ClientClosed == cpc \notin {"code", "read"}
ServerClosed == spc \in {"closed", "exited", "killed"}

Zero == 0
END_OF_LINE == <<-1, -2>>
Zeros(n) == [i \in 1 .. n |-> Zero]
\* n units of text, the first of them at place p + 1 of the stream.
Text(p, n) == [i \in 1 .. n |-> p + i]
AtMost(n, max) == IF n < max THEN n ELSE max
After(s, n) == SubSeq(s, n + 1, Len(s))

\* A string of C: what comes before the first 0.
CString(s) ==
  LET zero == SelectInSeq(s, LAMBDA u : u = Zero)
  IN IF zero = 0 THEN s ELSE SubSeq(s, 1, zero - 1)

Strstr(s, t) == \E i \in 0 .. Len(s) - Len(t) : SubSeq(s, i + 1, i + Len(t)) = t

Init ==
  /\ \E platform \in Platforms : client = platform[1] /\ server = platform[2]
  /\ request \in Requests /\ output \in Outputs[request] /\ lines = output
  /\ code = "" /\ sent = <<>> /\ toClient = <<>> /\ buff = <<>> /\ printed = <<>>
  /\ cpc = "code" /\ spc = "command" /\ reset = FALSE /\ death = FALSE

\* A write: lost on a client that is gone, and from the second on possibly the end of
\* the daemon (SIGPIPE) or of the Windows thread (Send).
ServerWrite(s, next) ==
  IF ~ClientClosed
  THEN sent' = sent \o s /\ toClient' = toClient \o s /\ spc' = next /\ UNCHANGED reset
  ELSE /\ spc' = next \/ (reset /\ spc' = IF server = "linux" THEN "killed" ELSE "exited")
       /\ reset' = TRUE /\ UNCHANGED <<sent, toClient>>

-----------------------------------------------------------------------------
(* Faults: mistaken variants of the definitions they name.  No behaviour of *)
(* the specification uses them.                                             *)

\* Gathered: each read of the Linux client starts the buffer anew.
GatheredNothing(piece) == piece

\* Shown: a full buffer is emptied without being printed.
ShownAtEnd(new) == IF Strstr(CString(new), END_OF_LINE) THEN CString(new) ELSE <<>>

\* Kept: the Linux client keeps a full buffer.
KeptFull(new) == new

\* AtEnd: the Windows client of LSF, too, does not look for a closed connection.
AtEndNever == IF client = "linux" THEN "cut" ELSE "read"

\* Stops: the Linux client takes a full buffer for the end.
StopsWhenFull(new) == Len(new) = Buffer \/ Strstr(CString(new), END_OF_LINE)

-----------------------------------------------------------------------------
(* The server.                                                              *)

\* Linux answers 300 whatever the path or the command.  Windows refuses a path that is
\* no directory (twice when it is too long), and starts EXEC with 300.
Answer ==
  /\ spc = "command"
  /\ \/ /\ code' = "300"
        /\ \/ spc' = "lines"
           \/ spc' = "copy" /\ server = "windows" /\ request = "EXEC" /\ Len(output) > 1
     \/ server = "windows" /\ request = "LSF" /\ code' = "400" /\ spc' = "closed"
  /\ reset' = ClientClosed
  /\ UNCHANGED <<fixed, lines, sent, toClient, buff, printed, cpc, death>>

Units(line) == IF line = Inner THEN END_OF_LINE ELSE Text(Len(sent), line)

\* A line that begins with a byte 0 has length 0: Write exits the daemon, Send sends
\* nothing.
SendLine ==
  /\ spc = "lines" /\ lines # <<>> /\ lines' = Tail(lines)
  /\ ~(server = "windows" /\ request = "LSF")
  /\ IF Head(lines) = Nul
     THEN /\ spc' = IF server = "linux" THEN "killed" ELSE "lines"
          /\ UNCHANGED <<sent, toClient, reset>>
     ELSE ServerWrite(Units(Head(lines)), "lines")
  /\ UNCHANGED <<fixed, code, buff, printed, cpc, death>>

Marker == END_OF_LINE

\* The marker, behind the status of a command that failed.
SendEnd ==
  /\ spc = "lines" /\ lines = <<>>
  /\ ~(server = "windows" /\ request = "LSF")
  /\ \E status \in 0 .. 1 : ServerWrite(Text(Len(sent), status) \o Marker, "closed")
  /\ UNCHANGED <<fixed, lines, code, buff, printed, cpc, death>>

\* The Windows list is one block of BUFF_SIZE bytes, here a unit for each name.  (A longer
\* list overruns it; such lists are left out.)
SendList ==
  /\ spc = "lines" /\ server = "windows" /\ request = "LSF"
  /\ LET list == Text(0, Len(lines)) \o Marker IN
       ServerWrite(list \o Zeros(Buffer + 1 - Len(list)), "closed")
  /\ lines' = <<>>
  /\ UNCHANGED <<fixed, code, buff, printed, cpc, death>>

\* copy of several files on Windows: a line for each, the last one with the marker, and
\* of BUFF_SIZE bytes if the copy failed.  A destination that does not exist is told
\* with a marker, one that is no directory with 400 in place of output.
SendCopy ==
  /\ spc = "copy"
  /\ \/ \E text \in 1 .. 2, failed \in BOOLEAN :
          LET last == Len(lines) = 1
              line == Text(Len(sent), text) \o (IF last THEN Marker ELSE <<>>)
          IN /\ lines' = Tail(lines)
             /\ ServerWrite(line \o Zeros(IF failed THEN Buffer + 1 - Len(line) ELSE 0),
                            IF last THEN "closed" ELSE "copy")
     \/ /\ lines = output
        /\ \E s \in {Text(0, 1) \o Marker, Text(0, 1)} : ServerWrite(s, "closed")
        /\ UNCHANGED lines
  /\ UNCHANGED <<fixed, code, buff, printed, cpc, death>>

Server == Answer \/ SendLine \/ SendEnd \/ SendList \/ SendCopy

-----------------------------------------------------------------------------
(* The client.                                                              *)

ReadCode ==
  /\ cpc = "code" /\ code # "" /\ code' = ""
  /\ cpc' = IF code = "300" THEN "read" ELSE "refused"
  /\ UNCHANGED <<fixed, lines, sent, toClient, buff, printed, spc, reset, death>>

\* Linux gathers reads in a buffer; it prints the buffer when it is full, and again,
\* or only then, when it finds the marker in it.
Gathered(piece) == buff \o piece
Stops(new) == Strstr(CString(new), END_OF_LINE)
Shown(new) == (IF Len(new) = Buffer THEN CString(new) ELSE <<>>) \o (IF Stops(new) THEN CString(new) ELSE <<>>)
Kept(new) == IF Len(new) = Buffer THEN <<>> ELSE new

\* n bytes of the stream come in.
Take(n) == /\ toClient' = After(toClient, n)
           /\ UNCHANGED <<fixed, lines, code, sent, spc, reset, death>>

ReadLinux ==
  /\ cpc = "read" /\ client = "linux"
  /\ \E n \in 1 .. AtMost(Len(toClient), Buffer - Len(buff)) :
       LET new == Gathered(SubSeq(toClient, 1, n)) IN
       /\ Take(n) /\ printed' = printed \o Shown(new) /\ buff' = Kept(new)
       /\ cpc' = IF Stops(new) THEN "done" ELSE "read"

\* Windows looks for the marker in each read by itself.  LSF leaves the rest of an
\* earlier, longer read behind the new one; EXEC clears what it read before, with a
\* length it keeps in 16 bits: the next clearing after a longer read crashes.
ReadWindows ==
  /\ cpc = "read" /\ client = "windows"
  /\ \E n \in 1 .. AtMost(Len(toClient), Buffer + 1) :
       LET piece == SubSeq(toClient, 1, n)
           msg == IF request = "LSF" THEN piece \o After(buff, n) ELSE piece
       IN
       /\ Take(n) /\ printed' = printed \o CString(msg) /\ buff' = msg
       /\ cpc' = IF Strstr(CString(msg), END_OF_LINE) THEN "done"
                 ELSE IF request = "EXEC" /\ n > Buffer \div 2 THEN "crashed" ELSE "read"

\* At the end of the stream Linux ends, LSF of Windows exits, EXEC of Windows reads on
\* and on.
AtEnd ==
  IF client = "linux" \/ request = "LSF" THEN "cut" ELSE "read"

ReadEnd ==
  /\ cpc = "read" /\ toClient = <<>> /\ ServerClosed /\ AtEnd # "read" /\ cpc' = AtEnd
  /\ UNCHANGED <<fixed, lines, code, sent, toClient, buff, printed, spc, reset, death>>

Client == ReadCode \/ ReadLinux \/ ReadWindows \/ ReadEnd

Die ==
  /\ MayDie /\ ~ClientClosed /\ cpc' = "gone" /\ death' = TRUE
  /\ UNCHANGED <<fixed, lines, code, sent, toClient, buff, printed, spc, reset>>

Next == Server \/ Client \/ Die
Spec == Init /\ [][Next]_vars

\* Both processes are scheduled, and the command writes its lines and ends.
FairSpec == Spec /\ WF_vars(Server) /\ WF_vars(Client)

-----------------------------------------------------------------------------
(* Properties.                                                              *)

\* The type invariant; the Linux client never fills its buffer and keeps it.
TypeOK ==
  /\ <<client, server>> \in Platforms /\ request \in Requests /\ output \in Outputs[request]
  /\ IsSuffix(lines, output) /\ code \in {"", "300", "400"}
  /\ sent \in Seq(Int) /\ IsSuffix(toClient, sent)
  /\ buff \in Seq(Int) /\ Len(buff) <= Buffer + 1 /\ (client = "linux" => Len(buff) < Buffer)
  /\ printed \in Seq(Int) /\ cpc \in ClientPC /\ spc \in ServerPC
  /\ reset \in BOOLEAN /\ death \in BOOLEAN

\* The text that was sent, and whether zeros lie inside it.
Visible == CString(sent)
Broken == \E i \in DOMAIN sent : sent[i] = Zero /\ ~(\A j \in i .. Len(sent) : sent[j] = Zero)

\* The readers that keep text in order: LSF of Windows prints the rest of old reads.
Orderly == ~Broken /\ (client = "linux" \/ request = "EXEC")

\* However the stream is cut into reads, the client prints what was sent, in order and
\* without gaps.  Only the Linux client repeats a part, and only the last one, when the
\* marker lies in the buffer it has just printed because it was full.
PrintedInOrder ==
  Orderly =>
    \/ IsPrefix(printed, Visible)
    \/ /\ client = "linux" /\ cpc = "done" /\ Len(sent) >= Buffer
       /\ \E w \in 1 .. Buffer :
            LET n == Len(printed) - w IN
            /\ n >= w /\ IsPrefix(SubSeq(printed, 1, n), Visible)
            /\ After(printed, n) = SubSeq(printed, n - w + 1, n)

\* A client that stops at the marker has printed everything before it.
DoneMeansAll ==
  Orderly /\ cpc = "done" =>
    \E n \in 0 .. Len(Visible) : /\ Strstr(SubSeq(Visible, 1, n), END_OF_LINE)
                               /\ IsPrefix(SubSeq(Visible, 1, n), printed)

\* The Linux client finds the end of every output that fits into its buffer, wherever
\* reads end, also inside the marker.
ShortOutputIsSeen ==
  (/\ client = "linux" /\ cpc = "read" /\ spc = "closed"
   /\ Len(sent) < Buffer /\ Strstr(sent, END_OF_LINE)) ~> cpc \in {"done", "gone"}

\* The client comes back, whatever the server sends.  The exception is EXEC of Windows
\* when no read held the marker as a whole.
ClientEnds ==
  <>(ClientClosed \/ (/\ client = "windows" /\ request = "EXEC" /\ cpc = "read"
                      /\ toClient = <<>> /\ ServerClosed))

\* Neither the daemon nor the Windows thread ends over an output without a leading 0 and
\* without a marker inside, as long as the client lives: no client closes early.
OrdinaryOutputIsHarmless ==
  spc \in {"killed", "exited"} =>
    death \/ cpc = "crashed" \/ \E i \in DOMAIN output : output[i] \in {Nul, Inner}
=============================================================================
