-------------------------------- MODULE Startup --------------------------------
(***************************************************************************)
(* From the command line, and for a server the configuration file, to the  *)
(* settings a program starts with: the loops over argv of the two servers  *)
(* and the two clients, one argument at a time, and the two readers of the *)
(* file.  A word of the command line is a string that is never looked into *)
(* beyond what the operators below say of it.                              *)
(***************************************************************************)
EXTENDS Integers, Sequences, SequencesExt

CONSTANTS
  Programs,   \* pairs of "server" or "client" and "linux" or "windows"
  Lines,      \* for a server and a client, the command lines, without the program's name
  Files,      \* contents of a configuration file: lines and whether they end with \r\n
  Number,     \* the numerals among the words, with their value
  Hosts,      \* the words that are IP addresses
  LogNames,   \* the words that end in .log
  Readable    \* the words that are paths of a file one can open, for reading or as a log

DEFAULT_PORT_NUMBER == 8888
DEFAULT_THREADS_NUMBER == 10
MAX_PORT_NUMBER == 65535
MAX_THREADS_NUM == 256

Server == "server"
Client == "client"
Keys == {"PORT_NUMBER", "THREADS_NUMBER", "STDOUT_TOKEN"}
NoValue == -1   \* a line of the file without "="

\* "-x" stands for a letter that is no option, "-long" for what is longer than a letter.
Letters == {"-p", "-n", "-c", "-s", "-l", "-h", "-e", "-d", "-u", "-x"}
Dashed == Letters \cup {"-long"}
Commands == {"-e", "-l", "-d", "-u"}

ASSUME StartupAssumption ==
  /\ Programs \subseteq {Server, Client} \X {"linux", "windows"}
  /\ Lines \in [{Server, Client} -> SUBSET Seq(STRING)]
  /\ \A f \in Files : /\ f.lines \in Seq([key : STRING, value : {NoValue} \cup Nat])
                      /\ f.crlf \in BOOLEAN
  /\ \A w \in DOMAIN Number : Number[w] \in Nat /\ w \notin Dashed
  /\ "" \notin Readable

VARIABLES
  program,   \* which program starts
  line,      \* its command line
  file,      \* what the configuration file holds
  tmp,       \* the directory of the default log exists
  flags,     \* of Windows: 1 an option waits for its value, 2 it has it
  i,         \* the argument that is next
  at,        \* the line of the file that is next
  set,       \* the settings so far
  pc

input == <<program, line, file, tmp>>
vars == <<input, flags, i, at, set, pc>>

Unset == ""
Default == [port |-> DEFAULT_PORT_NUMBER, threads |-> DEFAULT_THREADS_NUMBER,
            token |-> FALSE, log |-> Unset, conf |-> Unset,
            host |-> Unset, command |-> Unset, args |-> <<>>]

Init ==
  /\ program \in Programs /\ line \in Lines[program[1]]
  /\ \/ program[1] = Server /\ file \in Files /\ tmp \in BOOLEAN
     \/ program[1] = Client /\ file = [lines |-> <<>>, crlf |-> FALSE] /\ tmp = TRUE
  /\ flags = [o \in Letters |-> 0] /\ i = 1 /\ at = 1
  /\ set = IF program[1] = Server THEN Default ELSE [Default EXCEPT !.port = 0]
  /\ pc = "options"

Atoi(w) == IF w \in DOMAIN Number THEN Number[w] ELSE 0
\* The n words after argument i exist and are values.
Values(n) == i + n <= Len(line) /\ \A k \in 1 .. n : line[i + k] \notin Dashed
\* ... and the line, or another option, follows.
JustValues(n) == Values(n) /\ (i + n = Len(line) \/ line[i + n + 1] \in Dashed)

Reads(who, os) == program = <<who, os>> /\ pc = "options"
Exit == pc' = "exited" /\ UNCHANGED <<input, flags, i, at, set>>
Settle(new) == set' = new /\ i' = i + 1 /\ UNCHANGED <<input, flags, at, pc>>
Enter(new) == set' = new /\ at' = at + 1 /\ UNCHANGED <<input, flags, i, pc>>

InRange(n, max) == n \in 1 .. max

-----------------------------------------------------------------------------
(* Faults: mistaken variants of the definitions they name.  No behaviour of *)
(* the specification uses them.                                             *)

\* Takes: the range of a number is not looked at.
TakesAny(setting, n, via_config, s) == ~via_config \/ s[setting] = Default[setting]

\* Takes: the file is taken whatever is set.
TakesFile(setting, n, via_config, s) ==
  InRange(n, IF setting = "port" THEN MAX_PORT_NUMBER ELSE MAX_THREADS_NUM)

\* ArgumentsFrom: the command takes its first word alone.
FirstWord(k) == <<line[k]>>

\* Waiting: the flag of an option is not raised when its value was taken.
WaitingStill(o) == flags[o] >= 1

-----------------------------------------------------------------------------
(* The Linux server.                                                        *)

\* setPortNumber and setThreadsNumber, before the first SIGHUP.
Takes(setting, n, via_config, s) ==
  /\ InRange(n, IF setting = "port" THEN MAX_PORT_NUMBER ELSE MAX_THREADS_NUM)
  /\ ~via_config \/ s[setting] = Default[setting]

setNumber(setting, n, via_config, s) ==
  IF Takes(setting, n, via_config, s) THEN [s EXCEPT ![setting] = n] ELSE s

FromLine(s, l) ==
  CASE l.value > 0 /\ l.key = "PORT_NUMBER" -> setNumber("port", l.value, TRUE, s)
    [] l.value > 0 /\ l.key = "THREADS_NUMBER" -> setNumber("threads", l.value, TRUE, s)
    [] l.value > 0 /\ l.key = "STDOUT_TOKEN" -> [s EXCEPT !.token = TRUE]
    [] OTHER -> s

\* A value is looked at again as the next argument.
LinuxServerArgument ==
  /\ Reads(Server, "linux") /\ i <= Len(line)
  /\ LET option == line[i]
         more == i < Len(line)
         value == line[i + 1]
     IN IF option = "-c" /\ more /\ value \in Readable
        THEN /\ set' = [set EXCEPT !.conf = value] /\ pc' = "config" /\ at' = 1
             /\ UNCHANGED <<input, flags, i>>
        ELSE Settle(
          CASE option = "-s" -> [set EXCEPT !.token = TRUE]
            [] option = "-p" /\ more -> setNumber("port", Atoi(value), FALSE, set)
            [] option = "-n" /\ more -> setNumber("threads", Atoi(value), FALSE, set)
            [] option = "-l" /\ Values(1) /\ value \in Readable -> [set EXCEPT !.log = value]
            [] OTHER -> set)

\* getParametersFromConfig, where -c stands.  A line without "=" gives atoi a null
\* pointer.
LinuxServerConfigLine ==
  /\ program = <<Server, "linux">> /\ pc = "config" /\ at <= Len(file.lines)
  /\ IF file.lines[at].value = NoValue
     THEN pc' = "crashed" /\ UNCHANGED <<input, flags, i, at, set>>
     ELSE Enter(FromLine(set, file.lines[at]))

LinuxServerConfigEnd ==
  /\ program = <<Server, "linux">> /\ pc = "config" /\ at > Len(file.lines)
  /\ pc' = "options" /\ i' = i + 1 /\ UNCHANGED <<input, flags, at, set>>

\* Without a log the server runs all the same.
LinuxServerReady ==
  /\ Reads(Server, "linux") /\ i > Len(line) /\ pc' = "ready"
  /\ set' = IF set.log = Unset /\ tmp THEN [set EXCEPT !.log = "default"] ELSE set
  /\ UNCHANGED <<input, flags, i, at>>

-----------------------------------------------------------------------------
(* The Windows server.                                                      *)

Waiting(o) == flags[o] = 1

\* The option that gets the value: the first in this order that waits.
Pending(options) ==
  LET k == SelectInSeq(options, LAMBDA o : Waiting(o)) IN IF k = 0 THEN Unset ELSE options[k]

\* An option, once.
Raise(options) ==
  IF line[i] \in options /\ flags[line[i]] = 0
  THEN flags' = [flags EXCEPT ![line[i]] = 1] /\ i' = i + 1 /\ UNCHANGED <<input, at, pc>>
  ELSE Exit

Give(o, new) ==
  /\ flags' = [flags EXCEPT ![o] = 2] /\ i' = i + 1 /\ set' = new /\ UNCHANGED <<input, at, pc>>

WindowsServerOption ==
  /\ Reads(Server, "windows") /\ i <= Len(line) /\ line[i] \in Dashed
  /\ Raise({"-p", "-n", "-c", "-s", "-l"})
  /\ set' = IF line[i] = "-s" THEN [set EXCEPT !.token = TRUE] ELSE set

\* The port is a SHORT.
WindowsServerValue ==
  /\ Reads(Server, "windows") /\ i <= Len(line) /\ line[i] \notin Dashed
  /\ LET value == line[i]
         o == Pending(<<"-p", "-n", "-c", "-l">>)
     IN CASE o = "-p" /\ value \in DOMAIN Number ->
               Give(o, [set EXCEPT !.port = Number[value] % 65536])
          [] o = "-n" /\ value \in DOMAIN Number -> Give(o, [set EXCEPT !.threads = Number[value]])
          [] o = "-c" -> Give(o, [set EXCEPT !.conf = value])
          [] o = "-l" /\ value \in LogNames -> Give(o, [set EXCEPT !.log = value])
          [] OTHER -> Exit

WindowsServerOptionsEnd ==
  /\ Reads(Server, "windows") /\ i > Len(line)
  /\ IF Pending(<<"-p", "-c", "-l", "-n">>) # Unset \/ set.conf \notin Readable \cup {Unset}
     THEN Exit
     ELSE /\ pc' = IF set.conf = Unset THEN "log" ELSE "config"
          /\ UNCHANGED <<input, flags, i, at, set>>

\* The value of a key that an option has set is not skipped: it is the next key.
KeyIsFree(key) ==
  \/ key = "PORT_NUMBER" /\ flags["-p"] = 0
  \/ key = "THREADS_NUMBER" /\ flags["-n"] = 0
  \/ key = "STDOUT_TOKEN" /\ ~set.token

\* The file ends lines with \n: \r does not belong to a number.
WindowsServerConfigLine ==
  /\ program = <<Server, "windows">> /\ pc = "config" /\ at <= Len(file.lines)
  /\ LET l == file.lines[at]
         usable == KeyIsFree(l.key) /\ ~file.crlf /\ l.value # NoValue
     IN CASE usable /\ l.key = "PORT_NUMBER" -> Enter([set EXCEPT !.port = l.value % 65536])
          [] usable /\ l.key = "THREADS_NUMBER" -> Enter([set EXCEPT !.threads = l.value])
          [] usable /\ l.key = "STDOUT_TOKEN" /\ l.value \in {0, 1} ->
               Enter([set EXCEPT !.token = l.value = 1])
          [] OTHER -> Exit

WindowsServerConfigEnd ==
  /\ program = <<Server, "windows">> /\ pc = "config" /\ at > Len(file.lines)
  /\ pc' = "log" /\ UNCHANGED <<input, flags, i, at, set>>

\* The log must open, and a semaphore of no permits cannot be made.
WindowsServerReady ==
  /\ program = <<Server, "windows">> /\ pc = "log"
  /\ IF (IF set.log = Unset THEN tmp ELSE set.log \in Readable) /\ set.threads > 0
     THEN pc' = "ready" /\ set' = IF set.log = Unset THEN [set EXCEPT !.log = "default"] ELSE set
     ELSE pc' = "exited" /\ UNCHANGED set
  /\ UNCHANGED <<input, flags, i, at>>

-----------------------------------------------------------------------------
(* The Linux client.                                                        *)

\* setCommand takes the rest of the command line, other options included.
ArgumentsFrom(k) == SubSeq(line, k, Len(line))

WellGiven(o) ==
  CASE o = "-e" -> Values(1)
    [] o = "-l" -> JustValues(1)
    [] o = "-d" -> JustValues(2) /\ line[i + 1] \in Readable
    [] o = "-u" -> JustValues(2)

SettleIf(ok, new) == IF ok THEN Settle(new) ELSE Exit

\* -p and -h are looked for behind the command, too; a second command is not.
LinuxClientArgument ==
  /\ Reads(Client, "linux") /\ i <= Len(line)
  /\ LET option == line[i]
         value == line[i + 1]
     IN CASE option = "-p" ->
               SettleIf(Values(1) /\ InRange(Atoi(value), MAX_PORT_NUMBER),
                        [set EXCEPT !.port = Atoi(value)])
          [] option = "-h" ->
               SettleIf(Values(1) /\ value \in Hosts, [set EXCEPT !.host = value])
          [] option \in Commands /\ set.command = Unset ->
               SettleIf(WellGiven(option),
                        [set EXCEPT !.command = option, !.args = ArgumentsFrom(i + 1)])
          [] OTHER -> Settle(set)

Complete == set.host # Unset /\ set.port # 0 /\ set.command # Unset

LinuxClientReady ==
  /\ Reads(Client, "linux") /\ i > Len(line)
  /\ pc' = IF Complete THEN "ready" ELSE "exited"
  /\ UNCHANGED <<input, flags, i, at, set>>

-----------------------------------------------------------------------------
(* The Windows client.                                                      *)

\* Fewer than 6 arguments are refused; an unknown letter is passed over.
WindowsClientOption ==
  /\ Reads(Client, "windows") /\ i <= Len(line) /\ Len(line) >= 6 /\ line[i] \in Dashed
  /\ UNCHANGED set
  /\ IF line[i] \in Letters \ (Commands \cup {"-p", "-h"})
     THEN i' = i + 1 /\ UNCHANGED <<input, flags, at, pc>>
     ELSE Raise(Commands \cup {"-p", "-h"})

\* strcat appends the next word in place, over that word: any of them may be lost.
Joined(kept) == <<line[i]>> \o [k \in DOMAIN kept |-> line[kept[k]]]
KeptOf(n) ==
  {kept \in [1 .. n -> i + 1 .. Len(line)] : \A j, k \in 1 .. n : j < k => kept[j] < kept[k]}

\* A command ends the loop, whatever was not given yet stays as it was: not initialised.
FitsLine(o) == CASE o = "-l" -> i = Len(line) [] o = "-e" -> TRUE [] OTHER -> i = Len(line) - 1
WindowsClientCommand(o) ==
  /\ \E n \in 0 .. Len(line) - i : \E kept \in KeptOf(n) :
       set' = [set EXCEPT !.command = o, !.args = Joined(kept)]
  /\ pc' = "ready" /\ UNCHANGED <<input, flags, i, at>>

\* A port has at most four digits.
WindowsClientValue ==
  /\ Reads(Client, "windows") /\ i <= Len(line) /\ Len(line) >= 6 /\ line[i] \notin Dashed
  /\ LET value == line[i]
         o == Pending(<<"-h", "-p", "-l", "-e", "-d", "-u">>)
         four == value \in DOMAIN Number /\ Number[value] < 10000
     IN CASE o = "-h" /\ value \in Hosts -> Give(o, [set EXCEPT !.host = value])
          [] o = "-p" /\ four -> Give(o, [set EXCEPT !.port = Number[value]])
          [] o \in Commands /\ FitsLine(o) -> WindowsClientCommand(o)
          [] OTHER -> Exit

WindowsClientEnd ==
  /\ Reads(Client, "windows") /\ (i > Len(line) \/ Len(line) < 6)
  /\ pc' = IF Len(line) < 6 THEN "exited" ELSE "ready"
  /\ UNCHANGED <<input, flags, i, at, set>>

-----------------------------------------------------------------------------
LinuxServer ==
  LinuxServerArgument \/ LinuxServerConfigLine \/ LinuxServerConfigEnd \/ LinuxServerReady
WindowsServer ==
  \/ WindowsServerOption \/ WindowsServerValue \/ WindowsServerOptionsEnd
  \/ WindowsServerConfigLine \/ WindowsServerConfigEnd \/ WindowsServerReady
LinuxClient == LinuxClientArgument \/ LinuxClientReady
WindowsClient == WindowsClientOption \/ WindowsClientValue \/ WindowsClientEnd

Next == LinuxServer \/ WindowsServer \/ LinuxClient \/ WindowsClient
Spec == Init /\ [][Next]_vars
\* The program is scheduled.
FairSpec == Spec /\ WF_vars(Next)

-----------------------------------------------------------------------------
(* Properties.                                                              *)

Words(from) == {line[k] : k \in from .. Len(line)}
Given(o) == {Atoi(line[k + 1]) : k \in {j \in 1 .. Len(line) - 1 : line[j] = o}}
FileIsRead == \E k \in 1 .. Len(line) - 1 : line[k] = "-c" /\ line[k + 1] \in Readable
FileGives(key) ==
  {file.lines[k].value : k \in {j \in DOMAIN file.lines : FileIsRead /\ file.lines[j].key = key}}

\* The type invariant.  A Linux program that starts has a port and, the server, a number
\* of threads it can work with; the client has all it needs.
TypeOK ==
  /\ program \in Programs /\ line \in Lines[program[1]] /\ i \in 1 .. Len(line) + 1
  /\ at \in 1 .. Len(file.lines) + 1
  /\ flags \in [Letters -> 0 .. 2] /\ DOMAIN set = DOMAIN Default
  /\ pc \in {"options", "config", "log", "ready", "exited", "crashed"}
  /\ pc = "ready" /\ program[2] = "linux" =>
       /\ set.port \in 1 .. MAX_PORT_NUMBER /\ set.threads \in 1 .. MAX_THREADS_NUM
       /\ program[1] = Client => Complete /\ set.host \in Hosts /\ set.args # <<>>

\* Each option that takes a value has one behind it, and no value stands alone.
Paired ==
  \A k \in 1 .. Len(line) :
    IF line[k] \in {"-p", "-n", "-c", "-l"} THEN k < Len(line) /\ line[k + 1] \notin Dashed
    ELSE line[k] = "-s" \/ (k > 1 /\ line[k] \notin Dashed /\ line[k - 1] \in {"-p", "-n", "-c", "-l"})

\* What a setting may be: what the option says, or else the file, or else the default.
\* On Linux an option that says the default counts as not given.
Asked(o, key, default, max) ==
  LET given == Given(o) \cap (1 .. max)
      filed == FileGives(key) \cap (1 .. max)
  IN IF given # {} /\ ~(default \in given /\ program[2] = "linux") THEN given
     ELSE IF filed # {} THEN filed \cup given
     ELSE {default} \cup given

\* The numbers are in range: Windows does not look.
Sane ==
  /\ Given("-p") \cup FileGives("PORT_NUMBER") \subseteq 1 .. MAX_PORT_NUMBER
  /\ Given("-n") \cup FileGives("THREADS_NUMBER") \subseteq 1 .. MAX_THREADS_NUM

\* Wherever -c stands among the options, a server starts with what the command line says,
\* and takes from the file only what the command line leaves open.
ServerAsAsked ==
  program[1] = Server /\ pc = "ready" /\ Paired /\ (program[2] = "windows" => Sane) =>
    /\ set.port \in Asked("-p", "PORT_NUMBER", DEFAULT_PORT_NUMBER, MAX_PORT_NUMBER)
    /\ set.threads \in Asked("-n", "THREADS_NUMBER", DEFAULT_THREADS_NUMBER, MAX_THREADS_NUM)
    /\ set.token <=> "-s" \in Words(1) \/ \E v \in FileGives("STDOUT_TOKEN") : v > 0

\* A client's command line with the server first and the command behind it.
ClientForm ==
  /\ Len(line) >= 6 /\ {line[1], line[3]} = {"-h", "-p"} /\ line[5] \in Commands
  /\ {line[2], line[4], line[6]} \cap Dashed = {}

\* The client addresses the server, and asks for what, its user wrote.  The exceptions
\* are words of the command that are -p or -h, on Linux, and words that Windows loses.
ClientAsAsked ==
  program[1] = Client /\ pc = "ready" /\ ClientForm =>
    /\ set.command = line[5] /\ set.args[1] = line[6]
    /\ program[2] = "linux" => set.args = SubSeq(line, 6, Len(line))
    /\ program[2] = "windows" \/ {"-p", "-h"} \cap Words(6) = {} =>
         set.port \in Given("-p") /\ set.host \in {line[2], line[4]}

\* A command line in order.  On Windows that is one with each option once and nothing out
\* of range, and a file with \n, known keys, and none that an option gives as well.
GoodServerLine ==
  IF program[2] = "linux"
  THEN FileIsRead => \A k \in DOMAIN file.lines : file.lines[k].value # NoValue
  ELSE
    /\ Paired /\ Sane /\ tmp
    /\ \A j, k \in 1 .. Len(line) :
         /\ line[j] = line[k] /\ line[j] \in Dashed => j = k
         /\ line[j] \in {"-p", "-n"} => line[j + 1] \in DOMAIN Number
         /\ line[j] = "-l" => line[j + 1] \in LogNames \cap Readable
         /\ line[j] = "-c" => line[j + 1] \in Readable
    /\ FileIsRead =>
         /\ ~file.crlf
         /\ \A k \in DOMAIN file.lines :
              /\ file.lines[k].key \in Keys /\ file.lines[k].value # NoValue
              /\ CASE file.lines[k].key = "PORT_NUMBER" -> "-p" \notin Words(1)
                   [] file.lines[k].key = "THREADS_NUMBER" -> "-n" \notin Words(1)
                   [] OTHER -> "-s" \notin Words(1) /\ file.lines[k].value \in {0, 1}

\* On Linux the command's words may not be -p and -h, on Windows a port may not have five
\* digits.
GoodClientLine ==
  /\ ClientForm
  /\ \E k \in {1, 3} :
       /\ line[k] = "-h" /\ line[k + 1] \in Hosts /\ line[4 - k] = "-p"
       /\ Atoi(line[5 - k]) \in 1 .. (IF program[2] = "linux" THEN MAX_PORT_NUMBER ELSE 9999)
  /\ CASE line[5] = "-e" -> {"-p", "-h"} \cap Words(6) = {}
       [] line[5] = "-l" -> Len(line) = 6
       [] line[5] = "-d" -> Len(line) = 7 /\ line[7] \notin Dashed /\ line[6] \in Readable
       [] line[5] = "-u" -> Len(line) = 7 /\ line[7] \notin Dashed

\* Such a command line starts the program, whatever the order of its options.
GoodLineStarts ==
  (IF program[1] = Server THEN GoodServerLine ELSE GoodClientLine) => <>(pc = "ready")
=============================================================================
