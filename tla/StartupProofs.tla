----------------------------- MODULE StartupProofs -----------------------------
(***************************************************************************)
(* Every command line and every file: a server starts with the numbers it  *)
(* was asked for, and a client with the server and the command it was      *)
(* asked for.                                                               *)
(***************************************************************************)
EXTENDS Startup, SequenceTheorems, WellFoundedInduction, TLAPS

\* Every name is a word of the command line.
Settings ==
  [port : Nat, threads : Nat, token : BOOLEAN, log : {Unset, "default"} \cup Words(1),
   conf : {Unset} \cup Words(1), host : {Unset} \cup Words(1), command : {Unset} \cup Commands,
   args : Seq(STRING)]
FileLine == [key : STRING, value : {NoValue} \cup Nat]

\* What no step changes.
FixedInv ==
  /\ program \in Programs /\ line \in Lines[program[1]] /\ line \in Seq(STRING)
  /\ file.lines \in Seq(FileLine) /\ file.crlf \in BOOLEAN /\ tmp \in BOOLEAN

\* A Linux server reads the file where -c is, and a Windows server when it has read the
\* options.
TypedInv ==
  /\ i \in 1 .. Len(line) + 1 /\ at \in 1 .. Len(file.lines) + 1
  /\ flags \in [Letters -> 0 .. 2] /\ set \in Settings
  /\ pc \in {"options", "config", "log", "ready", "exited", "crashed"}
  /\ program = <<Server, "linux">> =>
       /\ pc # "log"
       /\ pc = "config" => i < Len(line) /\ line[i] = "-c" /\ line[i + 1] \in Readable
  /\ program[1] = Client => pc \in {"options", "ready", "exited"}

\* The numbers of the Linux programs are in range from the start.
RangeInv ==
  program[2] = "linux" =>
    /\ set.threads \in 1 .. MAX_THREADS_NUM
    /\ set.port \in 1 .. MAX_PORT_NUMBER \cup (IF program[1] = Client THEN {0} ELSE {})
    /\ program[1] = Client =>
         /\ set.host \in Hosts \cup {Unset}
         /\ set.command # Unset => set.args # <<>>
         /\ pc = "ready" => Complete

-----------------------------------------------------------------------------
\* A program is one of four.
LEMMA FourPrograms ==
  ASSUME program \in Programs
  PROVE  /\ program[1] \in {Server, Client} /\ program[2] \in {"linux", "windows"}
         /\ program = <<program[1], program[2]>>
<1>1. program \in {Server, Client} \X {"linux", "windows"} BY StartupAssumption
<1>. QED BY <1>1

\* What atoi returns is a natural number: a word of a command line has no sign before it.
LEMMA AtoiIsNat == ASSUME NEW w PROVE Atoi(w) \in Nat
BY StartupAssumption DEF Atoi

\* The least of some natural numbers is one of them.
LEMMA LeastNatural ==
  ASSUME NEW S \in SUBSET Nat, S # {}
  PROVE  Min(S) \in S
<1>1. PICK x \in S : \A y \in S : <<y, x>> \notin OpToRel(<, Nat)
  BY NatLessThanWellFounded, WFMin
<1>2. ASSUME NEW y \in S PROVE x <= y
  <2>1. x \in Nat /\ y \in Nat OBVIOUS
  <2>2. ~(y < x) BY <1>1, <2>1 DEF OpToRel
  <2>. QED BY <2>1, <2>2, SMT
<1>. QED BY <1>2 DEF Min

\* The option that gets a value waits for it, and if none gets it none waits.
LEMMA PendingWaits ==
  ASSUME NEW options, Len(options) \in Nat, \A k \in 1 .. Len(options) : options[k] # Unset
  PROVE  /\ Pending(options) # Unset =>
              Waiting(Pending(options)) /\ \E k \in 1 .. Len(options) : Pending(options) = options[k]
         /\ Pending(options) = Unset => \A k \in 1 .. Len(options) : ~Waiting(options[k])
<1>. DEFINE I == {k \in 1 .. Len(options) : Waiting(options[k])}
            m == SelectInSeq(options, LAMBDA o : Waiting(o))
<1>1. m = IF I # {} THEN Min(I) ELSE 0 BY DEF SelectInSeq
<1>2. Pending(options) = IF m = 0 THEN Unset ELSE options[m] BY DEF Pending
<1>. HIDE DEF m
<1>3. I # {} => Min(I) \in I
  <2>1. I \in SUBSET Nat BY SMT
  <2>. HIDE DEF I
  <2>. QED BY <2>1, LeastNatural
<1>4. CASE I = {} BY <1>1, <1>2, <1>4
<1>5. CASE I # {}
  <2>1. m \in I BY <1>1, <1>3, <1>5
  <2>2. m # 0 BY <2>1, SMT
  <2>. QED BY <1>2, <2>1, <2>2
<1>. QED BY <1>4, <1>5

-----------------------------------------------------------------------------
(* Types.                                                                   *)

\* The settings a program begins with.
LEMMA TypesInit == Init => FixedInv /\ TypedInv /\ RangeInv
<1>. SUFFICES ASSUME Init PROVE FixedInv /\ TypedInv /\ RangeInv OBVIOUS
<1>1. FixedInv
  <2>1. program[1] \in {Server, Client} BY FourPrograms DEF Init
  <2>2. line \in Seq(STRING)
    <3>1. line \in Lines[program[1]] BY DEF Init
    <3>2. Lines[program[1]] \in SUBSET Seq(STRING) BY <2>1, StartupAssumption
    <3>. QED BY <3>1, <3>2
  <2>3. <<>> \in Seq(FileLine) OBVIOUS
  <2>4. file.lines \in Seq(FileLine) /\ file.crlf \in BOOLEAN /\ tmp \in BOOLEAN
    <3>1. CASE file \in Files /\ tmp \in BOOLEAN BY <3>1, StartupAssumption DEF FileLine
    <3>2. CASE file = [lines |-> <<>>, crlf |-> FALSE] /\ tmp = TRUE BY <2>3, <3>2
    <3>. QED BY <3>1, <3>2 DEF Init
  <2>. QED BY <2>2, <2>4 DEF Init, FixedInv
<1>2. TypedInv
  <2>1. <<>> \in Seq(STRING) OBVIOUS
  <2>2. Default \in Settings
    <3>. QED BY <2>1 DEF Default, Settings, DEFAULT_PORT_NUMBER, DEFAULT_THREADS_NUMBER, Unset
  <2>4. [Default EXCEPT !.port = 0] \in Settings BY <2>2 DEF Settings
  <2>3. 1 \in 1 .. Len(line) + 1 /\ 1 \in 1 .. Len(file.lines) + 1 BY <1>1, SMT DEF FixedInv
  <2>. QED BY <2>2, <2>3, <2>4, FourPrograms DEF Init, TypedInv
<1>3. RangeInv
  <2>1. set.threads = 10 /\ set.port = (IF program[1] = Server THEN 8888 ELSE 0)
        /\ set.host = Unset /\ set.command = Unset /\ pc = "options"
    BY DEF Init, Default, DEFAULT_PORT_NUMBER, DEFAULT_THREADS_NUMBER
  <2>2. program[1] \in {Server, Client} BY FourPrograms DEF Init
  <2>. QED BY <2>1, <2>2, SMT DEF RangeInv, MAX_PORT_NUMBER, MAX_THREADS_NUM, Server, Client
<1>. QED BY <1>1, <1>2, <1>3

\* The words of a command line are strings.
LEMMA WordsAreStrings ==
  ASSUME FixedInv, NEW k \in 1 .. Len(line)
  PROVE  line[k] \in STRING
BY ElementOfSeq DEF FixedInv

\* A line of the file has a key and perhaps a value.
LEMMA LinesOfFile ==
  ASSUME FixedInv, NEW k \in 1 .. Len(file.lines)
  PROVE  file.lines[k] \in FileLine
BY ElementOfSeq DEF FixedInv

\* What one argument does to the settings of the Linux server.
LEMMA LinuxServerArgumentEffect ==
  ASSUME FixedInv, TypedInv, LinuxServerArgument
  PROVE  /\ program = <<Server, "linux">> /\ pc = "options" /\ i \in 1 .. Len(line)
         /\ UNCHANGED <<input, flags>> /\ set' \in Settings
         /\ IF line[i] = "-c" /\ i < Len(line) /\ line[i + 1] \in Readable
            THEN /\ pc' = "config" /\ at' = 1 /\ i' = i
                 /\ set'.port = set.port /\ set'.threads = set.threads /\ set'.token = set.token
            ELSE /\ pc' = pc /\ at' = at /\ i' = i + 1
                 /\ set'.port = IF line[i] = "-p" /\ i < Len(line)
                                   /\ Atoi(line[i + 1]) \in 1 .. MAX_PORT_NUMBER
                                THEN Atoi(line[i + 1]) ELSE set.port
                 /\ set'.threads = IF line[i] = "-n" /\ i < Len(line)
                                      /\ Atoi(line[i + 1]) \in 1 .. MAX_THREADS_NUM
                                   THEN Atoi(line[i + 1]) ELSE set.threads
                 /\ set'.token = (set.token \/ line[i] = "-s")
<1>. DEFINE reads == line[i] = "-c" /\ i < Len(line) /\ line[i + 1] \in Readable
            value == line[i + 1]
<1>1. program = <<Server, "linux">> /\ pc = "options" /\ i \in 1 .. Len(line)
  BY SMT DEF LinuxServerArgument, Reads, FixedInv, TypedInv
<1>2. UNCHANGED <<input, flags>> BY DEF LinuxServerArgument, Settle, input
<1>3. set \in Settings BY DEF TypedInv
<1>4. i < Len(line) => value \in Words(1) /\ Atoi(value) \in Nat
  BY <1>1, AtoiIsNat, SMT DEF FixedInv, Words
<1>5. Values(1) => i < Len(line) BY <1>1, SMT DEF Values, FixedInv
<1>6. CASE reads
  <2>1. set' = [set EXCEPT !.conf = value] /\ pc' = "config" /\ at' = 1 /\ i' = i
    BY <1>6 DEF LinuxServerArgument
  <2>. QED BY <1>1, <1>2, <1>3, <1>4, <1>6, <2>1 DEF Settings
<1>7. CASE ~reads
  <2>1. pc' = pc /\ at' = at /\ i' = i + 1 BY <1>7 DEF LinuxServerArgument, Settle
  <2>2. set' = CASE line[i] = "-s" -> [set EXCEPT !.token = TRUE]
            [] line[i] = "-p" /\ i < Len(line) -> setNumber("port", Atoi(value), FALSE, set)
            [] line[i] = "-n" /\ i < Len(line) -> setNumber("threads", Atoi(value), FALSE, set)
            [] line[i] = "-l" /\ Values(1) /\ value \in Readable -> [set EXCEPT !.log = value]
            [] OTHER -> set
    BY <1>7 DEF LinuxServerArgument, Settle
  <2>3. CASE line[i] = "-s"
    <3>1. set' = [set EXCEPT !.token = TRUE] BY <2>2, <2>3
    <3>. QED BY <1>1, <1>2, <1>3, <1>7, <2>1, <2>3, <3>1 DEF Settings
  <2>4. CASE line[i] = "-p" /\ i < Len(line)
    <3>1. set' = IF Atoi(value) \in 1 .. MAX_PORT_NUMBER THEN [set EXCEPT !.port = Atoi(value)] ELSE set
      BY <2>2, <2>4 DEF setNumber, Takes, InRange
    <3>. QED BY <1>1, <1>2, <1>3, <1>4, <1>7, <2>1, <2>4, <3>1 DEF Settings
  <2>5. CASE line[i] = "-n" /\ i < Len(line)
    <3>1. set' = IF Atoi(value) \in 1 .. MAX_THREADS_NUM THEN [set EXCEPT !.threads = Atoi(value)] ELSE set
      BY <2>2, <2>5 DEF setNumber, Takes, InRange
    <3>. QED BY <1>1, <1>2, <1>3, <1>4, <1>7, <2>1, <2>5, <3>1 DEF Settings
  <2>6. CASE line[i] = "-l" /\ Values(1) /\ value \in Readable
    <3>1. set' = [set EXCEPT !.log = value] BY <2>2, <2>6
    <3>. QED BY <1>1, <1>2, <1>3, <1>4, <1>5, <1>7, <2>1, <2>6, <3>1 DEF Settings
  <2>7. CASE /\ line[i] # "-s" /\ ~(line[i] = "-p" /\ i < Len(line)) /\ ~(line[i] = "-n" /\ i < Len(line))
             /\ ~(line[i] = "-l" /\ Values(1) /\ value \in Readable)
    <3>1. set' = set BY <2>2, <2>7
    <3>2. set.token \in BOOLEAN BY <1>3 DEF Settings
    <3>. QED BY <1>1, <1>2, <1>3, <1>7, <2>1, <2>7, <3>1, <3>2
  <2>. QED BY <2>3, <2>4, <2>5, <2>6, <2>7
<1>. QED BY <1>6, <1>7

\* What a line of the file does to them.
LEMMA LinuxServerConfigLineEffect ==
  ASSUME FixedInv, TypedInv, LinuxServerConfigLine,
         NEW l, l = file.lines[at]
  PROVE  /\ program = <<Server, "linux">> /\ pc = "config" /\ at \in 1 .. Len(file.lines)
         /\ UNCHANGED <<input, flags, i>> /\ set' \in Settings
         /\ \/ pc' = "crashed" /\ at' = at /\ set' = set
            \/ /\ pc' = pc /\ at' = at + 1
               /\ set'.port = IF /\ l.key = "PORT_NUMBER" /\ l.value \in 1 .. MAX_PORT_NUMBER
                                 /\ set.port = DEFAULT_PORT_NUMBER
                              THEN l.value ELSE set.port
               /\ set'.threads = IF /\ l.key = "THREADS_NUMBER" /\ l.value \in 1 .. MAX_THREADS_NUM
                                    /\ set.threads = DEFAULT_THREADS_NUMBER
                                 THEN l.value ELSE set.threads
               /\ set'.token = (set.token \/ (l.key = "STDOUT_TOKEN" /\ l.value > 0))
<1>1. program = <<Server, "linux">> /\ pc = "config" /\ at \in 1 .. Len(file.lines)
  BY SMT DEF LinuxServerConfigLine, FixedInv, TypedInv
<1>2. UNCHANGED <<input, flags, i>> BY DEF LinuxServerConfigLine, Enter, input
<1>3. set \in Settings BY DEF TypedInv
<1>4. l.value \in {-1} \cup Nat BY <1>1, LinesOfFile DEF FileLine, NoValue
<1>5. CASE l.value = NoValue
  <2>1. pc' = "crashed" /\ at' = at /\ set' = set BY <1>5 DEF LinuxServerConfigLine
  <2>. QED BY <1>1, <1>2, <1>3, <2>1
<1>6. CASE l.value # NoValue
  <2>1. pc' = pc /\ at' = at + 1 /\ set' = FromLine(set, l) BY <1>6 DEF LinuxServerConfigLine, Enter
  <2>2. CASE l.value > 0 /\ l.key = "PORT_NUMBER"
    <3>1. set' = IF l.value \in 1 .. MAX_PORT_NUMBER /\ set.port = DEFAULT_PORT_NUMBER
                 THEN [set EXCEPT !.port = l.value] ELSE set
      BY <1>3, <2>1, <2>2 DEF FromLine, setNumber, Takes, InRange, Default
    <3>2. /\ set' \in Settings
          /\ set'.port = IF l.value \in 1 .. MAX_PORT_NUMBER /\ set.port = DEFAULT_PORT_NUMBER
                        THEN l.value ELSE set.port
          /\ set'.threads = set.threads /\ set'.token = set.token
      <4>1. CASE l.value \in 1 .. MAX_PORT_NUMBER /\ set.port = DEFAULT_PORT_NUMBER
        <5>1. set' = [set EXCEPT !.port = l.value] BY <3>1, <4>1
        <5>2. l.value \in Nat BY <1>4, <1>6 DEF NoValue
        <5>. QED BY <1>3, <4>1, <5>1, <5>2 DEF Settings
      <4>2. CASE ~(l.value \in 1 .. MAX_PORT_NUMBER /\ set.port = DEFAULT_PORT_NUMBER) BY <1>3, <3>1, <4>2
      <4>. QED BY <4>1, <4>2
    <3>3. set.token \in BOOLEAN BY <1>3 DEF Settings
    <3>. QED BY <1>1, <1>2, <2>1, <2>2, <3>2, <3>3
  <2>3. CASE l.value > 0 /\ l.key = "THREADS_NUMBER"
    <3>1. set' = IF l.value \in 1 .. MAX_THREADS_NUM /\ set.threads = DEFAULT_THREADS_NUMBER
                 THEN [set EXCEPT !.threads = l.value] ELSE set
      BY <1>3, <2>1, <2>3 DEF FromLine, setNumber, Takes, InRange, Default
    <3>2. /\ set' \in Settings
          /\ set'.threads = IF l.value \in 1 .. MAX_THREADS_NUM /\ set.threads = DEFAULT_THREADS_NUMBER
                        THEN l.value ELSE set.threads
          /\ set'.port = set.port /\ set'.token = set.token
      <4>1. CASE l.value \in 1 .. MAX_THREADS_NUM /\ set.threads = DEFAULT_THREADS_NUMBER
        <5>1. set' = [set EXCEPT !.threads = l.value] BY <3>1, <4>1
        <5>2. l.value \in Nat BY <1>4, <1>6 DEF NoValue
        <5>. QED BY <1>3, <4>1, <5>1, <5>2 DEF Settings
      <4>2. CASE ~(l.value \in 1 .. MAX_THREADS_NUM /\ set.threads = DEFAULT_THREADS_NUMBER) BY <1>3, <3>1, <4>2
      <4>. QED BY <4>1, <4>2
    <3>3. set.token \in BOOLEAN BY <1>3 DEF Settings
    <3>. QED BY <1>1, <1>2, <2>1, <2>3, <3>2, <3>3
  <2>4. CASE l.value > 0 /\ l.key = "STDOUT_TOKEN"
    <3>1. set' = [set EXCEPT !.token = TRUE] BY <2>1, <2>4 DEF FromLine
    <3>2. /\ set' \in Settings /\ set'.token = TRUE
          /\ set'.port = set.port /\ set'.threads = set.threads
      BY <1>3, <3>1 DEF Settings
    <3>. QED BY <1>1, <1>2, <2>1, <2>4, <3>2
  <2>5. CASE ~(l.value > 0 /\ l.key \in Keys)
    <3>1. set' = set BY <2>1, <2>5 DEF FromLine, Keys
    <3>2. set.token \in BOOLEAN BY <1>3 DEF Settings
    <3>3. \A max : \A v \in 1 .. max : v > 0 BY SMT
    <3>. QED BY <1>1, <1>2, <1>3, <2>1, <2>5, <3>1, <3>2, <3>3 DEF Keys
  <2>. QED BY <2>2, <2>3, <2>4, <2>5 DEF Keys
<1>. QED BY <1>5, <1>6

\* The end of the file and the end of the command line.
LEMMA LinuxServerEndsEffect ==
  ASSUME FixedInv, TypedInv, LinuxServerConfigEnd \/ LinuxServerReady
  PROVE  /\ program = <<Server, "linux">> /\ UNCHANGED <<input, flags, at>>
         /\ set' \in Settings /\ set'.port = set.port /\ set'.threads = set.threads
         /\ set'.token = set.token
         /\ \/ /\ pc = "config" /\ pc' = "options" /\ at > Len(file.lines) /\ i' = i + 1
            \/ /\ pc = "options" /\ pc' = "ready" /\ i > Len(line) /\ i' = i
<1>1. CASE LinuxServerConfigEnd
  BY <1>1 DEF LinuxServerConfigEnd, TypedInv, input
<1>2. CASE LinuxServerReady
  <2>1. /\ program = <<Server, "linux">> /\ pc = "options" /\ pc' = "ready" /\ i > Len(line) /\ i' = i
        /\ UNCHANGED <<input, flags, at>>
    BY <1>2 DEF LinuxServerReady, Reads, input
  <2>2. set' = set \/ set' = [set EXCEPT !.log = "default"] BY <1>2 DEF LinuxServerReady
  <2>3. set' \in Settings /\ set'.port = set.port /\ set'.threads = set.threads /\ set'.token = set.token
    BY <2>1, <2>2 DEF TypedInv, Settings, Words, input
  <2>. QED BY <2>1, <2>3
<1>. QED BY <1>1, <1>2

\* The Linux server's settings keep their types and ranges.
LEMMA TypesLinuxServer ==
  ASSUME FixedInv, TypedInv, RangeInv, LinuxServer
  PROVE  TypedInv' /\ RangeInv'
<1>1. /\ Len(line) \in Nat /\ Len(file.lines) \in Nat /\ program = <<Server, "linux">>
      /\ program[1] = Server /\ Server # Client /\ UNCHANGED <<input, flags>> /\ set' \in Settings
  BY LinuxServerArgumentEffect, LinuxServerConfigLineEffect, LinuxServerEndsEffect
  DEF FixedInv, LinuxServer, Server, Client
<1>2. Settings' = Settings BY <1>1 DEF Settings, Words, input
<1>3. /\ i' \in 1 .. Len(line) + 1 /\ at' \in 1 .. Len(file.lines) + 1
      /\ pc' \in {"options", "config", "ready", "crashed"}
      /\ pc' = "config" => i' < Len(line) /\ line[i'] = "-c" /\ line[i' + 1] \in Readable
  <2>1. CASE LinuxServerArgument BY <1>1, <2>1, LinuxServerArgumentEffect, SMT DEF TypedInv
  <2>2. CASE LinuxServerConfigLine
    <3>1. /\ at \in 1 .. Len(file.lines) /\ i' = i /\ (at' = at \/ at' = at + 1)
          /\ pc = "config" /\ (pc' = pc \/ pc' = "crashed")
      BY <2>2, LinuxServerConfigLineEffect
    <3>2. at' \in 1 .. Len(file.lines) + 1 BY <1>1, <3>1, SMT
    <3>3. line' = line BY <1>1 DEF input
    <3>. QED BY <1>1, <3>1, <3>2, <3>3 DEF TypedInv
  <2>3. CASE LinuxServerConfigEnd \/ LinuxServerReady
    BY <1>1, <2>3, LinuxServerEndsEffect, SMT DEF TypedInv
  <2>. QED BY <2>1, <2>2, <2>3 DEF LinuxServer
<1>4. set'.port \in 1 .. MAX_PORT_NUMBER /\ set'.threads \in 1 .. MAX_THREADS_NUM
  <2>1. set.port \in 1 .. MAX_PORT_NUMBER /\ set.threads \in 1 .. MAX_THREADS_NUM
    BY <1>1 DEF RangeInv
  <2>. QED BY <2>1, LinuxServerArgumentEffect, LinuxServerConfigLineEffect, LinuxServerEndsEffect
       DEF LinuxServer
<1>5. TypedInv' BY <1>1, <1>2, <1>3 DEF TypedInv, input
<1>6. RangeInv' BY <1>1, <1>4 DEF RangeInv, input
<1>. QED BY <1>5, <1>6

-----------------------------------------------------------------------------
(* The settings of the Linux server.                                        *)

\* The option o in front of argument i gave a number in range, and the file was read.
GaveBefore(o, max) ==
  \E k \in 1 .. Len(line) - 1 : k < i /\ line[k] = o /\ Atoi(line[k + 1]) \in 1 .. max
ReadBefore == \E k \in 1 .. Len(line) - 1 : k < i /\ line[k] = "-c" /\ line[k + 1] \in Readable

\* A number is the default or was given; it is what an option gave if one did, and then
\* the file does not change it, and what the file gave if that was read.
LinuxNumber(setting, o, key, default, max) ==
  LET given == Given(o) \cap (1 .. max)
      filed == FileGives(key) \cap (1 .. max)
  IN /\ set[setting] \in {default} \cup given \cup filed
     /\ GaveBefore(o, max) /\ default \notin given => set[setting] \in given
     /\ ReadBefore /\ filed # {} => set[setting] \in given \cup filed
     /\ pc = "config" =>
          \A k \in DOMAIN file.lines :
            k < at /\ file.lines[k].key = key /\ file.lines[k].value \in 1 .. max =>
              set[setting] \in given \cup filed

LinuxToken ==
  LET filed == \E v \in FileGives("STDOUT_TOKEN") : v > 0
  IN /\ set.token => "-s" \in Words(1) \/ filed
     /\ (\E k \in 1 .. Len(line) : k < i /\ line[k] = "-s") => set.token
     /\ ReadBefore /\ filed => set.token
     /\ pc = "config" =>
          \A k \in DOMAIN file.lines :
            k < at /\ file.lines[k].key = "STDOUT_TOKEN" /\ file.lines[k].value > 0 => set.token

LinuxServerInv ==
  program = <<Server, "linux">> =>
    /\ LinuxNumber("port", "-p", "PORT_NUMBER", DEFAULT_PORT_NUMBER, MAX_PORT_NUMBER)
    /\ LinuxNumber("threads", "-n", "THREADS_NUMBER", DEFAULT_THREADS_NUMBER, MAX_THREADS_NUM)
    /\ LinuxToken
    /\ pc = "ready" => i > Len(line)

\* An option gives a number, or leaves it as it was.
LEMMA NumberFromOption ==
  ASSUME NEW setting, NEW o, NEW key, NEW default, NEW max,
         LinuxNumber(setting, o, key, default, max), FixedInv, TypedInv,
         i \in 1 .. Len(line), UNCHANGED <<line, file>>, pc = "options", pc' = pc, i' = i + 1,
         ~(line[i] = "-c" /\ i < Len(line) /\ line[i + 1] \in Readable),
         set'[setting] = IF line[i] = o /\ i < Len(line) /\ Atoi(line[i + 1]) \in 1 .. max
                         THEN Atoi(line[i + 1]) ELSE set[setting]
  PROVE  LinuxNumber(setting, o, key, default, max)'
<1>. DEFINE given == Given(o) \cap (1 .. max)
            filed == FileGives(key) \cap (1 .. max)
            gives == line[i] = o /\ i < Len(line) /\ Atoi(line[i + 1]) \in 1 .. max
<1>1. given' = given /\ filed' = filed BY DEF Given, FileGives, FileIsRead
<1>2. Len(line) \in Nat BY DEF FixedInv
<1>3. ReadBefore' => ReadBefore
  BY <1>2, SMT DEF ReadBefore
<1>4. GaveBefore(o, max)' => GaveBefore(o, max) \/ gives
  BY <1>2, SMT DEF GaveBefore
<1>5. gives => Atoi(line[i + 1]) \in given
  BY <1>2, SMT DEF Given
<1>. HIDE DEF given, filed, gives
<1>6. set'[setting] \in {default} \cup given \cup filed
  BY <1>5 DEF LinuxNumber, given, filed, gives
<1>7. GaveBefore(o, max)' /\ default \notin given => set'[setting] \in given
  BY <1>4, <1>5 DEF LinuxNumber, given, filed, gives
<1>8. ReadBefore' /\ filed # {} => set'[setting] \in given \cup filed
  BY <1>3, <1>5 DEF LinuxNumber, given, filed, gives
<1>. QED BY <1>1, <1>6, <1>7, <1>8 DEF LinuxNumber, given, filed

\* A line of the file gives a number that is still the default, or leaves it as it was.
LEMMA NumberFromLine ==
  ASSUME NEW setting, NEW o, NEW key, NEW default, NEW max,
         LinuxNumber(setting, o, key, default, max), FixedInv, TypedInv, FileIsRead,
         at \in 1 .. Len(file.lines), UNCHANGED <<line, file, i>>, pc = "config", pc' = pc,
         at' = at + 1,
         set'[setting] = IF /\ file.lines[at].key = key /\ file.lines[at].value \in 1 .. max
                            /\ set[setting] = default
                         THEN file.lines[at].value ELSE set[setting]
  PROVE  LinuxNumber(setting, o, key, default, max)'
<1>. DEFINE given == Given(o) \cap (1 .. max)
            filed == FileGives(key) \cap (1 .. max)
            fits(k) == file.lines[k].key = key /\ file.lines[k].value \in 1 .. max
<1>1. given' = given /\ filed' = filed BY DEF Given, FileGives, FileIsRead
<1>2. Len(file.lines) \in Nat /\ DOMAIN file.lines = 1 .. Len(file.lines) BY DEF FixedInv
<1>3. ReadBefore' = ReadBefore /\ GaveBefore(o, max)' = GaveBefore(o, max)
  BY DEF ReadBefore, GaveBefore
<1>4. fits(at) => file.lines[at].value \in filed
  BY <1>2 DEF FileGives
<1>5. \A k \in DOMAIN file.lines : k < at' => k < at \/ k = at
  BY <1>2, SMT
<1>. HIDE DEF given, filed
<1>6. set'[setting] \in {default} \cup given \cup filed
  BY <1>4 DEF LinuxNumber, given, filed
<1>7. GaveBefore(o, max) /\ default \notin given => set'[setting] \in given
  BY <1>4 DEF LinuxNumber, given, filed
<1>8. ReadBefore /\ filed # {} => set'[setting] \in given \cup filed
  BY <1>4 DEF LinuxNumber, given, filed
<1>9. fits(at) => set'[setting] \in given \cup filed
  BY <1>4, <1>6 DEF LinuxNumber, given, filed
<1>10. ASSUME NEW k \in DOMAIN file.lines, k < at', fits(k)
       PROVE  set'[setting] \in given \cup filed
  <2>1. CASE k = at BY <1>9, <1>10, <2>1
  <2>2. CASE k < at
    <3>1. set[setting] \in given \cup filed BY <1>10, <2>2 DEF LinuxNumber, given, filed
    <3>. QED BY <1>4, <3>1
  <2>. QED BY <1>5, <1>10, <2>1, <2>2
<1>. QED BY <1>1, <1>3, <1>6, <1>7, <1>8, <1>10 DEF LinuxNumber, given, filed

\* The other steps leave the number: the file is opened, it is at its end, all is read.
LEMMA NumberIsLeft ==
  ASSUME NEW setting, NEW o, NEW key, NEW default, NEW max,
         LinuxNumber(setting, o, key, default, max), FixedInv, TypedInv,
         UNCHANGED <<line, file>>, set'[setting] = set[setting],
         \/ pc' = "config" /\ at' = 1 /\ i' = i
         \/ pc' \in {"ready", "crashed"} /\ i' = i
         \/ /\ pc = "config" /\ pc' = "options" /\ at > Len(file.lines) /\ i' = i + 1
            /\ i \in 1 .. Len(line) /\ line[i] = "-c"
            /\ o # "-c"
  PROVE  LinuxNumber(setting, o, key, default, max)'
<1>. DEFINE given == Given(o) \cap (1 .. max)
            filed == FileGives(key) \cap (1 .. max)
<1>1. given' = given /\ filed' = filed BY DEF Given, FileGives, FileIsRead
<1>2. /\ Len(line) \in Nat /\ Len(file.lines) \in Nat /\ DOMAIN file.lines = 1 .. Len(file.lines)
      /\ at \in Nat
  BY DEF FixedInv, TypedInv
<1>. HIDE DEF given, filed
<1>3. CASE pc' = "config" /\ at' = 1 /\ i' = i
  <2>1. \A k \in 1 .. Len(file.lines) : ~(k < at') BY <1>2, <1>3, SMT
  <2>2. ReadBefore' = ReadBefore /\ GaveBefore(o, max)' = GaveBefore(o, max)
    BY <1>3 DEF ReadBefore, GaveBefore
  <2>. QED BY <1>1, <1>2, <2>1, <2>2 DEF LinuxNumber, given, filed
<1>4. CASE pc' \in {"ready", "crashed"} /\ i' = i
  <2>1. ReadBefore' = ReadBefore /\ GaveBefore(o, max)' = GaveBefore(o, max)
    BY <1>4 DEF ReadBefore, GaveBefore
  <2>. QED BY <1>1, <1>4, <2>1 DEF LinuxNumber, given, filed
<1>5. CASE /\ pc = "config" /\ pc' = "options" /\ at > Len(file.lines) /\ i' = i + 1
           /\ i \in 1 .. Len(line) /\ line[i] = "-c" /\ o # "-c"
  <2>1. GaveBefore(o, max)' => GaveBefore(o, max)
    <3>1. \A k \in 1 .. Len(line) - 1 : k < i' => k < i \/ k = i BY <1>2, <1>5, SMT
    <3>. QED BY <1>5, <3>1 DEF GaveBefore
  <2>2. \A k \in 1 .. Len(file.lines) : k < at BY <1>2, <1>5, SMT
  <2>3. filed # {} => set[setting] \in given \cup filed
    BY <1>2, <1>5, <2>2 DEF LinuxNumber, FileGives, given, filed
  <2>. QED BY <1>1, <1>5, <2>1, <2>3 DEF LinuxNumber, given, filed
<1>. QED BY <1>3, <1>4, <1>5

\* Nothing is given at the start.
LEMMA LinuxServerInvInit == Init => LinuxServerInv
<1>. SUFFICES ASSUME Init, program = <<Server, "linux">> PROVE LinuxServerInv
  BY DEF LinuxServerInv
<1>1. FixedInv BY TypesInit
<1>2. i = 1 /\ pc = "options" /\ set = Default BY DEF Init, Server
<1>3. /\ ~ReadBefore /\ ~GaveBefore("-p", MAX_PORT_NUMBER) /\ ~GaveBefore("-n", MAX_THREADS_NUM)
      /\ ~\E k \in 1 .. Len(line) : k < i
  BY <1>1, <1>2, SMT DEF ReadBefore, GaveBefore, FixedInv
<1>4. /\ set.port = DEFAULT_PORT_NUMBER /\ set.threads = DEFAULT_THREADS_NUMBER /\ ~set.token
  BY <1>2 DEF Default
<1>5. LinuxNumber("port", "-p", "PORT_NUMBER", DEFAULT_PORT_NUMBER, MAX_PORT_NUMBER)
  BY <1>2, <1>3, <1>4 DEF LinuxNumber
<1>6. LinuxNumber("threads", "-n", "THREADS_NUMBER", DEFAULT_THREADS_NUMBER, MAX_THREADS_NUM)
  BY <1>2, <1>3, <1>4 DEF LinuxNumber
<1>7. LinuxToken BY <1>2, <1>3, <1>4 DEF LinuxToken
<1>. QED BY <1>2, <1>5, <1>6, <1>7 DEF LinuxServerInv

\* -s or the file raises the token, and nothing takes it back.
LEMMA TokenStep ==
  ASSUME FixedInv, TypedInv, LinuxServer, LinuxToken
  PROVE  LinuxToken'
<1>. DEFINE filed == \E v \in FileGives("STDOUT_TOKEN") : v > 0
            gives(k) == file.lines[k].key = "STDOUT_TOKEN" /\ file.lines[k].value > 0
<1>1. /\ UNCHANGED <<line, file>> /\ set.token \in BOOLEAN /\ set'.token \in BOOLEAN
      /\ program = <<Server, "linux">>
  BY LinuxServerArgumentEffect, LinuxServerConfigLineEffect, LinuxServerEndsEffect
  DEF LinuxServer, input, TypedInv, Settings
<1>2. filed' = filed /\ Words(1)' = Words(1) BY <1>1 DEF FileGives, FileIsRead, Words
<1>3. /\ Len(line) \in Nat /\ Len(file.lines) \in Nat /\ DOMAIN file.lines = 1 .. Len(file.lines)
      /\ at \in Nat /\ i \in Nat
  BY DEF FixedInv, TypedInv
<1>4. \A k \in DOMAIN file.lines : FileIsRead /\ gives(k) => filed BY DEF FileGives
<1>. HIDE DEF filed
<1>5. CASE LinuxServerArgument
  <2>1. /\ pc = "options" /\ i \in 1 .. Len(line)
    BY <1>5, LinuxServerArgumentEffect
  <2>2. CASE line[i] = "-c" /\ i < Len(line) /\ line[i + 1] \in Readable
    <3>1. pc' = "config" /\ at' = 1 /\ i' = i /\ set'.token = set.token
      BY <1>5, <2>2, LinuxServerArgumentEffect
    <3>2. \A k \in DOMAIN file.lines : ~(k < at') BY <1>3, <3>1, SMT
    <3>3. ReadBefore' = ReadBefore BY <1>1, <3>1 DEF ReadBefore
    <3>. QED BY <1>1, <1>2, <3>1, <3>2, <3>3 DEF LinuxToken, filed
  <2>3. CASE ~(line[i] = "-c" /\ i < Len(line) /\ line[i + 1] \in Readable)
    <3>1. pc' = pc /\ i' = i + 1 /\ set'.token = (set.token \/ line[i] = "-s")
      BY <1>5, <2>3, LinuxServerArgumentEffect
    <3>2. ReadBefore' => ReadBefore BY <1>1, <1>3, <2>3, <3>1, SMT DEF ReadBefore
    <3>3. line[i] = "-s" => "-s" \in Words(1) BY <2>1, SMT DEF Words
    <3>4. \A k \in 1 .. Len(line) : k < i' => k < i \/ k = i BY <1>3, <3>1, SMT
    <3>. QED BY <1>1, <1>2, <2>1, <3>1, <3>2, <3>3, <3>4 DEF LinuxToken, filed
  <2>. QED BY <2>2, <2>3
<1>6. CASE LinuxServerConfigLine
  <2>0. at \in 1 .. Len(file.lines) /\ i' = i /\ pc = "config"
    BY <1>6, LinuxServerConfigLineEffect
  <2>1. FileIsRead BY <1>1, <1>3, <2>0, SMT DEF TypedInv, FileIsRead
  <2>2. ReadBefore' = ReadBefore BY <1>1, <2>0 DEF ReadBefore
  <2>3. CASE pc' = "crashed" /\ set' = set
    BY <1>1, <1>2, <2>0, <2>2, <2>3 DEF LinuxToken, filed
  <2>4. CASE pc' = pc /\ at' = at + 1 /\ set'.token = (set.token \/ gives(at))
    <3>1. \A k \in DOMAIN file.lines : k < at' => k < at \/ k = at BY <1>3, <2>4, SMT
    <3>. QED BY <1>1, <1>2, <1>3, <1>4, <2>0, <2>1, <2>2, <2>4, <3>1 DEF LinuxToken, filed
  <2>. QED BY <1>6, <2>3, <2>4, LinuxServerConfigLineEffect
<1>7. CASE LinuxServerConfigEnd \/ LinuxServerReady
  <2>1. set'.token = set.token BY <1>7, LinuxServerEndsEffect
  <2>2. CASE pc = "config" /\ pc' = "options" /\ at > Len(file.lines) /\ i' = i + 1
    <3>1. line[i] = "-c" BY <1>1, <2>2 DEF TypedInv
    <3>2. \A k \in DOMAIN file.lines : k < at BY <1>3, <2>2, SMT
    <3>3. filed => set.token BY <2>2, <3>2 DEF LinuxToken, FileGives, filed
    <3>4. \A k \in 1 .. Len(line) : k < i' => k < i \/ k = i BY <1>3, <2>2, SMT
    <3>. QED BY <1>1, <1>2, <2>1, <2>2, <3>1, <3>3, <3>4 DEF LinuxToken, filed
  <2>3. CASE pc' = "ready" /\ i' = i
    <3>1. ReadBefore' = ReadBefore BY <1>1, <2>3 DEF ReadBefore
    <3>. QED BY <1>1, <1>2, <2>1, <2>3, <3>1 DEF LinuxToken, filed
  <2>. QED BY <1>7, <2>2, <2>3, LinuxServerEndsEffect
<1>. QED BY <1>5, <1>6, <1>7 DEF LinuxServer

\* The Linux server's loops keep to it.
LEMMA LinuxServerKeeps ==
  ASSUME FixedInv, TypedInv, LinuxServerInv, LinuxServer
  PROVE  LinuxServerInv'
<1>. DEFINE Port == LinuxNumber("port", "-p", "PORT_NUMBER", DEFAULT_PORT_NUMBER, MAX_PORT_NUMBER)
            Threads ==
              LinuxNumber("threads", "-n", "THREADS_NUMBER", DEFAULT_THREADS_NUMBER, MAX_THREADS_NUM)
<1>1. program = <<Server, "linux">> /\ UNCHANGED <<line, file>>
  BY LinuxServerArgumentEffect, LinuxServerConfigLineEffect, LinuxServerEndsEffect
  DEF LinuxServer, input
<1>2. Port /\ Threads /\ LinuxToken BY <1>1 DEF LinuxServerInv
<1>3. Port' /\ Threads'
  <2>. HIDE DEF Port, Threads
  <2>1. CASE LinuxServerArgument
    <3>1. pc = "options" /\ i \in 1 .. Len(line) BY <2>1, LinuxServerArgumentEffect
    <3>2. CASE line[i] = "-c" /\ i < Len(line) /\ line[i + 1] \in Readable
      <4>1. pc' = "config" /\ at' = 1 /\ i' = i /\ set'.port = set.port /\ set'.threads = set.threads
        BY <2>1, <3>2, LinuxServerArgumentEffect
      <4>. QED BY <1>1, <1>2, <4>1, NumberIsLeft DEF Port, Threads
    <3>3. CASE ~(line[i] = "-c" /\ i < Len(line) /\ line[i + 1] \in Readable)
      <4>1. /\ pc' = pc /\ i' = i + 1
            /\ set'.port = IF line[i] = "-p" /\ i < Len(line) /\ Atoi(line[i + 1]) \in 1 .. MAX_PORT_NUMBER
                           THEN Atoi(line[i + 1]) ELSE set.port
            /\ set'.threads = IF line[i] = "-n" /\ i < Len(line) /\ Atoi(line[i + 1]) \in 1 .. MAX_THREADS_NUM
                              THEN Atoi(line[i + 1]) ELSE set.threads
        BY <2>1, <3>3, LinuxServerArgumentEffect
      <4>2. Port' BY <1>1, <1>2, <3>1, <3>3, <4>1, NumberFromOption DEF Port
      <4>3. Threads' BY <1>1, <1>2, <3>1, <3>3, <4>1, NumberFromOption DEF Threads
      <4>. QED BY <4>2, <4>3
    <3>. QED BY <3>2, <3>3
  <2>2. CASE LinuxServerConfigLine
    <3>1. at \in 1 .. Len(file.lines) /\ UNCHANGED i /\ pc = "config"
      BY <2>2, LinuxServerConfigLineEffect
    <3>2. FileIsRead
      <4>1. i \in 1 .. Len(line) - 1 BY <1>1, <3>1, SMT DEF TypedInv, FixedInv
      <4>. QED BY <1>1, <3>1, <4>1 DEF TypedInv, FileIsRead
    <3>3. CASE pc' = "crashed" /\ at' = at /\ set' = set
      BY <1>1, <1>2, <3>1, <3>3, NumberIsLeft DEF Port, Threads
    <3>4. CASE ~(pc' = "crashed" /\ at' = at /\ set' = set)
      <4>1. /\ pc' = pc /\ at' = at + 1
            /\ set'.port = IF /\ file.lines[at].key = "PORT_NUMBER"
                              /\ file.lines[at].value \in 1 .. MAX_PORT_NUMBER
                              /\ set.port = DEFAULT_PORT_NUMBER
                           THEN file.lines[at].value ELSE set.port
            /\ set'.threads = IF /\ file.lines[at].key = "THREADS_NUMBER"
                                 /\ file.lines[at].value \in 1 .. MAX_THREADS_NUM
                                 /\ set.threads = DEFAULT_THREADS_NUMBER
                              THEN file.lines[at].value ELSE set.threads
        BY <2>2, <3>4, LinuxServerConfigLineEffect
      <4>2. Port' BY <1>1, <1>2, <3>1, <3>2, <4>1, NumberFromLine DEF Port
      <4>3. Threads' BY <1>1, <1>2, <3>1, <3>2, <4>1, NumberFromLine DEF Threads
      <4>. QED BY <4>2, <4>3
    <3>. QED BY <3>3, <3>4
  <2>3. CASE LinuxServerConfigEnd \/ LinuxServerReady
    <3>1. set'.port = set.port /\ set'.threads = set.threads
      BY <2>3, LinuxServerEndsEffect
    <3>2. CASE pc = "config" /\ pc' = "options" /\ at > Len(file.lines) /\ i' = i + 1
      <4>1. i \in 1 .. Len(line) /\ line[i] = "-c"
        BY <1>1, <3>2, SMT DEF TypedInv, FixedInv
      <4>. QED BY <1>1, <1>2, <3>1, <3>2, <4>1, NumberIsLeft DEF Port, Threads
    <3>3. CASE pc' = "ready" /\ i' = i
      BY <1>1, <1>2, <3>1, <3>3, NumberIsLeft DEF Port, Threads
    <3>. QED BY <2>3, <3>2, <3>3, LinuxServerEndsEffect
  <2>. QED BY <2>1, <2>2, <2>3 DEF LinuxServer
<1>4. LinuxToken' BY <1>2, TokenStep
<1>5. pc' = "ready" => i' > Len(line)
  BY LinuxServerArgumentEffect, LinuxServerConfigLineEffect, LinuxServerEndsEffect DEF LinuxServer
<1>. QED BY <1>1, <1>3, <1>4, <1>5 DEF LinuxServerInv

\* At the end of the command line that is what was asked for.
LEMMA LinuxServerAsAsked ==
  ASSUME FixedInv, TypedInv, LinuxServerInv, program = <<Server, "linux">>, pc = "ready"
  PROVE  ServerAsAsked
<1>1. program[2] = "linux" /\ Len(line) \in Nat /\ i \in Nat BY DEF FixedInv, TypedInv
<1>2. \A k \in 1 .. Len(line) : k < i BY <1>1, SMT DEF LinuxServerInv
<1>3. \A k \in 1 .. Len(line) - 1 : k < i BY <1>1, <1>2, SMT
<1>4. FileIsRead => ReadBefore BY <1>3 DEF FileIsRead, ReadBefore
<1>5. ASSUME NEW setting, NEW o, NEW key, NEW default, NEW max,
             LinuxNumber(setting, o, key, default, max)
      PROVE  set[setting] \in Asked(o, key, default, max)
  <2>. DEFINE given == Given(o) \cap (1 .. max)
              filed == FileGives(key) \cap (1 .. max)
  <2>1. given # {} => GaveBefore(o, max)
    <3>1. ASSUME NEW n \in given PROVE GaveBefore(o, max)
      <4>1. PICK k \in 1 .. Len(line) - 1 : line[k] = o /\ n = Atoi(line[k + 1]) BY DEF Given
      <4>. QED BY <1>3, <4>1 DEF GaveBefore
    <3>. QED BY <3>1
  <2>2. filed # {} => ReadBefore BY <1>4 DEF FileGives
  <2>. HIDE DEF given, filed
  <2>3. /\ set[setting] \in {default} \cup given \cup filed
        /\ given # {} /\ default \notin given => set[setting] \in given
        /\ filed # {} => set[setting] \in given \cup filed
    BY <1>5, <2>1, <2>2 DEF LinuxNumber, given, filed
  <2>4. Asked(o, key, default, max) =
          IF given # {} /\ ~(default \in given /\ program[2] = "linux") THEN given
          ELSE IF filed # {} THEN filed \cup given ELSE {default} \cup given
    BY DEF Asked, given, filed
  <2>. QED BY <1>1, <2>3, <2>4
<1>6. set.token <=> ("-s" \in Words(1) \/ \E v \in FileGives("STDOUT_TOKEN") : v > 0)
  <2>1. "-s" \in Words(1) => \E k \in 1 .. Len(line) : k < i /\ line[k] = "-s"
    BY <1>2 DEF Words
  <2>2. FileGives("STDOUT_TOKEN") # {} => ReadBefore BY <1>4 DEF FileGives
  <2>. QED BY <2>1, <2>2 DEF LinuxServerInv, LinuxToken
<1>. QED BY <1>5, <1>6 DEF LinuxServerInv, ServerAsAsked

-----------------------------------------------------------------------------
(* The Windows programs.                                                    *)

ValueOptions == {"-p", "-n", "-c", "-l"}

\* An option is noted once, or the program ends.
LEMMA RaiseEffect ==
  ASSUME FixedInv, TypedInv, NEW options \in SUBSET Letters, Raise(options)
  PROVE  \/ pc' = "exited" /\ UNCHANGED <<input, flags, i, at, set>>
         \/ /\ line[i] \in options /\ flags[line[i]] = 0 /\ UNCHANGED <<input, at, pc>>
            /\ flags' \in [Letters -> 0 .. 2] /\ i' = i + 1
            /\ flags'[line[i]] = 1 /\ \A o \in Letters : o # line[i] => flags'[o] = flags[o]
<1>1. CASE line[i] \in options /\ flags[line[i]] = 0
  <2>1. flags' = [flags EXCEPT ![line[i]] = 1] /\ i' = i + 1 /\ UNCHANGED <<input, at, pc>>
    BY <1>1 DEF Raise
  <2>2. flags \in [Letters -> 0 .. 2] /\ line[i] \in Letters /\ 1 \in 0 .. 2
    BY <1>1, SMT DEF TypedInv
  <2>. QED BY <1>1, <2>1, <2>2
<1>2. CASE ~(line[i] \in options /\ flags[line[i]] = 0) BY <1>2 DEF Raise, Exit
<1>. QED BY <1>1, <1>2

\* The loop over the options of the Windows server.
LEMMA WindowsServerOptionEffect ==
  ASSUME FixedInv, TypedInv, WindowsServerOption
  PROVE  /\ program = <<Server, "windows">> /\ pc = "options" /\ i \in 1 .. Len(line)
         /\ line[i] \in Dashed /\ UNCHANGED input
         /\ \/ pc' = "exited" /\ UNCHANGED <<flags, i, at, set>>
            \/ /\ line[i] \in ValueOptions \cup {"-s"} /\ flags[line[i]] = 0
               /\ UNCHANGED <<at, pc>> /\ flags' \in [Letters -> 0 .. 2] /\ i' = i + 1
               /\ flags'[line[i]] = 1 /\ \A o \in Letters : o # line[i] => flags'[o] = flags[o]
               /\ set' \in Settings /\ set'.port = set.port /\ set'.threads = set.threads
               /\ set'.conf = set.conf /\ set'.token = (set.token \/ line[i] = "-s")
<1>. DEFINE options == {"-p", "-n", "-c", "-s", "-l"}
<1>1. program = <<Server, "windows">> /\ pc = "options" /\ i \in 1 .. Len(line) /\ line[i] \in Dashed
  BY SMT DEF WindowsServerOption, Reads, FixedInv, TypedInv
<1>2. options \in SUBSET Letters BY DEF Letters
<1>3. Raise(options) /\ set' = IF line[i] = "-s" THEN [set EXCEPT !.token = TRUE] ELSE set
  BY DEF WindowsServerOption
<1>4. options = ValueOptions \cup {"-s"} BY DEF ValueOptions
<1>. HIDE DEF options
<1>5. UNCHANGED input BY <1>2, <1>3, RaiseEffect
<1>6. /\ set' \in Settings /\ set'.port = set.port /\ set'.threads = set.threads
      /\ set'.conf = set.conf /\ set'.token = (set.token \/ line[i] = "-s")
  <2>1. set \in Settings BY DEF TypedInv
  <2>2. set.token \in BOOLEAN BY <2>1 DEF Settings
  <2>3. CASE line[i] = "-s"
    <3>1. set' = [set EXCEPT !.token = TRUE] BY <1>3, <2>3
    <3>. QED BY <2>1, <2>3, <3>1 DEF Settings
  <2>4. CASE line[i] # "-s"
    <3>1. set' = set BY <1>3, <2>4
    <3>. QED BY <2>1, <2>2, <2>4, <3>1
  <2>. QED BY <2>3, <2>4
<1>7. \/ pc' = "exited" /\ UNCHANGED <<input, flags, i, at, set>>
      \/ /\ line[i] \in options /\ flags[line[i]] = 0 /\ UNCHANGED <<input, at, pc>>
         /\ flags' \in [Letters -> 0 .. 2] /\ i' = i + 1
         /\ flags'[line[i]] = 1 /\ \A o \in Letters : o # line[i] => flags'[o] = flags[o]
  BY <1>2, <1>3, RaiseEffect
<1>. QED BY <1>1, <1>4, <1>5, <1>6, <1>7

\* An argument that is no option is the value of the one that waits.
LEMMA WindowsServerValueEffect ==
  ASSUME FixedInv, TypedInv, WindowsServerValue
  PROVE  /\ program = <<Server, "windows">> /\ pc = "options" /\ i \in 1 .. Len(line)
         /\ line[i] \notin Dashed /\ UNCHANGED input
         /\ \/ pc' = "exited" /\ UNCHANGED <<flags, i, at, set>>
            \/ \E o \in ValueOptions :
                 /\ flags[o] = 1 /\ UNCHANGED <<at, pc>> /\ i' = i + 1
                 /\ flags' = [flags EXCEPT ![o] = 2]
                 /\ o \in {"-p", "-n"} => line[i] \in DOMAIN Number
                 /\ set' \in Settings /\ set'.token = set.token
                 /\ set'.port = IF o = "-p" THEN Number[line[i]] % 65536 ELSE set.port
                 /\ set'.threads = IF o = "-n" THEN Number[line[i]] ELSE set.threads
                 /\ set'.conf = IF o = "-c" THEN line[i] ELSE set.conf
<1>. DEFINE o == Pending(<<"-p", "-n", "-c", "-l">>)
            value == line[i]
<1>1. /\ program = <<Server, "windows">> /\ pc = "options" /\ i \in 1 .. Len(line)
      /\ line[i] \notin Dashed
  BY SMT DEF WindowsServerValue, Reads, FixedInv, TypedInv
<1>2. o \in ValueOptions => flags[o] = 1
  <2>. DEFINE options == <<"-p", "-n", "-c", "-l">>
  <2>1. Len(options) = 4 /\ \A k \in 1 .. 4 : options[k] # Unset BY DEF Unset
  <2>2. Unset \notin ValueOptions BY DEF Unset, ValueOptions
  <2>. HIDE DEF options
  <2>3. Pending(options) # Unset => Waiting(Pending(options)) BY <2>1, PendingWaits
  <2>. QED BY <2>2, <2>3 DEF Waiting, options
<1>3. CASE o = "-p" /\ value \in DOMAIN Number
  <2>1. Give("-p", [set EXCEPT !.port = Number[value] % 65536]) BY <1>3 DEF WindowsServerValue
  <2>2. Number[value] % 65536 \in Nat
    <3>1. Number[value] \in Nat BY <1>3, StartupAssumption
    <3>2. \A n \in Nat : n % 65536 \in Nat BY SMT
    <3>. QED BY <3>1, <3>2
  <2>3. /\ set' \in Settings /\ set'.port = Number[value] % 65536
        /\ set'.threads = set.threads /\ set'.token = set.token /\ set'.conf = set.conf
    <3>1. set \in Settings /\ set' = [set EXCEPT !.port = Number[value] % 65536] BY <2>1 DEF TypedInv, Give
    <3>. HIDE DEF value
    <3>. QED BY <2>2, <3>1 DEF Settings
  <2>4. /\ UNCHANGED <<input, at, pc>> /\ i' = i + 1 /\ flags' = [flags EXCEPT !["-p"] = 2]
    BY <2>1 DEF Give, input
  <2>. QED BY <1>1, <1>2, <1>3, <2>3, <2>4 DEF ValueOptions
<1>4. CASE o = "-n" /\ value \in DOMAIN Number
  <2>1. Give("-n", [set EXCEPT !.threads = Number[value]]) BY <1>4 DEF WindowsServerValue
  <2>2. Number[value] \in Nat BY <1>4, StartupAssumption
  <2>3. /\ set' \in Settings /\ set'.threads = Number[value]
        /\ set'.port = set.port /\ set'.token = set.token /\ set'.conf = set.conf
    <3>1. set \in Settings /\ set' = [set EXCEPT !.threads = Number[value]] BY <2>1 DEF TypedInv, Give
    <3>. HIDE DEF value
    <3>. QED BY <2>2, <3>1 DEF Settings
  <2>4. /\ UNCHANGED <<input, at, pc>> /\ i' = i + 1 /\ flags' = [flags EXCEPT !["-n"] = 2]
    BY <2>1 DEF Give, input
  <2>. QED BY <1>1, <1>2, <1>4, <2>3, <2>4 DEF ValueOptions
<1>5. CASE o = "-c"
  <2>1. Give("-c", [set EXCEPT !.conf = value]) BY <1>5 DEF WindowsServerValue
  <2>2. value \in Words(1) BY <1>1 DEF Words
  <2>3. /\ set' \in Settings /\ set'.conf = value
        /\ set'.port = set.port /\ set'.threads = set.threads /\ set'.token = set.token
    <3>1. set \in Settings /\ set' = [set EXCEPT !.conf = value] BY <2>1 DEF TypedInv, Give
    <3>. HIDE DEF value
    <3>. QED BY <2>2, <3>1 DEF Settings
  <2>4. /\ UNCHANGED <<input, at, pc>> /\ i' = i + 1 /\ flags' = [flags EXCEPT !["-c"] = 2]
    BY <2>1 DEF Give, input
  <2>. QED BY <1>1, <1>2, <1>5, <2>3, <2>4 DEF ValueOptions
<1>6. CASE o = "-l" /\ value \in LogNames
  <2>1. Give("-l", [set EXCEPT !.log = value]) BY <1>6 DEF WindowsServerValue
  <2>2. value \in Words(1) BY <1>1 DEF Words
  <2>3. /\ set' \in Settings
        /\ set'.port = set.port /\ set'.threads = set.threads /\ set'.token = set.token /\ set'.conf = set.conf
    <3>1. set \in Settings /\ set' = [set EXCEPT !.log = value] BY <2>1 DEF TypedInv, Give
    <3>. HIDE DEF value
    <3>. QED BY <2>2, <3>1 DEF Settings
  <2>4. /\ UNCHANGED <<input, at, pc>> /\ i' = i + 1 /\ flags' = [flags EXCEPT !["-l"] = 2]
    BY <2>1 DEF Give, input
  <2>. QED BY <1>1, <1>2, <1>6, <2>3, <2>4 DEF ValueOptions
<1>7. CASE /\ ~(o = "-p" /\ value \in DOMAIN Number) /\ ~(o = "-n" /\ value \in DOMAIN Number)
           /\ o # "-c" /\ ~(o = "-l" /\ value \in LogNames)
  <2>1. Exit BY <1>7 DEF WindowsServerValue
  <2>. QED BY <1>1, <2>1 DEF Exit, input
<1>. QED BY <1>3, <1>4, <1>5, <1>6, <1>7

\* Behind the last argument no option waits, and the file opens if one was named.
LEMMA WindowsServerOptionsEndEffect ==
  ASSUME FixedInv, TypedInv, WindowsServerOptionsEnd
  PROVE  /\ program = <<Server, "windows">> /\ pc = "options" /\ i > Len(line)
         /\ UNCHANGED <<input, flags, i, at, set>>
         /\ \/ pc' = "exited"
            \/ /\ pc' = (IF set.conf = Unset THEN "log" ELSE "config")
               /\ set.conf \in Readable \cup {Unset} /\ \A o \in ValueOptions : flags[o] # 1
<1>. DEFINE options == <<"-p", "-c", "-l", "-n">>
<1>1. /\ program = <<Server, "windows">> /\ pc = "options" /\ i > Len(line)
      /\ UNCHANGED <<input, flags, i, at, set>>
  BY DEF WindowsServerOptionsEnd, Reads, Exit, input
<1>2. Pending(options) = Unset => \A o \in ValueOptions : flags[o] # 1
  <2>1. Len(options) = 4 /\ \A k \in 1 .. 4 : options[k] # Unset BY DEF Unset
  <2>2. \A o \in ValueOptions : \E k \in 1 .. 4 : o = options[k] BY DEF ValueOptions
  <2>. HIDE DEF options
  <2>3. Pending(options) = Unset => \A k \in 1 .. 4 : ~Waiting(options[k]) BY <2>1, PendingWaits
  <2>. QED BY <2>2, <2>3 DEF Waiting
<1>3. CASE Pending(options) # Unset \/ set.conf \notin Readable \cup {Unset}
  BY <1>1, <1>3 DEF WindowsServerOptionsEnd, Exit
<1>4. CASE ~(Pending(options) # Unset \/ set.conf \notin Readable \cup {Unset})
  BY <1>1, <1>2, <1>4 DEF WindowsServerOptionsEnd
<1>. QED BY <1>3, <1>4

\* A line of the file sets what no option has set.
LEMMA WindowsServerConfigLineEffect ==
  ASSUME FixedInv, TypedInv, WindowsServerConfigLine,
         NEW l, l = file.lines[at]
  PROVE  /\ program = <<Server, "windows">> /\ pc = "config" /\ at \in 1 .. Len(file.lines)
         /\ UNCHANGED <<input, flags, i>> /\ set' \in Settings
         /\ \/ pc' = "exited" /\ at' = at /\ set' = set
            \/ /\ pc' = pc /\ at' = at + 1 /\ set'.conf = set.conf /\ l.value \in Nat
               /\ \/ /\ l.key = "PORT_NUMBER" /\ flags["-p"] = 0
                     /\ set'.port = l.value % 65536
                     /\ set'.threads = set.threads /\ set'.token = set.token
                  \/ /\ l.key = "THREADS_NUMBER" /\ flags["-n"] = 0
                     /\ set'.threads = l.value
                     /\ set'.port = set.port /\ set'.token = set.token
                  \/ /\ l.key = "STDOUT_TOKEN" /\ ~set.token
                     /\ l.value \in {0, 1} /\ set'.token = (l.value = 1)
                     /\ set'.port = set.port /\ set'.threads = set.threads
<1>. DEFINE usable == KeyIsFree(l.key) /\ ~file.crlf /\ l.value # NoValue
<1>1. program = <<Server, "windows">> /\ pc = "config" /\ at \in 1 .. Len(file.lines)
  BY SMT DEF WindowsServerConfigLine, FixedInv, TypedInv
<1>2. l.value \in {NoValue} \cup Nat BY <1>1, LinesOfFile DEF FileLine
<1>3. set \in Settings BY DEF TypedInv
<1>4. CASE usable /\ l.key = "PORT_NUMBER"
  <2>1. Enter([set EXCEPT !.port = l.value % 65536]) BY <1>4 DEF WindowsServerConfigLine
  <2>2. l.value \in Nat BY <1>2, <1>4
  <2>3. l.value % 65536 \in Nat
    <3>1. \A n \in Nat : n % 65536 \in Nat BY SMT
    <3>. QED BY <2>2, <3>1
  <2>4. flags["-p"] = 0 BY <1>4 DEF KeyIsFree
  <2>5. /\ set' \in Settings /\ set'.port = l.value % 65536
        /\ set'.threads = set.threads /\ set'.token = set.token /\ set'.conf = set.conf
    BY <1>3, <2>1, <2>3 DEF Enter, Settings
  <2>. QED BY <1>1, <1>4, <2>1, <2>2, <2>4, <2>5 DEF Enter, input
<1>5. CASE usable /\ l.key = "THREADS_NUMBER"
  <2>1. Enter([set EXCEPT !.threads = l.value]) BY <1>5 DEF WindowsServerConfigLine
  <2>2. l.value \in Nat BY <1>2, <1>5
  <2>4. flags["-n"] = 0 BY <1>5 DEF KeyIsFree
  <2>5. /\ set' \in Settings /\ set'.threads = l.value
        /\ set'.port = set.port /\ set'.token = set.token /\ set'.conf = set.conf
    BY <1>3, <2>1, <2>2 DEF Enter, Settings
  <2>. QED BY <1>1, <1>5, <2>1, <2>2, <2>4, <2>5 DEF Enter, input
<1>6. CASE usable /\ l.key = "STDOUT_TOKEN" /\ l.value \in {0, 1}
  <2>1. Enter([set EXCEPT !.token = l.value = 1]) BY <1>6 DEF WindowsServerConfigLine
  <2>2. l.value \in Nat BY <1>2, <1>6
  <2>4. ~set.token BY <1>6 DEF KeyIsFree
  <2>5. /\ set' \in Settings /\ set'.token = (l.value = 1)
        /\ set'.port = set.port /\ set'.threads = set.threads /\ set'.conf = set.conf
    BY <1>3, <2>1 DEF Enter, Settings
  <2>. QED BY <1>1, <1>6, <2>1, <2>2, <2>4, <2>5 DEF Enter, input
<1>7. CASE /\ ~(usable /\ l.key = "PORT_NUMBER") /\ ~(usable /\ l.key = "THREADS_NUMBER")
           /\ ~(usable /\ l.key = "STDOUT_TOKEN" /\ l.value \in {0, 1})
  <2>1. Exit BY <1>7 DEF WindowsServerConfigLine
  <2>. QED BY <1>1, <1>3, <2>1 DEF Exit, input
<1>. QED BY <1>4, <1>5, <1>6, <1>7

\* Behind the file only the log is left to open.
LEMMA WindowsServerEndsEffect ==
  ASSUME FixedInv, TypedInv, WindowsServerConfigEnd \/ WindowsServerReady
  PROVE  /\ program = <<Server, "windows">> /\ UNCHANGED <<input, flags, i, at>>
         /\ set' \in Settings /\ set'.port = set.port /\ set'.threads = set.threads
         /\ set'.token = set.token /\ set'.conf = set.conf
         /\ \/ pc = "config" /\ pc' = "log" /\ at > Len(file.lines)
            \/ pc = "log" /\ pc' \in {"ready", "exited"}
<1>1. CASE WindowsServerConfigEnd
  BY <1>1 DEF WindowsServerConfigEnd, TypedInv, input
<1>2. CASE WindowsServerReady
  <2>1. /\ program = <<Server, "windows">> /\ pc = "log" /\ pc' \in {"ready", "exited"}
        /\ UNCHANGED <<input, flags, i, at>>
    BY <1>2 DEF WindowsServerReady, input
  <2>2. set' = set \/ set' = [set EXCEPT !.log = "default"] BY <1>2 DEF WindowsServerReady
  <2>3. /\ set' \in Settings /\ set'.port = set.port /\ set'.threads = set.threads
        /\ set'.token = set.token /\ set'.conf = set.conf
    BY <2>2 DEF TypedInv, Settings
  <2>. QED BY <2>1, <2>3
<1>. QED BY <1>1, <1>2

\* The Windows server's variables keep their types.
LEMMA TypesWindowsServer ==
  ASSUME FixedInv, TypedInv, WindowsServer
  PROVE  TypedInv' /\ RangeInv'
<1>1. Len(line) \in Nat /\ Len(file.lines) \in Nat BY DEF FixedInv
<1>2. /\ program = <<Server, "windows">> /\ UNCHANGED input /\ set' \in Settings
      /\ flags' \in [Letters -> 0 .. 2] /\ i' \in 1 .. Len(line) + 1 /\ at' \in 1 .. Len(file.lines) + 1
      /\ pc' \in {"options", "config", "log", "ready", "exited"}
  <2>1. CASE WindowsServerOption
    <3>1. i \in 1 .. Len(line) => i + 1 \in 1 .. Len(line) + 1 BY <1>1, SMT
    <3>. QED BY <2>1, <3>1, WindowsServerOptionEffect DEF TypedInv
  <2>2. CASE WindowsServerValue
    <3>1. i \in 1 .. Len(line) => i + 1 \in 1 .. Len(line) + 1 BY <1>1, SMT
    <3>2. \A o \in ValueOptions : [flags EXCEPT ![o] = 2] \in [Letters -> 0 .. 2]
      BY SMT DEF TypedInv, ValueOptions, Letters
    <3>. QED BY <2>2, <3>1, <3>2, WindowsServerValueEffect DEF TypedInv
  <2>3. CASE WindowsServerOptionsEnd BY <2>3, WindowsServerOptionsEndEffect DEF TypedInv
  <2>4. CASE WindowsServerConfigLine
    <3>1. at \in 1 .. Len(file.lines) => at + 1 \in 1 .. Len(file.lines) + 1 BY <1>1, SMT
    <3>. QED BY <2>4, <3>1, WindowsServerConfigLineEffect DEF TypedInv
  <2>5. CASE WindowsServerConfigEnd \/ WindowsServerReady
    BY <2>5, WindowsServerEndsEffect DEF TypedInv
  <2>. QED BY <2>1, <2>2, <2>3, <2>4, <2>5 DEF WindowsServer
<1>3. Settings' = Settings BY <1>2 DEF Settings, Words, input
<1>4. program[1] # Client /\ program[2] = "windows" BY <1>2 DEF Server, Client
<1>. QED BY <1>2, <1>3, <1>4 DEF TypedInv, RangeInv, input

-----------------------------------------------------------------------------
(* The settings of the Windows server.                                      *)

\* Each option in front of argument i is there once and noted, and waits for argument i
\* alone.
WindowsOptions ==
  \A o \in ValueOptions :
    /\ \A k \in 1 .. Len(line) : k < i /\ line[k] = o => flags[o] # 0
    /\ \A j, k \in 1 .. Len(line) : j < i /\ k < i /\ line[j] = o /\ line[k] = o => j = k
    /\ flags[o] = 1 => i > 1 /\ line[i - 1] = o

\* A number is what its option gave; without the option it is what the file gives, once a
\* line with its key was read, and the default until then.
WindowsNumber(setting, o, key, default) ==
  /\ IF flags[o] = 2 THEN set[setting] \in Given(o)
                     ELSE set[setting] \in {default} \cup FileGives(key)
  /\ flags[o] # 2 =>
       \A k \in DOMAIN file.lines : k < at /\ file.lines[k].key = key => set[setting] \in FileGives(key)

WindowsToken ==
  set.token <=>
    \/ \E k \in 1 .. Len(line) : k < i /\ line[k] = "-s"
    \/ \E k \in DOMAIN file.lines :
         k < at /\ file.lines[k].key = "STDOUT_TOKEN" /\ file.lines[k].value > 0

\* The file is read if the option names one that opens, and to its end.
WindowsFile ==
  /\ IF flags["-c"] = 2
     THEN \E k \in 1 .. Len(line) - 1 : k < i /\ line[k] = "-c" /\ set.conf = line[k + 1]
     ELSE set.conf = Unset
  /\ pc = "options" => at = 1
  /\ pc \in {"config", "log", "ready"} => i > Len(line) /\ \A o \in ValueOptions : flags[o] # 1
  /\ pc = "config" => set.conf \in Readable
  /\ pc \in {"log", "ready"} /\ FileIsRead => at > Len(file.lines)
  /\ ~FileIsRead => at = 1

WindowsServerInv ==
  program = <<Server, "windows">> /\ Paired /\ Sane =>
    /\ WindowsOptions /\ WindowsToken /\ WindowsFile
    /\ WindowsNumber("port", "-p", "PORT_NUMBER", DEFAULT_PORT_NUMBER)
    /\ WindowsNumber("threads", "-n", "THREADS_NUMBER", DEFAULT_THREADS_NUMBER)

\* Nothing is given at the start.
LEMMA WindowsServerInvInit == Init => WindowsServerInv
<1>. SUFFICES ASSUME Init, program = <<Server, "windows">> PROVE WindowsServerInv
  BY DEF WindowsServerInv
<1>1. FixedInv BY TypesInit
<1>2. i = 1 /\ at = 1 /\ pc = "options" /\ set = Default /\ \A o \in Letters : flags[o] = 0
  BY DEF Init, Server
<1>3. /\ \A k \in 1 .. Len(line) : ~(k < i)
      /\ \A k \in DOMAIN file.lines : ~(k < at)
  BY <1>1, <1>2, SMT DEF FixedInv
<1>4. /\ set.port = DEFAULT_PORT_NUMBER /\ set.threads = DEFAULT_THREADS_NUMBER /\ set.token = FALSE
      /\ set.conf = Unset
  BY <1>2 DEF Default
<1>5. /\ \A o \in ValueOptions : flags[o] = 0
      /\ flags["-p"] = 0 /\ flags["-n"] = 0 /\ flags["-c"] = 0
  BY <1>2 DEF ValueOptions, Letters
<1>6. WindowsOptions BY <1>3, <1>5 DEF WindowsOptions
<1>7. WindowsToken BY <1>3, <1>4 DEF WindowsToken
<1>8. WindowsFile BY <1>2, <1>4, <1>5 DEF WindowsFile
<1>9. /\ WindowsNumber("port", "-p", "PORT_NUMBER", DEFAULT_PORT_NUMBER)
      /\ WindowsNumber("threads", "-n", "THREADS_NUMBER", DEFAULT_THREADS_NUMBER)
  BY <1>3, <1>4, <1>5 DEF WindowsNumber
<1>. QED BY <1>6, <1>7, <1>8, <1>9 DEF WindowsServerInv

\* An option is read.
LEMMA WindowsOptionKeeps ==
  ASSUME FixedInv, TypedInv, WindowsServerInv, Paired, Sane, WindowsServerOption
  PROVE  WindowsServerInv'
<1>1. /\ program = <<Server, "windows">> /\ pc = "options" /\ i \in 1 .. Len(line)
      /\ line[i] \in Dashed /\ UNCHANGED <<program, line, file>>
  BY WindowsServerOptionEffect DEF input
<1>2. /\ WindowsOptions /\ WindowsToken /\ WindowsFile
      /\ WindowsNumber("port", "-p", "PORT_NUMBER", DEFAULT_PORT_NUMBER)
      /\ WindowsNumber("threads", "-n", "THREADS_NUMBER", DEFAULT_THREADS_NUMBER)
  BY <1>1 DEF WindowsServerInv
<1>3. /\ Given("-p")' = Given("-p") /\ Given("-n")' = Given("-n") /\ FileIsRead' = FileIsRead
      /\ FileGives("PORT_NUMBER")' = FileGives("PORT_NUMBER")
      /\ FileGives("THREADS_NUMBER")' = FileGives("THREADS_NUMBER")
  BY <1>1 DEF Given, FileGives, FileIsRead
<1>4. Len(line) \in Nat BY DEF FixedInv
<1>5. CASE pc' = "exited" /\ UNCHANGED <<flags, i, at, set>>
  BY <1>1, <1>2, <1>3, <1>5 DEF WindowsServerInv, WindowsOptions, WindowsToken, WindowsFile, WindowsNumber
<1>6. CASE ~(pc' = "exited" /\ UNCHANGED <<flags, i, at, set>>)
  <2>1. /\ line[i] \in ValueOptions \cup {"-s"} /\ flags[line[i]] = 0
        /\ UNCHANGED <<at, pc>> /\ i' = i + 1
        /\ flags'[line[i]] = 1 /\ \A o \in Letters : o # line[i] => flags'[o] = flags[o]
        /\ set'.port = set.port /\ set'.threads = set.threads
        /\ set'.conf = set.conf /\ set'.token = (set.token \/ line[i] = "-s")
    BY <1>6, WindowsServerOptionEffect
  <2>2. \A k \in 1 .. Len(line) : k < i' <=> k < i \/ k = i BY <1>1, <1>4, <2>1, SMT
  <2>3. ValueOptions \subseteq Letters /\ "-s" \notin ValueOptions /\ {"-p", "-n", "-c"} \subseteq ValueOptions
    BY DEF ValueOptions, Letters
  <2>4. ASSUME NEW o \in ValueOptions PROVE flags'[o] = 2 <=> flags[o] = 2
    BY <2>1, <2>3
  <2>5. WindowsOptions'
    <3>. SUFFICES ASSUME NEW o \in ValueOptions
                  PROVE  /\ \A k \in 1 .. Len(line) : k < i' /\ line[k] = o => flags'[o] # 0
                         /\ \A j, k \in 1 .. Len(line) :
                              j < i' /\ k < i' /\ line[j] = o /\ line[k] = o => j = k
                         /\ flags'[o] = 1 => i' > 1 /\ line[i' - 1] = o
      BY <1>1 DEF WindowsOptions, ValueOptions
    <3>1. i' > 1 /\ i' - 1 = i BY <1>1, <1>4, <2>1, SMT
    <3>2. CASE o = line[i]
      <4>1. flags[o] = 0 /\ flags'[o] = 1 BY <2>1, <3>2
      <4>2. \A k \in 1 .. Len(line) : k < i => line[k] # o BY <1>2, <4>1 DEF WindowsOptions
      <4>. QED BY <2>2, <3>1, <3>2, <4>1, <4>2
    <3>3. CASE o # line[i]
      <4>1. flags'[o] = flags[o] BY <2>1, <2>3, <3>3
      <4>2. flags[o] # 1
        <5>1. ASSUME flags[o] = 1 PROVE FALSE
          <6>1. i > 1 /\ line[i - 1] = o BY <1>2, <5>1 DEF WindowsOptions
          <6>2. i - 1 \in 1 .. Len(line) /\ (i - 1) + 1 = i BY <1>1, <1>4, <6>1, SMT
          <6>3. line[(i - 1) + 1] \notin Dashed BY <6>1, <6>2 DEF Paired, ValueOptions
          <6>. QED BY <1>1, <6>2, <6>3
        <5>. QED BY <5>1
      <4>. QED BY <1>2, <2>2, <3>3, <4>1, <4>2 DEF WindowsOptions
    <3>. QED BY <3>2, <3>3
  <2>6. WindowsToken'
    <3>1. set.token \in BOOLEAN BY DEF TypedInv, Settings
    <3>. QED BY <1>1, <1>2, <2>1, <2>2, <3>1 DEF WindowsToken
  <2>7. WindowsFile'
    <3>1. \A k \in 1 .. Len(line) - 1 : k < i => k < i' BY <1>1, <1>4, <2>1, SMT
    <3>2. flags'["-c"] = 2 <=> flags["-c"] = 2 BY <2>3, <2>4
    <3>. QED BY <1>1, <1>2, <1>3, <2>1, <3>1, <3>2 DEF WindowsFile
  <2>8. /\ WindowsNumber("port", "-p", "PORT_NUMBER", DEFAULT_PORT_NUMBER)'
        /\ WindowsNumber("threads", "-n", "THREADS_NUMBER", DEFAULT_THREADS_NUMBER)'
    <3>1. (flags'["-p"] = 2 <=> flags["-p"] = 2) /\ (flags'["-n"] = 2 <=> flags["-n"] = 2)
      BY <2>3, <2>4
    <3>. QED BY <1>1, <1>2, <1>3, <2>1, <3>1 DEF WindowsNumber
  <2>. QED BY <2>5, <2>6, <2>7, <2>8 DEF WindowsServerInv
<1>. QED BY <1>5, <1>6

\* What fits in sixteen bits is not cut, and a port in range fits.
LEMMA SixteenBits ==
  /\ MAX_PORT_NUMBER \in Int /\ \A m \in Nat : m <= MAX_PORT_NUMBER => m < 65536
  /\ \A m \in Nat : m < 65536 => m % 65536 = m
BY SMT DEF MAX_PORT_NUMBER

\* A port in range is kept as it is.
LEMMA PortFits == ASSUME NEW n \in 1 .. MAX_PORT_NUMBER PROVE n % 65536 = n
<1>1. \A max \in Int : \A m \in 1 .. max : m \in Nat /\ m <= max BY SMT
<1>2. n \in Nat /\ n <= MAX_PORT_NUMBER BY <1>1, SixteenBits
<1>. QED BY <1>2, SixteenBits

\* A value is read.
LEMMA WindowsValueKeeps ==
  ASSUME FixedInv, TypedInv, WindowsServerInv, Paired, Sane, WindowsServerValue
  PROVE  WindowsServerInv'
<1>1. /\ program = <<Server, "windows">> /\ pc = "options" /\ i \in 1 .. Len(line)
      /\ line[i] \notin Dashed /\ UNCHANGED <<program, line, file>>
  BY WindowsServerValueEffect DEF input
<1>2. /\ WindowsOptions /\ WindowsToken /\ WindowsFile
      /\ WindowsNumber("port", "-p", "PORT_NUMBER", DEFAULT_PORT_NUMBER)
      /\ WindowsNumber("threads", "-n", "THREADS_NUMBER", DEFAULT_THREADS_NUMBER)
  BY <1>1 DEF WindowsServerInv
<1>3. /\ Given("-p")' = Given("-p") /\ Given("-n")' = Given("-n") /\ FileIsRead' = FileIsRead
      /\ FileGives("PORT_NUMBER")' = FileGives("PORT_NUMBER")
      /\ FileGives("THREADS_NUMBER")' = FileGives("THREADS_NUMBER")
  BY <1>1 DEF Given, FileGives, FileIsRead
<1>4. Len(line) \in Nat BY DEF FixedInv
<1>5. CASE pc' = "exited" /\ UNCHANGED <<flags, i, at, set>>
  BY <1>1, <1>2, <1>3, <1>5 DEF WindowsServerInv, WindowsOptions, WindowsToken, WindowsFile, WindowsNumber
<1>6. CASE ~(pc' = "exited" /\ UNCHANGED <<flags, i, at, set>>)
  <2>1. PICK o \in ValueOptions :
          /\ flags[o] = 1 /\ UNCHANGED <<at, pc>> /\ i' = i + 1
          /\ flags' = [flags EXCEPT ![o] = 2]
          /\ o \in {"-p", "-n"} => line[i] \in DOMAIN Number
          /\ set' \in Settings /\ set'.token = set.token
          /\ set'.port = IF o = "-p" THEN Number[line[i]] % 65536 ELSE set.port
          /\ set'.threads = IF o = "-n" THEN Number[line[i]] ELSE set.threads
          /\ set'.conf = IF o = "-c" THEN line[i] ELSE set.conf
    BY <1>6, WindowsServerValueEffect
  <2>2. \A k \in 1 .. Len(line) : k < i' <=> k < i \/ k = i BY <1>1, <1>4, <2>1, SMT
  <2>3. /\ ValueOptions \subseteq Letters /\ ValueOptions \subseteq Dashed /\ "-s" \in Dashed
        /\ {"-p", "-n", "-c"} \subseteq ValueOptions
    BY DEF ValueOptions, Letters, Dashed
  <2>4. /\ flags'[o] = 2 /\ \A p \in ValueOptions : p # o => flags'[p] = flags[p]
    BY <2>1, <2>3 DEF TypedInv
  <2>5. i - 1 \in 1 .. Len(line) - 1 /\ (i - 1) + 1 = i /\ line[i - 1] = o /\ i - 1 < i'
    <3>1. i > 1 /\ line[i - 1] = o BY <1>2, <2>1 DEF WindowsOptions
    <3>. QED BY <1>1, <1>4, <2>1, <3>1, SMT
  <2>6. WindowsOptions'
    <3>. SUFFICES ASSUME NEW p \in ValueOptions
                  PROVE  /\ \A k \in 1 .. Len(line) : k < i' /\ line[k] = p => flags'[p] # 0
                         /\ \A j, k \in 1 .. Len(line) :
                              j < i' /\ k < i' /\ line[j] = p /\ line[k] = p => j = k
                         /\ flags'[p] # 1
      BY <1>1 DEF WindowsOptions, ValueOptions
    <3>1. line[i] # p BY <1>1, <2>3
    <3>2. p # o => flags[p] # 1 BY <1>2, <2>5 DEF WindowsOptions
    <3>. QED BY <1>2, <2>2, <2>4, <3>1, <3>2 DEF WindowsOptions
  <2>7. WindowsToken' BY <1>1, <1>2, <2>1, <2>2, <2>3 DEF WindowsToken
  <2>8. WindowsFile'
    <3>1. \A k \in 1 .. Len(line) - 1 : k < i => k < i' BY <1>1, <1>4, <2>1, SMT
    <3>2. CASE o = "-c"
      <4>1. \E k \in 1 .. Len(line) - 1 : k < i' /\ line[k] = "-c" /\ set'.conf = line[k + 1]
        BY <2>1, <2>5, <3>2
      <4>. QED BY <1>1, <1>2, <1>3, <2>1, <2>4, <3>2, <4>1 DEF WindowsFile
    <3>3. CASE o # "-c"
      <4>1. flags'["-c"] = flags["-c"] BY <2>3, <2>4, <3>3
      <4>. QED BY <1>1, <1>2, <1>3, <2>1, <3>1, <3>3, <4>1 DEF WindowsFile
    <3>. QED BY <3>2, <3>3
  <2>9. Atoi(line[i]) \in Given(o) BY <2>5 DEF Given
  <2>10. WindowsNumber("port", "-p", "PORT_NUMBER", DEFAULT_PORT_NUMBER)'
    <3>1. CASE o = "-p"
      <4>1. Atoi(line[i]) = Number[line[i]] BY <2>1, <3>1 DEF Atoi
      <4>2. set'.port = Atoi(line[i])
        <5>1. Atoi(line[i]) \in 1 .. MAX_PORT_NUMBER BY <2>9, <3>1 DEF Sane
        <5>. QED BY <2>1, <3>1, <4>1, <5>1, PortFits
      <4>. QED BY <1>3, <2>4, <2>9, <3>1, <4>2 DEF WindowsNumber
    <3>2. CASE o # "-p"
      <4>1. flags'["-p"] = flags["-p"] /\ set'.port = set.port BY <2>1, <2>3, <2>4, <3>2
      <4>. QED BY <1>1, <1>2, <1>3, <2>1, <4>1 DEF WindowsNumber
    <3>. QED BY <3>1, <3>2
  <2>11. WindowsNumber("threads", "-n", "THREADS_NUMBER", DEFAULT_THREADS_NUMBER)'
    <3>1. CASE o = "-n"
      <4>1. set'.threads = Atoi(line[i]) BY <2>1, <3>1 DEF Atoi
      <4>. QED BY <1>3, <2>4, <2>9, <3>1, <4>1 DEF WindowsNumber
    <3>2. CASE o # "-n"
      <4>1. flags'["-n"] = flags["-n"] /\ set'.threads = set.threads BY <2>1, <2>3, <2>4, <3>2
      <4>. QED BY <1>1, <1>2, <1>3, <2>1, <4>1 DEF WindowsNumber
    <3>. QED BY <3>1, <3>2
  <2>. QED BY <2>6, <2>7, <2>8, <2>10, <2>11 DEF WindowsServerInv
<1>. QED BY <1>5, <1>6

\* What the file is once the options are read: read if it opens, and not otherwise.
LEMMA WindowsOptionsEndKeeps ==
  ASSUME FixedInv, TypedInv, WindowsServerInv, Paired, Sane, WindowsServerOptionsEnd
  PROVE  WindowsServerInv'
<1>1. /\ program = <<Server, "windows">> /\ pc = "options" /\ i > Len(line)
      /\ UNCHANGED <<program, line, file, flags, i, at, set>>
  BY WindowsServerOptionsEndEffect DEF input
<1>2. /\ WindowsOptions /\ WindowsToken /\ WindowsFile
      /\ WindowsNumber("port", "-p", "PORT_NUMBER", DEFAULT_PORT_NUMBER)
      /\ WindowsNumber("threads", "-n", "THREADS_NUMBER", DEFAULT_THREADS_NUMBER)
  BY <1>1 DEF WindowsServerInv
<1>3. /\ Given("-p")' = Given("-p") /\ Given("-n")' = Given("-n") /\ FileIsRead' = FileIsRead
      /\ FileGives("PORT_NUMBER")' = FileGives("PORT_NUMBER")
      /\ FileGives("THREADS_NUMBER")' = FileGives("THREADS_NUMBER")
  BY <1>1 DEF Given, FileGives, FileIsRead
<1>4. Len(line) \in Nat /\ i \in Nat BY DEF FixedInv, TypedInv
<1>5. WindowsFile'
  <2>1. CASE pc' = "exited" BY <1>1, <1>2, <1>3, <2>1 DEF WindowsFile
  <2>2. CASE pc' # "exited"
    <3>1. /\ pc' = (IF set.conf = Unset THEN "log" ELSE "config")
          /\ set.conf \in Readable \cup {Unset} /\ \A o \in ValueOptions : flags[o] # 1
      BY <2>2, WindowsServerOptionsEndEffect
    <3>2. set.conf = Unset => ~FileIsRead
      <4>. SUFFICES ASSUME set.conf = Unset, FileIsRead PROVE FALSE OBVIOUS
      <4>1. PICK k \in 1 .. Len(line) - 1 : line[k] = "-c" /\ line[k + 1] \in Readable
        BY DEF FileIsRead
      <4>2. k \in 1 .. Len(line) /\ k < i BY <1>1, <1>4, SMT
      <4>3. "-c" \in ValueOptions /\ "-c" \in Letters BY DEF ValueOptions, Letters
      <4>4. flags["-c"] = 2
        <5>1. flags["-c"] # 0 /\ flags["-c"] # 1 BY <1>2, <3>1, <4>1, <4>2, <4>3 DEF WindowsOptions
        <5>2. flags["-c"] \in 0 .. 2 BY <4>3 DEF TypedInv
        <5>. QED BY <5>1, <5>2, SMT
      <4>5. PICK n \in 1 .. Len(line) - 1 : n < i /\ line[n] = "-c" /\ set.conf = line[n + 1]
        BY <1>2, <4>4 DEF WindowsFile
      <4>6. n \in 1 .. Len(line) BY <1>4, SMT
      <4>7. n = k BY <1>2, <4>1, <4>2, <4>3, <4>5, <4>6 DEF WindowsOptions
      <4>. QED BY <4>1, <4>5, <4>7, StartupAssumption DEF Unset
    <3>. QED BY <1>1, <1>2, <1>3, <3>1, <3>2 DEF WindowsFile
  <2>. QED BY <2>1, <2>2
<1>6. WindowsOptions' /\ WindowsToken' BY <1>1, <1>2 DEF WindowsOptions, WindowsToken, ValueOptions
<1>7. /\ WindowsNumber("port", "-p", "PORT_NUMBER", DEFAULT_PORT_NUMBER)'
      /\ WindowsNumber("threads", "-n", "THREADS_NUMBER", DEFAULT_THREADS_NUMBER)'
  BY <1>1, <1>2, <1>3 DEF WindowsNumber
<1>. QED BY <1>5, <1>6, <1>7 DEF WindowsServerInv

\* A line of the file is read.
LEMMA WindowsConfigLineKeeps ==
  ASSUME FixedInv, TypedInv, WindowsServerInv, Paired, Sane, WindowsServerConfigLine
  PROVE  WindowsServerInv'
<1>. DEFINE l == file.lines[at]
<1>1. /\ program = <<Server, "windows">> /\ pc = "config" /\ at \in 1 .. Len(file.lines)
      /\ UNCHANGED <<program, line, file, flags, i>>
  BY WindowsServerConfigLineEffect DEF input
<1>2. /\ WindowsOptions /\ WindowsToken /\ WindowsFile
      /\ WindowsNumber("port", "-p", "PORT_NUMBER", DEFAULT_PORT_NUMBER)
      /\ WindowsNumber("threads", "-n", "THREADS_NUMBER", DEFAULT_THREADS_NUMBER)
  BY <1>1 DEF WindowsServerInv
<1>3. /\ Given("-p")' = Given("-p") /\ Given("-n")' = Given("-n") /\ FileIsRead' = FileIsRead
      /\ FileGives("PORT_NUMBER")' = FileGives("PORT_NUMBER")
      /\ FileGives("THREADS_NUMBER")' = FileGives("THREADS_NUMBER")
  BY <1>1 DEF Given, FileGives, FileIsRead
<1>4. Len(file.lines) \in Nat /\ DOMAIN file.lines = 1 .. Len(file.lines) BY DEF FixedInv
<1>5. WindowsOptions' BY <1>1, <1>2 DEF WindowsOptions, ValueOptions
<1>6. FileIsRead
  <2>1. "-c" \in ValueOptions /\ "-c" \in Letters BY DEF ValueOptions, Letters
  <2>2. CASE flags["-c"] = 2 BY <1>1, <1>2, <2>2 DEF WindowsFile, FileIsRead
  <2>3. CASE flags["-c"] # 2
    BY <1>1, <1>2, <2>3, StartupAssumption DEF WindowsFile, Unset
  <2>. QED BY <2>2, <2>3
<1>7. CASE pc' = "exited" /\ at' = at /\ set' = set
  <2>1. WindowsToken' /\ WindowsFile' BY <1>1, <1>2, <1>3, <1>7 DEF WindowsToken, WindowsFile
  <2>2. /\ WindowsNumber("port", "-p", "PORT_NUMBER", DEFAULT_PORT_NUMBER)'
        /\ WindowsNumber("threads", "-n", "THREADS_NUMBER", DEFAULT_THREADS_NUMBER)'
    BY <1>1, <1>2, <1>3, <1>7 DEF WindowsNumber
  <2>. QED BY <1>5, <2>1, <2>2 DEF WindowsServerInv
<1>8. CASE ~(pc' = "exited" /\ at' = at /\ set' = set)
  <2>1. /\ pc' = pc /\ at' = at + 1 /\ set'.conf = set.conf /\ l.value \in Nat
        /\ \/ /\ l.key = "PORT_NUMBER" /\ flags["-p"] = 0 /\ set'.port = l.value % 65536
              /\ set'.threads = set.threads /\ set'.token = set.token
           \/ /\ l.key = "THREADS_NUMBER" /\ flags["-n"] = 0 /\ set'.threads = l.value
              /\ set'.port = set.port /\ set'.token = set.token
           \/ /\ l.key = "STDOUT_TOKEN" /\ ~set.token /\ l.value \in {0, 1}
              /\ set'.token = (l.value = 1)
              /\ set'.port = set.port /\ set'.threads = set.threads
    BY <1>8, WindowsServerConfigLineEffect
  <2>2. at \in DOMAIN file.lines /\ \A k \in DOMAIN file.lines : k < at' <=> k < at \/ k = at
    BY <1>1, <1>4, <2>1, SMT
  <2>3. \A key : l.key = key => l.value \in FileGives(key) BY <1>6, <2>2 DEF FileGives
  <2>4. WindowsFile' BY <1>1, <1>2, <1>3, <1>6, <2>1 DEF WindowsFile
  <2>5. WindowsToken'
    <3>1. l.value \in {0, 1} => (l.value > 0 <=> l.value = 1) BY SMT
    <3>2. CASE l.key = "STDOUT_TOKEN"
      <4>1. set'.token = (l.value = 1) /\ ~set.token /\ l.value \in {0, 1} BY <2>1, <3>2
      <4>2. set'.token <=> l.value > 0 BY <3>1, <4>1
      <4>. QED BY <1>1, <1>2, <2>2, <3>2, <4>1, <4>2 DEF WindowsToken
    <3>3. CASE l.key # "STDOUT_TOKEN"
      <4>1. set'.token = set.token BY <2>1, <3>3
      <4>. QED BY <1>1, <1>2, <2>2, <3>3, <4>1 DEF WindowsToken
    <3>. QED BY <3>2, <3>3
  <2>6. WindowsNumber("port", "-p", "PORT_NUMBER", DEFAULT_PORT_NUMBER)'
    <3>1. CASE l.key = "PORT_NUMBER"
      <4>1. l.value \in FileGives("PORT_NUMBER") /\ l.value \in 1 .. MAX_PORT_NUMBER
        BY <2>3, <3>1 DEF Sane
      <4>2. set'.port = l.value BY <2>1, <3>1, <4>1, PortFits
      <4>3. flags["-p"] # 2 BY <2>1, <3>1
      <4>. QED BY <1>1, <1>3, <4>1, <4>2, <4>3 DEF WindowsNumber
    <3>2. CASE l.key # "PORT_NUMBER"
      <4>1. set'.port = set.port BY <2>1, <3>2
      <4>. QED BY <1>1, <1>2, <1>3, <2>2, <3>2, <4>1 DEF WindowsNumber
    <3>. QED BY <3>1, <3>2
  <2>7. WindowsNumber("threads", "-n", "THREADS_NUMBER", DEFAULT_THREADS_NUMBER)'
    <3>1. CASE l.key = "THREADS_NUMBER"
      <4>1. l.value \in FileGives("THREADS_NUMBER") BY <2>3, <3>1
      <4>2. set'.threads = l.value /\ flags["-n"] # 2 BY <2>1, <3>1
      <4>. QED BY <1>1, <1>3, <4>1, <4>2 DEF WindowsNumber
    <3>2. CASE l.key # "THREADS_NUMBER"
      <4>1. set'.threads = set.threads BY <2>1, <3>2
      <4>. QED BY <1>1, <1>2, <1>3, <2>2, <3>2, <4>1 DEF WindowsNumber
    <3>. QED BY <3>1, <3>2
  <2>. QED BY <1>5, <2>4, <2>5, <2>6, <2>7 DEF WindowsServerInv
<1>. QED BY <1>7, <1>8

\* The last steps change no setting but the name of the log.
LEMMA WindowsEndsKeep ==
  ASSUME FixedInv, TypedInv, WindowsServerInv, Paired, Sane, WindowsServerConfigEnd \/ WindowsServerReady
  PROVE  WindowsServerInv'
<1>1. /\ program = <<Server, "windows">> /\ UNCHANGED <<program, line, file, flags, i, at>>
      /\ set'.port = set.port /\ set'.threads = set.threads
      /\ set'.token = set.token /\ set'.conf = set.conf
      /\ \/ pc = "config" /\ pc' = "log" /\ at > Len(file.lines)
         \/ pc = "log" /\ pc' \in {"ready", "exited"}
  BY WindowsServerEndsEffect DEF input
<1>2. /\ WindowsOptions /\ WindowsToken /\ WindowsFile
      /\ WindowsNumber("port", "-p", "PORT_NUMBER", DEFAULT_PORT_NUMBER)
      /\ WindowsNumber("threads", "-n", "THREADS_NUMBER", DEFAULT_THREADS_NUMBER)
  BY <1>1 DEF WindowsServerInv
<1>3. /\ Given("-p")' = Given("-p") /\ Given("-n")' = Given("-n") /\ FileIsRead' = FileIsRead
      /\ FileGives("PORT_NUMBER")' = FileGives("PORT_NUMBER")
      /\ FileGives("THREADS_NUMBER")' = FileGives("THREADS_NUMBER")
  BY <1>1 DEF Given, FileGives, FileIsRead
<1>4. WindowsOptions' /\ WindowsToken' BY <1>1, <1>2 DEF WindowsOptions, WindowsToken, ValueOptions
<1>5. WindowsFile' BY <1>1, <1>2, <1>3 DEF WindowsFile
<1>6. /\ WindowsNumber("port", "-p", "PORT_NUMBER", DEFAULT_PORT_NUMBER)'
      /\ WindowsNumber("threads", "-n", "THREADS_NUMBER", DEFAULT_THREADS_NUMBER)'
  BY <1>1, <1>2, <1>3 DEF WindowsNumber
<1>. QED BY <1>4, <1>5, <1>6 DEF WindowsServerInv

\* A Windows server that starts has the settings it was asked for.
LEMMA WindowsServerAsAsked ==
  ASSUME FixedInv, TypedInv, WindowsServerInv, program = <<Server, "windows">>, pc = "ready", Paired, Sane
  PROVE  ServerAsAsked
<1>1. program[2] = "windows" /\ Len(line) \in Nat /\ i \in Nat BY DEF FixedInv, TypedInv
<1>2. /\ WindowsOptions /\ WindowsToken /\ WindowsFile
      /\ WindowsNumber("port", "-p", "PORT_NUMBER", DEFAULT_PORT_NUMBER)
      /\ WindowsNumber("threads", "-n", "THREADS_NUMBER", DEFAULT_THREADS_NUMBER)
  BY DEF WindowsServerInv
<1>3. /\ \A k \in 1 .. Len(line) : k < i
      /\ \A k \in 1 .. Len(line) - 1 : k \in 1 .. Len(line)
  BY <1>1, <1>2, SMT DEF WindowsFile
<1>4. FileIsRead => \A k \in DOMAIN file.lines : k < at
  <2>1. Len(file.lines) \in Nat /\ DOMAIN file.lines = 1 .. Len(file.lines) /\ at \in Nat
    BY DEF FixedInv, TypedInv
  <2>2. at > Len(file.lines) => \A k \in 1 .. Len(file.lines) : k < at BY <2>1, SMT
  <2>. QED BY <1>2, <2>1, <2>2 DEF WindowsFile
<1>5. ASSUME NEW setting, NEW o \in ValueOptions, NEW key, NEW default, NEW max,
             WindowsNumber(setting, o, key, default), Given(o) \cup FileGives(key) \subseteq 1 .. max
      PROVE  set[setting] \in Asked(o, key, default, max)
  <2>1. Given(o) # {} => flags[o] = 2
    <3>. SUFFICES ASSUME Given(o) # {} PROVE flags[o] = 2 OBVIOUS
    <3>1. PICK k \in 1 .. Len(line) - 1 : line[k] = o BY DEF Given
    <3>2. flags[o] # 0 /\ flags[o] # 1 BY <1>2, <1>3, <3>1 DEF WindowsOptions, WindowsFile
    <3>3. flags[o] \in 0 .. 2 BY DEF TypedInv, ValueOptions, Letters
    <3>. QED BY <3>2, <3>3, SMT
  <2>2. FileGives(key) # {} /\ flags[o] # 2 => set[setting] \in FileGives(key)
    <3>. SUFFICES ASSUME FileGives(key) # {}, flags[o] # 2 PROVE set[setting] \in FileGives(key) OBVIOUS
    <3>1. PICK k \in DOMAIN file.lines : FileIsRead /\ file.lines[k].key = key BY DEF FileGives
    <3>. QED BY <1>4, <1>5, <3>1 DEF WindowsNumber
  <2>3. Given(o) \cap (1 .. max) = Given(o) /\ FileGives(key) \cap (1 .. max) = FileGives(key)
    BY <1>5
  <2>4. Asked(o, key, default, max) =
          IF Given(o) # {} THEN Given(o)
          ELSE IF FileGives(key) # {} THEN FileGives(key) \cup Given(o) ELSE {default} \cup Given(o)
    BY <1>1, <2>3 DEF Asked
  <2>5. flags[o] = 2 => set[setting] \in Given(o) BY <1>5 DEF WindowsNumber
  <2>6. flags[o] # 2 => set[setting] \in {default} \cup FileGives(key) BY <1>5 DEF WindowsNumber
  <2>. QED BY <2>1, <2>2, <2>4, <2>5, <2>6
<1>6. set.token <=> ("-s" \in Words(1) \/ \E v \in FileGives("STDOUT_TOKEN") : v > 0)
  <2>1. "-s" \in Words(1) <=> \E k \in 1 .. Len(line) : k < i /\ line[k] = "-s"
    BY <1>3 DEF Words
  <2>2. CASE FileIsRead
    BY <1>2, <1>4, <2>1, <2>2 DEF WindowsToken, FileGives
  <2>3. CASE ~FileIsRead
    <3>1. at = 1 BY <1>2, <2>3 DEF WindowsFile
    <3>2. \A k \in DOMAIN file.lines : ~(k < at)
      <4>1. DOMAIN file.lines = 1 .. Len(file.lines) /\ Len(file.lines) \in Nat BY DEF FixedInv
      <4>2. \A k \in 1 .. Len(file.lines) : ~(k < at) BY <3>1, SMT
      <4>. QED BY <4>1, <4>2
    <3>3. FileGives("STDOUT_TOKEN") = {} BY <2>3 DEF FileGives
    <3>. QED BY <1>2, <2>1, <3>2, <3>3 DEF WindowsToken
  <2>. QED BY <2>2, <2>3
<1>7. "-p" \in ValueOptions /\ "-n" \in ValueOptions BY DEF ValueOptions
<1>8. /\ Given("-p") \cup FileGives("PORT_NUMBER") \subseteq 1 .. MAX_PORT_NUMBER
      /\ Given("-n") \cup FileGives("THREADS_NUMBER") \subseteq 1 .. MAX_THREADS_NUM
  BY DEF Sane
<1>. QED BY <1>2, <1>5, <1>6, <1>7, <1>8 DEF ServerAsAsked

-----------------------------------------------------------------------------
(* The Linux client.                                                        *)

\* What one argument does to the settings of the Linux client.
LEMMA LinuxClientArgumentEffect ==
  ASSUME FixedInv, TypedInv, LinuxClientArgument
  PROVE  /\ program = <<Client, "linux">> /\ pc = "options" /\ i \in 1 .. Len(line)
         /\ UNCHANGED <<input, flags, at>> /\ set' \in Settings /\ set'.threads = set.threads
         /\ \/ pc' = "exited" /\ i' = i /\ set' = set
            \/ /\ pc' = pc /\ i' = i + 1
               /\ \/ /\ line[i] = "-p" /\ i < Len(line) /\ Atoi(line[i + 1]) \in 1 .. MAX_PORT_NUMBER
                     /\ set'.port = Atoi(line[i + 1])
                     /\ set'.host = set.host /\ set'.command = set.command /\ set'.args = set.args
                  \/ /\ line[i] = "-h" /\ i < Len(line) /\ line[i + 1] \in Hosts
                     /\ set'.host = line[i + 1]
                     /\ set'.port = set.port /\ set'.command = set.command /\ set'.args = set.args
                  \/ /\ line[i] \in Commands /\ set.command = Unset /\ i < Len(line)
                     /\ set'.command = line[i] /\ set'.args = SubSeq(line, i + 1, Len(line))
                     /\ set'.host = set.host /\ set'.port = set.port
                  \/ ~(line[i] \in Commands /\ set.command = Unset) /\ set' = set
<1>. DEFINE value == line[i + 1]
<1>1. program = <<Client, "linux">> /\ pc = "options" /\ i \in 1 .. Len(line)
  BY SMT DEF LinuxClientArgument, Reads, FixedInv, TypedInv
<1>2. set \in Settings BY DEF TypedInv
<1>3. Len(line) \in Nat BY DEF FixedInv
<1>4. /\ Values(1) => i < Len(line)
      /\ Values(2) => i < Len(line)
      /\ i < Len(line) => i + 1 \in 1 .. Len(line) /\ value \in Words(1)
  BY <1>1, <1>3, SMT DEF Values, Words
<1>5. "-p" \notin Commands /\ "-h" \notin Commands BY DEF Commands
<1>6. Exit => UNCHANGED <<input, flags, at>> /\ pc' = "exited" /\ i' = i /\ set' = set
  BY DEF Exit, input
<1>7. \A new : Settle(new) => UNCHANGED <<input, flags, at>> /\ pc' = pc /\ i' = i + 1 /\ set' = new
  BY DEF Settle, input
<1>8. CASE line[i] = "-p"
  <2>1. IF Values(1) /\ InRange(Atoi(value), MAX_PORT_NUMBER)
        THEN Settle([set EXCEPT !.port = Atoi(value)]) ELSE Exit
    BY <1>5, <1>8 DEF LinuxClientArgument, SettleIf
  <2>2. CASE Exit BY <1>1, <1>2, <1>6, <2>2
  <2>3. CASE ~Exit
    <3>1. Values(1) /\ Atoi(value) \in 1 .. MAX_PORT_NUMBER /\ Settle([set EXCEPT !.port = Atoi(value)])
      BY <2>1, <2>3 DEF InRange
    <3>2. set' = [set EXCEPT !.port = Atoi(value)] BY <1>7, <3>1
    <3>3. /\ set' \in Settings /\ set'.port = Atoi(value) /\ set'.threads = set.threads
          /\ set'.host = set.host /\ set'.command = set.command /\ set'.args = set.args
      BY <1>2, <3>2, AtoiIsNat DEF Settings
    <3>. QED BY <1>1, <1>4, <1>7, <1>8, <3>1, <3>3
  <2>. QED BY <2>2, <2>3
<1>9. CASE line[i] = "-h"
  <2>1. IF Values(1) /\ value \in Hosts THEN Settle([set EXCEPT !.host = value]) ELSE Exit
    BY <1>5, <1>9 DEF LinuxClientArgument, SettleIf
  <2>2. CASE Exit BY <1>1, <1>2, <1>6, <2>2
  <2>3. CASE ~Exit
    <3>1. Values(1) /\ value \in Hosts /\ Settle([set EXCEPT !.host = value])
      BY <2>1, <2>3
    <3>2. set' = [set EXCEPT !.host = value] /\ value \in Words(1) BY <1>4, <1>7, <3>1
    <3>. HIDE DEF value
    <3>3. /\ set' \in Settings /\ set'.host = value /\ set'.threads = set.threads
          /\ set'.port = set.port /\ set'.command = set.command /\ set'.args = set.args
      BY <1>2, <3>2 DEF Settings
    <3>. QED BY <1>1, <1>4, <1>7, <1>9, <3>1, <3>3 DEF value
  <2>. QED BY <2>2, <2>3
<1>10. CASE line[i] \in Commands /\ set.command = Unset
  <2>. DEFINE new == [set EXCEPT !.command = line[i], !.args = ArgumentsFrom(i + 1)]
  <2>1. SettleIf(WellGiven(line[i]), new)
    BY <1>5, <1>10 DEF LinuxClientArgument
  <2>2. CASE Exit BY <1>1, <1>2, <1>6, <2>2
  <2>3. CASE ~Exit
    <3>1. WellGiven(line[i]) /\ Settle(new) BY <2>1, <2>3 DEF SettleIf
    <3>2. i < Len(line)
      <4>1. Values(1) \/ Values(2) BY <1>10, <3>1 DEF WellGiven, JustValues, Commands
      <4>. QED BY <1>4, <4>1
    <3>3. set' = new BY <1>7, <3>1
    <3>4. SubSeq(line, i + 1, Len(line)) \in Seq(STRING)
      <4>1. line \in Seq(STRING) /\ i + 1 \in 1 .. Len(line) + 1 BY <1>1, <1>3, SMT DEF FixedInv
      <4>2. Len(line) \in 0 .. Len(line) BY <1>3, SMT
      <4>3. \A k \in i + 1 .. Len(line) : line[k] \in STRING
        <5>1. \A k \in i + 1 .. Len(line) : k \in 1 .. Len(line) BY <1>1, <1>3, SMT
        <5>. QED BY <5>1, WordsAreStrings
      <4>4. i + 1 \in Int /\ Len(line) \in Int BY <1>1, <1>3, SMT
      <4>. QED BY <4>3, <4>4, SubSeqProperties
    <3>5. line[i] \in {Unset} \cup Commands BY <1>10
    <3>6. /\ set' \in Settings /\ set'.command = line[i] /\ set'.args = SubSeq(line, i + 1, Len(line))
          /\ set'.port = set.port /\ set'.host = set.host /\ set'.threads = set.threads
      BY <1>2, <3>3, <3>4, <3>5 DEF Settings, ArgumentsFrom
    <3>. QED BY <1>1, <1>7, <1>10, <3>1, <3>2, <3>6
  <2>. QED BY <2>2, <2>3
<1>11. CASE line[i] # "-p" /\ line[i] # "-h" /\ ~(line[i] \in Commands /\ set.command = Unset)
  <2>1. Settle(set) BY <1>11 DEF LinuxClientArgument
  <2>. QED BY <1>1, <1>2, <1>7, <1>11, <2>1
<1>. QED BY <1>8, <1>9, <1>10, <1>11

\* The port and the host come from behind their options; in a command line of the usual
\* form the fifth argument is the command, whatever follows.
LinuxClientInv ==
  program = <<Client, "linux">> =>
    /\ set.port = 0 \/ set.port \in Given("-p")
    /\ set.host = Unset \/ \E k \in 1 .. Len(line) - 1 : line[k] = "-h" /\ set.host = line[k + 1]
    /\ ClientForm => IF i <= 5 THEN set.command = Unset
                     ELSE set.command = line[5] /\ set.args = SubSeq(line, 6, Len(line))
    /\ pc = "ready" => Complete /\ i > Len(line)

\* Behind the last argument nothing changes.
LEMMA LinuxClientReadyEffect ==
  ASSUME FixedInv, TypedInv, LinuxClientReady
  PROVE  /\ program = <<Client, "linux">> /\ pc = "options" /\ i > Len(line)
         /\ UNCHANGED <<input, flags, i, at, set>>
         /\ pc' = "exited" \/ (pc' = "ready" /\ Complete)
BY DEF LinuxClientReady, Reads, input

\* The arguments of a command are there.
LEMMA ArgumentsAreThere ==
  ASSUME FixedInv, NEW k \in 1 .. Len(line)
  PROVE  /\ SubSeq(line, k, Len(line)) # <<>>
         /\ SubSeq(line, k, Len(line))[1] = line[k]
<1>1. Len(line) \in Nat /\ k \in Int /\ Len(line) \in Int /\ 1 \in 1 .. Len(line) - k + 1
  BY SMT DEF FixedInv
<1>2. \A j \in k .. Len(line) : line[j] \in STRING
  <2>1. \A j \in k .. Len(line) : j \in 1 .. Len(line) BY <1>1, SMT
  <2>. QED BY <2>1, WordsAreStrings
<1>3. /\ Len(SubSeq(line, k, Len(line))) = (IF k <= Len(line) THEN Len(line) - k + 1 ELSE 0)
      /\ \A j \in 1 .. Len(line) - k + 1 : SubSeq(line, k, Len(line))[j] = line[k + j - 1]
  BY <1>1, <1>2, SubSeqProperties
<1>4. k + 1 - 1 = k /\ k <= Len(line) /\ Len(line) - k + 1 # 0 BY <1>1, SMT
<1>5. Len(<<>>) = 0 OBVIOUS
<1>. QED BY <1>1, <1>3, <1>4, <1>5

\* The Linux client's variables keep their types.
LEMMA TypesLinuxClient ==
  ASSUME FixedInv, TypedInv, RangeInv, LinuxClient
  PROVE  TypedInv' /\ RangeInv'
<1>1. /\ Len(line) \in Nat /\ program = <<Client, "linux">> /\ program[1] = Client /\ Client # Server
      /\ program[2] = "linux" /\ UNCHANGED <<input, flags, at>> /\ set' \in Settings
      /\ pc = "options"
  BY LinuxClientArgumentEffect, LinuxClientReadyEffect DEF FixedInv, TypedInv, LinuxClient, Server, Client, input
<1>2. Settings' = Settings BY <1>1 DEF Settings, Words, input
<1>3. /\ set.threads \in 1 .. MAX_THREADS_NUM /\ set.port \in 1 .. MAX_PORT_NUMBER \cup {0}
      /\ set.host \in Hosts \cup {Unset}
      /\ set.command # Unset => set.args # <<>>
  BY <1>1 DEF RangeInv
<1>4. Unset \notin Commands BY DEF Unset, Commands
<1>5. CASE LinuxClientArgument
  <2>1. i \in 1 .. Len(line) /\ set'.threads = set.threads BY <1>5, LinuxClientArgumentEffect
  <2>2. i' \in 1 .. Len(line) + 1 /\ pc' \in {"options", "exited"}
    <3>1. i \in 1 .. Len(line) + 1 /\ i + 1 \in 1 .. Len(line) + 1 BY <1>1, <2>1, SMT
    <3>. QED BY <1>1, <1>5, <3>1, LinuxClientArgumentEffect
  <2>3. /\ set'.port \in 1 .. MAX_PORT_NUMBER \cup {0} /\ set'.host \in Hosts \cup {Unset}
        /\ set'.command # Unset => set'.args # <<>>
    <3>1. CASE set'.command = set.command /\ set'.args = set.args
      BY <1>3, <1>5, <3>1, LinuxClientArgumentEffect
    <3>2. CASE ~(set'.command = set.command /\ set'.args = set.args)
      <4>1. /\ i < Len(line) /\ set'.args = SubSeq(line, i + 1, Len(line))
            /\ set'.host = set.host /\ set'.port = set.port
        BY <1>5, <3>2, LinuxClientArgumentEffect
      <4>2. i + 1 \in 1 .. Len(line) BY <1>1, <2>1, <4>1, SMT
      <4>. QED BY <1>3, <4>1, <4>2, ArgumentsAreThere
    <3>. QED BY <3>1, <3>2
  <2>4. TypedInv' BY <1>1, <1>2, <2>2 DEF TypedInv, input
  <2>5. RangeInv' BY <1>1, <1>3, <2>1, <2>2, <2>3 DEF RangeInv, input
  <2>. QED BY <2>4, <2>5
<1>6. CASE LinuxClientReady
  <2>1. /\ UNCHANGED <<i, set>> /\ (pc' = "exited" \/ (pc' = "ready" /\ Complete))
    BY <1>6, LinuxClientReadyEffect
  <2>2. TypedInv' BY <1>1, <1>2, <2>1 DEF TypedInv, input
  <2>3. RangeInv' BY <1>1, <1>3, <2>1 DEF RangeInv, input, Complete
  <2>. QED BY <2>2, <2>3
<1>. QED BY <1>5, <1>6 DEF LinuxClient

\* The Linux client starts with nothing given.
LEMMA LinuxClientInvInit == Init => LinuxClientInv
<1>. SUFFICES ASSUME Init, program = <<Client, "linux">> PROVE LinuxClientInv
  BY DEF LinuxClientInv
<1>1. set.port = 0 /\ set.host = Unset /\ set.command = Unset /\ i = 1 /\ pc = "options"
  BY DEF Init, Client, Server, Default
<1>2. i <= 5 BY <1>1
<1>. QED BY <1>1, <1>2 DEF LinuxClientInv

\* Its loop keeps to what was written.
LEMMA LinuxClientKeeps ==
  ASSUME FixedInv, TypedInv, LinuxClientInv, LinuxClient
  PROVE  LinuxClientInv'
<1>1. /\ Len(line) \in Nat /\ program = <<Client, "linux">> /\ UNCHANGED <<program, line>>
  BY LinuxClientArgumentEffect, LinuxClientReadyEffect DEF FixedInv, LinuxClient, input
<1>2. Given("-p")' = Given("-p") /\ ClientForm' = ClientForm
  BY <1>1 DEF Given, ClientForm
<1>3. /\ set.port = 0 \/ set.port \in Given("-p")
      /\ set.host = Unset \/ \E k \in 1 .. Len(line) - 1 : line[k] = "-h" /\ set.host = line[k + 1]
      /\ ClientForm => IF i <= 5 THEN set.command = Unset
                       ELSE set.command = line[5] /\ set.args = SubSeq(line, 6, Len(line))
      /\ pc = "ready" => Complete /\ i > Len(line)
  BY <1>1 DEF LinuxClientInv
<1>4. CASE LinuxClientArgument
  <2>1. i \in 1 .. Len(line) /\ pc' # "ready" BY <1>4, LinuxClientArgumentEffect
  <2>2. set'.port = 0 \/ set'.port \in Given("-p")
    <3>1. CASE set'.port = set.port BY <1>3, <3>1
    <3>2. CASE set'.port # set.port
      <4>1. line[i] = "-p" /\ i < Len(line) /\ set'.port = Atoi(line[i + 1])
        BY <1>4, <3>2, LinuxClientArgumentEffect
      <4>2. i \in 1 .. Len(line) - 1 BY <1>1, <2>1, <4>1, SMT
      <4>. QED BY <4>1, <4>2 DEF Given
    <3>. QED BY <3>1, <3>2
  <2>3. set'.host = Unset \/ \E k \in 1 .. Len(line) - 1 : line[k] = "-h" /\ set'.host = line[k + 1]
    <3>1. CASE set'.host = set.host BY <1>3, <3>1
    <3>2. CASE set'.host # set.host
      <4>1. line[i] = "-h" /\ i < Len(line) /\ set'.host = line[i + 1]
        BY <1>4, <3>2, LinuxClientArgumentEffect
      <4>2. i \in 1 .. Len(line) - 1 BY <1>1, <2>1, <4>1, SMT
      <4>. QED BY <4>1, <4>2
    <3>. QED BY <3>1, <3>2
  <2>4. ASSUME ClientForm
        PROVE  IF i' <= 5 THEN set'.command = Unset
               ELSE set'.command = line[5] /\ set'.args = SubSeq(line, 6, Len(line))
    <3>1. /\ line[1] \notin Commands /\ line[3] \notin Commands /\ line[5] \in Commands
          /\ line[2] \notin Commands /\ line[4] \notin Commands
          /\ line[5] # "-p" /\ line[5] # "-h" /\ Unset \notin Commands
      BY <2>4 DEF ClientForm, Commands, Dashed, Letters, Unset
    <3>2. CASE i <= 4
      <4>1. i \in {1, 2, 3, 4} /\ (i' = i \/ i' = i + 1 => i' <= 5) BY <2>1, <3>2, SMT
      <4>2. line[i] \notin Commands BY <3>1, <4>1
      <4>3. set.command = Unset
        <5>1. i <= 5 BY <4>1, SMT
        <5>. QED BY <1>3, <2>4, <5>1
      <4>. QED BY <1>4, <4>1, <4>2, <4>3, LinuxClientArgumentEffect
    <3>3. CASE i = 5
      <4>1. set.command = Unset BY <1>3, <2>4, <3>3
      <4>2. CASE i' = i /\ set' = set BY <3>3, <4>1, <4>2
      <4>3. CASE ~(i' = i /\ set' = set)
        <5>1. i' = i + 1 /\ set'.command = line[i] /\ set'.args = SubSeq(line, i + 1, Len(line))
          BY <1>4, <3>1, <3>3, <4>1, <4>3, LinuxClientArgumentEffect
        <5>2. i' = 6 /\ ~(6 <= 5) /\ i + 1 = 6 BY <3>3, <5>1, SMT
        <5>. QED BY <3>3, <5>1, <5>2
      <4>. QED BY <4>2, <4>3
    <3>4. CASE i > 5
      <4>1. ~(i <= 5) /\ ~(i + 1 <= 5) BY <2>1, <3>4, SMT
      <4>2. set.command = line[5] /\ set.args = SubSeq(line, 6, Len(line)) BY <1>3, <2>4, <4>1
      <4>3. set.command # Unset BY <3>1, <4>2
      <4>. QED BY <1>4, <4>1, <4>2, <4>3, LinuxClientArgumentEffect
    <3>5. i <= 4 \/ i = 5 \/ i > 5 BY <2>1, SMT
    <3>. QED BY <3>2, <3>3, <3>4, <3>5
  <2>. QED BY <1>1, <1>2, <2>1, <2>2, <2>3, <2>4 DEF LinuxClientInv
<1>5. CASE LinuxClientReady
  <2>1. UNCHANGED <<i, set>> /\ i > Len(line) /\ (pc' = "exited" \/ (pc' = "ready" /\ Complete))
    BY <1>5, LinuxClientReadyEffect
  <2>. QED BY <1>1, <1>2, <1>3, <2>1 DEF LinuxClientInv, Complete
<1>. QED BY <1>4, <1>5 DEF LinuxClient

\* A Linux client that starts does what its user wrote.
LEMMA LinuxClientAsAsked ==
  ASSUME FixedInv, TypedInv, LinuxClientInv, program = <<Client, "linux">>, pc = "ready", ClientForm
  PROVE  ClientAsAsked
<1>1. Len(line) \in Nat /\ i \in Nat /\ program[2] = "linux" /\ program[2] # "windows"
  BY DEF FixedInv, TypedInv
<1>2. ~(i <= 5) /\ 6 \in 1 .. Len(line) BY <1>1, SMT DEF LinuxClientInv, ClientForm
<1>3. set.command = line[5] /\ set.args = SubSeq(line, 6, Len(line)) BY <1>2 DEF LinuxClientInv
<1>4. set.args[1] = line[6] BY <1>2, <1>3, ArgumentsAreThere
<1>5. set.port \in Given("-p") BY DEF LinuxClientInv, Complete
<1>6. ASSUME {"-p", "-h"} \cap Words(6) = {} PROVE set.host \in {line[2], line[4]}
  <2>1. PICK k \in 1 .. Len(line) - 1 : line[k] = "-h" /\ set.host = line[k + 1]
    BY DEF LinuxClientInv, Complete
  <2>2. CASE k \in 6 .. Len(line)
    <3>1. line[k] \in Words(6) BY <2>2 DEF Words
    <3>. QED BY <1>6, <2>1, <3>1
  <2>3. CASE k \in 1 .. 5
    <3>1. k \in {1, 2, 3, 4, 5} BY <2>3, SMT
    <3>2. k # 2 /\ k # 4 /\ k # 5 BY <2>1 DEF ClientForm, Commands, Dashed, Letters
    <3>3. 1 + 1 = 2 /\ 3 + 1 = 4 BY SMT
    <3>. QED BY <2>1, <3>1, <3>2, <3>3
  <2>4. k \in 6 .. Len(line) \/ k \in 1 .. 5 BY <1>1, SMT
  <2>. QED BY <2>2, <2>3, <2>4
<1>. QED BY <1>1, <1>3, <1>4, <1>5, <1>6 DEF ClientAsAsked

-----------------------------------------------------------------------------
(* The Windows client.                                                      *)

\* An option is noted once, or passed over if it is none.
LEMMA WindowsClientOptionEffect ==
  ASSUME FixedInv, TypedInv, WindowsClientOption
  PROVE  /\ program = <<Client, "windows">> /\ pc = "options" /\ i \in 1 .. Len(line)
         /\ line[i] \in Dashed /\ UNCHANGED <<input, at, set>>
         /\ \/ pc' = "exited" /\ UNCHANGED <<flags, i>>
            \/ /\ line[i] \notin Commands \cup {"-p", "-h"}
               /\ UNCHANGED <<flags, pc>> /\ i' = i + 1
            \/ /\ line[i] \in Commands \cup {"-p", "-h"} /\ flags[line[i]] = 0 /\ pc' = pc
               /\ flags' \in [Letters -> 0 .. 2] /\ i' = i + 1
               /\ flags'[line[i]] = 1 /\ \A o \in Letters : o # line[i] => flags'[o] = flags[o]
<1>. DEFINE options == Commands \cup {"-p", "-h"}
<1>1. /\ program = <<Client, "windows">> /\ pc = "options" /\ i \in 1 .. Len(line)
      /\ line[i] \in Dashed /\ set' = set
  BY SMT DEF WindowsClientOption, Reads, FixedInv, TypedInv
<1>2. options \in SUBSET Letters BY DEF Letters, Commands
<1>3. IF line[i] \in Letters \ options
      THEN i' = i + 1 /\ UNCHANGED <<input, flags, at, pc>>
      ELSE Raise(options)
  BY DEF WindowsClientOption
<1>. HIDE DEF options
<1>4. CASE line[i] \in Letters \ options BY <1>1, <1>3, <1>4 DEF options
<1>5. CASE line[i] \notin Letters \ options
  <2>1. Raise(options) BY <1>3, <1>5
  <2>2. \/ pc' = "exited" /\ UNCHANGED <<input, flags, i, at, set>>
        \/ /\ line[i] \in options /\ flags[line[i]] = 0 /\ UNCHANGED <<input, at, pc>>
           /\ flags' \in [Letters -> 0 .. 2] /\ i' = i + 1
           /\ flags'[line[i]] = 1 /\ \A o \in Letters : o # line[i] => flags'[o] = flags[o]
    BY <1>2, <2>1, RaiseEffect
  <2>. QED BY <1>1, <2>2 DEF options
<1>. QED BY <1>4, <1>5

\* The first of the arguments a command starts with is the word that stands behind it.
LEMMA JoinedBegins ==
  ASSUME FixedInv, i \in 1 .. Len(line), NEW n \in Nat, NEW kept \in KeptOf(n)
  PROVE  Joined(kept) \in Seq(STRING) /\ Joined(kept)[1] = line[i]
<1>. DEFINE rest == [k \in DOMAIN kept |-> line[kept[k]]]
<1>1. kept \in [1 .. n -> i + 1 .. Len(line)] BY DEF KeptOf
<1>2. Len(line) \in Nat BY DEF FixedInv
<1>3. rest \in Seq(STRING)
  <2>1. \A k \in i + 1 .. Len(line) : k \in 1 .. Len(line) BY <1>2, SMT
  <2>2. \A k \in i + 1 .. Len(line) : line[k] \in STRING BY <2>1, WordsAreStrings
  <2>3. DOMAIN kept = 1 .. n /\ \A k \in 1 .. n : line[kept[k]] \in STRING BY <1>1, <2>2
  <2>. QED BY <2>3
<1>4. <<line[i]>> \in Seq(STRING) /\ Len(<<line[i]>>) = 1 /\ <<line[i]>>[1] = line[i]
  BY WordsAreStrings
<1>. HIDE DEF rest
<1>5. 1 \in 1 .. 1 + Len(rest) /\ 1 <= 1
  <2>1. Len(rest) \in Nat BY <1>3
  <2>. QED BY <2>1, SMT
<1>6. <<line[i]>> \o rest \in Seq(STRING) /\ (<<line[i]>> \o rest)[1] = line[i]
  BY <1>3, <1>4, <1>5, ConcatProperties
<1>. QED BY <1>6 DEF Joined, rest

\* An argument that is no option is a value or ends the loop: the option that waits was
\* the command.
LEMMA WindowsClientValueEffect ==
  ASSUME FixedInv, TypedInv, WindowsClientValue
  PROVE  /\ program = <<Client, "windows">> /\ pc = "options" /\ i \in 1 .. Len(line)
         /\ line[i] \notin Dashed /\ UNCHANGED <<input, at>> /\ set' \in Settings
         /\ \/ pc' = "exited" /\ UNCHANGED <<flags, i, set>>
            \/ \E o \in {"-h", "-p"} :
                 /\ flags[o] = 1 /\ pc' = pc /\ i' = i + 1 /\ flags' = [flags EXCEPT ![o] = 2]
                 /\ set'.host = IF o = "-h" THEN line[i] ELSE set.host
                 /\ set'.port = IF o = "-p" THEN Atoi(line[i]) ELSE set.port
            \/ \E o \in Commands :
                 /\ flags[o] = 1 /\ pc' = "ready" /\ UNCHANGED <<flags, i>>
                 /\ set'.host = set.host /\ set'.port = set.port
                 /\ set'.command = o /\ set'.args[1] = line[i]
<1>. DEFINE options == <<"-h", "-p", "-l", "-e", "-d", "-u">>
            o == Pending(options)
            value == line[i]
            four == value \in DOMAIN Number /\ Number[value] < 10000
<1>1. /\ program = <<Client, "windows">> /\ pc = "options" /\ i \in 1 .. Len(line)
      /\ line[i] \notin Dashed
  BY SMT DEF WindowsClientValue, Reads, FixedInv, TypedInv
<1>2. set \in Settings BY DEF TypedInv
<1>3. o # Unset => flags[o] = 1
  <2>1. Len(options) = 6 /\ \A k \in 1 .. 6 : options[k] # Unset BY DEF Unset
  <2>. HIDE DEF options
  <2>2. Pending(options) # Unset => Waiting(Pending(options)) BY <2>1, PendingWaits
  <2>. QED BY <2>2 DEF Waiting
<1>4. /\ CASE o = "-h" /\ value \in Hosts -> Give(o, [set EXCEPT !.host = value])
           [] o = "-p" /\ four -> Give(o, [set EXCEPT !.port = Number[value]])
           [] o \in Commands /\ FitsLine(o) -> WindowsClientCommand(o)
           [] OTHER -> Exit
  BY DEF WindowsClientValue
<1>5. "-h" # Unset /\ "-p" # Unset /\ Unset \notin Commands /\ "-h" \notin Commands /\ "-p" \notin Commands
  BY DEF Unset, Commands
<1>. HIDE DEF o
<1>6. CASE o = "-h" /\ value \in Hosts
  <2>1. Give("-h", [set EXCEPT !.host = value]) BY <1>4, <1>5, <1>6
  <2>2. value \in Words(1) BY <1>1 DEF Words
  <2>3. set' \in Settings /\ set'.host = value /\ set'.port = set.port
    <3>1. set' = [set EXCEPT !.host = value] BY <2>1 DEF Give
    <3>. HIDE DEF value
    <3>. QED BY <1>2, <2>2, <3>1 DEF Settings
  <2>. QED BY <1>1, <1>3, <1>5, <1>6, <2>1, <2>3 DEF Give, input
<1>7. CASE o = "-p" /\ four
  <2>1. Give("-p", [set EXCEPT !.port = Number[value]]) BY <1>4, <1>5, <1>7
  <2>2. Atoi(value) = Number[value] /\ Number[value] \in Nat
    <3>1. value \in DOMAIN Number BY <1>7
    <3>. QED BY <3>1, StartupAssumption DEF Atoi
  <2>3. set' \in Settings /\ set'.port = Atoi(value) /\ set'.host = set.host
    <3>1. set' = [set EXCEPT !.port = Atoi(value)] BY <2>1, <2>2 DEF Give
    <3>2. Atoi(value) \in Nat BY <2>2
    <3>. HIDE DEF value
    <3>. QED BY <1>2, <3>1, <3>2 DEF Settings
  <2>. QED BY <1>1, <1>3, <1>5, <1>7, <2>1, <2>3 DEF Give, input
<1>8. CASE o \in Commands /\ FitsLine(o)
  <2>1. WindowsClientCommand(o) BY <1>4, <1>5, <1>8
  <2>2. PICK n \in 0 .. Len(line) - i : \E kept \in KeptOf(n) :
          set' = [set EXCEPT !.command = o, !.args = Joined(kept)]
    BY <2>1 DEF WindowsClientCommand
  <2>3. PICK kept \in KeptOf(n) : set' = [set EXCEPT !.command = o, !.args = Joined(kept)]
    BY <2>2
  <2>4. n \in Nat
    <3>1. Len(line) \in Nat BY DEF FixedInv
    <3>. QED BY <1>1, <3>1, SMT
  <2>5. Joined(kept) \in Seq(STRING) /\ Joined(kept)[1] = line[i]
    BY <1>1, <2>4, JoinedBegins
  <2>6. /\ set' \in Settings /\ set'.command = o /\ set'.args = Joined(kept)
        /\ set'.host = set.host /\ set'.port = set.port
    BY <1>2, <1>8, <2>3, <2>5 DEF Settings
  <2>7. pc' = "ready" /\ UNCHANGED <<input, flags, i, at>> BY <2>1 DEF WindowsClientCommand
  <2>. QED BY <1>1, <1>3, <1>5, <1>8, <2>5, <2>6, <2>7
<1>9. CASE ~(o = "-h" /\ value \in Hosts) /\ ~(o = "-p" /\ four) /\ ~(o \in Commands /\ FitsLine(o))
  <2>1. Exit BY <1>4, <1>9
  <2>. QED BY <1>1, <1>2, <2>1 DEF Exit, input
<1>. QED BY <1>6, <1>7, <1>8, <1>9

\* Behind the last argument the client starts or gives up.
LEMMA WindowsClientEndEffect ==
  ASSUME FixedInv, TypedInv, WindowsClientEnd
  PROVE  /\ program = <<Client, "windows">> /\ pc = "options" /\ UNCHANGED <<input, flags, i, at, set>>
         /\ pc' = "exited" \/ (pc' = "ready" /\ Len(line) >= 6 /\ i > Len(line))
<1>1. Len(line) \in Nat BY DEF FixedInv
<1>2. ~(Len(line) < 6) => Len(line) >= 6 BY <1>1, SMT
<1>. QED BY <1>2 DEF WindowsClientEnd, Reads, input

\* The Windows client's variables keep their types.
LEMMA TypesWindowsClient ==
  ASSUME FixedInv, TypedInv, WindowsClient
  PROVE  TypedInv' /\ RangeInv'
<1>1. Len(line) \in Nat BY DEF FixedInv
<1>2. i \in 1 .. Len(line) => i + 1 \in 1 .. Len(line) + 1 BY <1>1, SMT
<1>3. /\ program = <<Client, "windows">> /\ UNCHANGED <<input, at>> /\ set' \in Settings
      /\ flags' \in [Letters -> 0 .. 2] /\ i' \in 1 .. Len(line) + 1
      /\ pc' \in {"options", "ready", "exited"}
  <2>1. CASE WindowsClientOption BY <1>2, <2>1, WindowsClientOptionEffect DEF TypedInv
  <2>2. CASE WindowsClientValue
    <3>1. \A o \in {"-h", "-p"} : [flags EXCEPT ![o] = 2] \in [Letters -> 0 .. 2]
      BY SMT DEF TypedInv, Letters
    <3>. QED BY <1>2, <2>2, <3>1, WindowsClientValueEffect DEF TypedInv
  <2>3. CASE WindowsClientEnd BY <2>3, WindowsClientEndEffect DEF TypedInv
  <2>. QED BY <2>1, <2>2, <2>3 DEF WindowsClient
<1>4. Settings' = Settings BY <1>3 DEF Settings, Words, input
<1>5. program # <<Server, "linux">> /\ program[2] # "linux" BY <1>3 DEF Server, Client
<1>. QED BY <1>3, <1>4, <1>5 DEF TypedInv, RangeInv, input

-----------------------------------------------------------------------------
(* The settings of the Windows client.                                      *)

\* The address that argument k, -h or -p, gives.
AddressSet(k) ==
  IF line[k] = "-h" THEN set.host = line[k + 1] ELSE set.port = Atoi(line[k + 1])

\* In a command line of the usual form options and values alternate, and at a value the
\* option before it is the only one that waits.
WindowsClientInv ==
  program = <<Client, "windows">> /\ ClientForm =>
    /\ i <= 6
    /\ \A o \in Letters : flags[o] = 1 <=> i \in {2, 4, 6} /\ o = line[i - 1]
    /\ i > 2 => AddressSet(1)
    /\ i > 4 => AddressSet(3)
    /\ pc = "ready" => i = 6 /\ set.command = line[5] /\ set.args[1] = line[6]

\* No option waits at the start.
LEMMA WindowsClientInvInit == Init => WindowsClientInv
<1>. SUFFICES ASSUME Init PROVE WindowsClientInv OBVIOUS
<1>1. i = 1 /\ pc = "options" /\ \A o \in Letters : flags[o] = 0 BY DEF Init
<1>2. i <= 6 /\ ~(i > 2) /\ ~(i > 4) /\ i \notin {2, 4, 6} BY <1>1, SMT
<1>. QED BY <1>1, <1>2 DEF WindowsClientInv

\* What stands where in the usual form.
LEMMA FormWords ==
  ASSUME ClientForm
  PROVE  /\ {line[1], line[3]} = {"-h", "-p"} /\ line[1] # line[3] /\ line[5] \in Commands
         /\ \A k \in {1, 3, 5} : line[k] \in Dashed /\ line[k] \in Letters /\ line[k] \in Commands \cup {"-p", "-h"}
         /\ \A k \in {2, 4, 6} : line[k] \notin Dashed
         /\ "-h" \notin Commands /\ "-p" \notin Commands
<1>1. {line[1], line[3]} = {"-h", "-p"} /\ line[5] \in Commands BY DEF ClientForm
<1>2. Commands \cup {"-p", "-h"} \subseteq Letters /\ Letters \subseteq Dashed BY DEF Commands, Letters, Dashed
<1>3. "-h" \notin Commands /\ "-p" \notin Commands BY DEF Commands
<1>4. line[1] # line[3] /\ line[1] \in {"-h", "-p"} /\ line[3] \in {"-h", "-p"}
  <2>1. "-h" # "-p" OBVIOUS
  <2>. QED BY <1>1, <2>1
<1>5. \A k \in {2, 4, 6} : line[k] \notin Dashed BY DEF ClientForm
<1>6. \A k \in {1, 3, 5} : line[k] \in Commands \cup {"-p", "-h"} BY <1>1, <1>4
<1>. QED BY <1>1, <1>2, <1>3, <1>4, <1>5, <1>6

\* Its loop keeps the server and the command where they were written.
LEMMA WindowsClientKeeps ==
  ASSUME FixedInv, TypedInv, WindowsClientInv, WindowsClient
  PROVE  WindowsClientInv'
<1>1. program = <<Client, "windows">> /\ pc = "options" /\ UNCHANGED <<program, line>> /\ i \in Nat
  BY WindowsClientOptionEffect, WindowsClientValueEffect, WindowsClientEndEffect
  DEF WindowsClient, input, TypedInv
<1>2. ClientForm' = ClientForm BY <1>1 DEF ClientForm
<1>. SUFFICES ASSUME ClientForm
              PROVE  /\ i' <= 6
                     /\ \A o \in Letters : flags'[o] = 1 <=> i' \in {2, 4, 6} /\ o = line[i' - 1]
                     /\ i' > 2 => AddressSet(1)'
                     /\ i' > 4 => AddressSet(3)'
                     /\ pc' = "ready" => i' = 6 /\ set'.command = line[5] /\ set'.args[1] = line[6]
  BY <1>1, <1>2 DEF WindowsClientInv, Letters
<1>3. /\ i <= 6
      /\ \A o \in Letters : flags[o] = 1 <=> i \in {2, 4, 6} /\ o = line[i - 1]
      /\ i > 2 => AddressSet(1)
      /\ i > 4 => AddressSet(3)
  BY <1>1 DEF WindowsClientInv
<1>4. ASSUME set' = set PROVE AddressSet(1)' = AddressSet(1) /\ AddressSet(3)' = AddressSet(3)
  BY <1>1, <1>4 DEF AddressSet
<1>5. CASE WindowsClientOption
  <2>1. i \in 1 .. Len(line) /\ line[i] \in Dashed /\ set' = set BY <1>5, WindowsClientOptionEffect
  <2>2. i \in {1, 3, 5}
    <3>1. i \in {1, 2, 3, 4, 5, 6} BY <1>3, <2>1, SMT
    <3>. QED BY <2>1, <3>1, FormWords
  <2>3. i \notin {2, 4, 6} BY <2>2, SMT
  <2>4. CASE pc' = "exited" /\ UNCHANGED <<flags, i>> BY <1>3, <1>4, <2>1, <2>4
  <2>5. CASE ~(pc' = "exited" /\ UNCHANGED <<flags, i>>)
    <3>1. /\ pc' = pc /\ i' = i + 1
          /\ flags'[line[i]] = 1 /\ \A o \in Letters : o # line[i] => flags'[o] = flags[o]
      BY <1>5, <2>2, <2>5, FormWords, WindowsClientOptionEffect
    <3>2. i' \in {2, 4, 6} /\ i' - 1 = i /\ i' <= 6 BY <2>2, <3>1, SMT
    <3>3. \A o \in Letters : flags'[o] = 1 <=> i' \in {2, 4, 6} /\ o = line[i' - 1]
      BY <1>3, <2>3, <3>1, <3>2
    <3>4. (i' > 2 => i > 2) /\ (i' > 4 => i > 4) BY <2>2, <3>1, SMT
    <3>. QED BY <1>1, <1>3, <1>4, <2>1, <3>1, <3>2, <3>3, <3>4
  <2>. QED BY <2>4, <2>5
<1>6. CASE WindowsClientValue
  <2>1. i \in 1 .. Len(line) /\ line[i] \notin Dashed BY <1>6, WindowsClientValueEffect
  <2>2. i \in {2, 4, 6}
    <3>1. i \in {1, 2, 3, 4, 5, 6} BY <1>3, <2>1, SMT
    <3>. QED BY <2>1, <3>1, FormWords
  <2>3. CASE pc' = "exited" /\ UNCHANGED <<flags, i, set>> BY <1>3, <1>4, <2>3
  <2>4. CASE \E o \in {"-h", "-p"} :
               /\ flags[o] = 1 /\ pc' = pc /\ i' = i + 1 /\ flags' = [flags EXCEPT ![o] = 2]
               /\ set'.host = IF o = "-h" THEN line[i] ELSE set.host
               /\ set'.port = IF o = "-p" THEN Atoi(line[i]) ELSE set.port
    <3>1. PICK o \in {"-h", "-p"} :
               /\ flags[o] = 1 /\ pc' = pc /\ i' = i + 1 /\ flags' = [flags EXCEPT ![o] = 2]
               /\ set'.host = IF o = "-h" THEN line[i] ELSE set.host
               /\ set'.port = IF o = "-p" THEN Atoi(line[i]) ELSE set.port
      BY <2>4
    <3>2. o \in Letters BY DEF Letters
    <3>3. o = line[i - 1] BY <1>3, <3>1, <3>2
    <3>4. i \in {2, 4}
      <4>1. i = 6 => line[i - 1] = line[5] BY SMT
      <4>. QED BY <2>2, <3>3, <4>1, FormWords
    <3>5. i' <= 6 /\ i' \notin {2, 4, 6} BY <3>1, <3>4, SMT
    <3>6. \A p \in Letters : flags'[p] # 1
      <4>1. flags \in [Letters -> 0 .. 2] BY DEF TypedInv
      <4>2. flags'[o] = 2 /\ \A p \in Letters : p # o => flags'[p] = flags[p] BY <3>1, <3>2, <4>1
      <4>. QED BY <1>3, <3>3, <4>2
    <3>7. CASE i = 2
      <4>1. o = line[1] /\ ~(i' > 4) BY <3>1, <3>3, <3>7, SMT
      <4>2. AddressSet(1)' BY <1>1, <3>1, <3>7, <4>1, SMT DEF AddressSet
      <4>. QED BY <1>1, <3>1, <3>5, <3>6, <4>1, <4>2
    <3>8. CASE i = 4
      <4>1. o = line[3] /\ i > 2 BY <3>3, <3>8, SMT
      <4>2. AddressSet(3)' BY <1>1, <3>1, <3>8, <4>1, SMT DEF AddressSet
      <4>3. line[1] # o /\ line[1] \in {"-h", "-p"} BY <4>1, FormWords
      <4>4. AddressSet(1) BY <1>3, <4>1
      <4>5. AddressSet(1)'
        <5>1. Atoi(line[2])' = Atoi(line[2]) BY <1>1 DEF Atoi
        <5>. QED BY <1>1, <3>1, <4>3, <4>4, <5>1 DEF AddressSet
      <4>. QED BY <1>1, <3>1, <3>5, <3>6, <4>2, <4>5
    <3>. QED BY <3>4, <3>7, <3>8
  <2>5. CASE \E o \in Commands :
               /\ flags[o] = 1 /\ pc' = "ready" /\ UNCHANGED <<flags, i>>
               /\ set'.host = set.host /\ set'.port = set.port
               /\ set'.command = o /\ set'.args[1] = line[i]
    <3>1. PICK o \in Commands :
               /\ flags[o] = 1 /\ pc' = "ready" /\ UNCHANGED <<flags, i>>
               /\ set'.host = set.host /\ set'.port = set.port
               /\ set'.command = o /\ set'.args[1] = line[i]
      BY <2>5
    <3>2. o \in Letters BY DEF Letters, Commands
    <3>3. o = line[i - 1] BY <1>3, <3>1, <3>2
    <3>4. i = 6 /\ line[i - 1] = line[5]
      <4>1. i - 1 \in {1, 3, 5} /\ (i - 1 = 5 => i = 6) BY <2>2, SMT
      <4>2. line[1] \notin Commands /\ line[3] \notin Commands BY FormWords
      <4>. QED BY <3>3, <4>1, <4>2
    <3>5. AddressSet(1)' = AddressSet(1) /\ AddressSet(3)' = AddressSet(3)
      BY <1>1, <3>1 DEF AddressSet
    <3>. QED BY <1>3, <3>1, <3>3, <3>4, <3>5
  <2>. QED BY <1>6, <2>3, <2>4, <2>5, WindowsClientValueEffect
<1>7. CASE WindowsClientEnd
  <2>1. UNCHANGED <<flags, i, set>> /\ (pc' = "exited" \/ (Len(line) >= 6 /\ i > Len(line)))
    BY <1>7, WindowsClientEndEffect DEF input
  <2>2. pc' # "ready"
    <3>1. Len(line) \in Nat BY DEF FixedInv
    <3>2. ~(Len(line) >= 6 /\ i > Len(line)) BY <1>1, <1>3, <3>1, SMT
    <3>. QED BY <2>1, <3>2
  <2>. QED BY <1>3, <1>4, <2>1, <2>2
<1>. QED BY <1>5, <1>6, <1>7 DEF WindowsClient

\* A Windows client that starts does what its user wrote.
LEMMA WindowsClientAsAsked ==
  ASSUME FixedInv, WindowsClientInv, program = <<Client, "windows">>, pc = "ready", ClientForm
  PROVE  ClientAsAsked
<1>1. set.command = line[5] /\ set.args[1] = line[6] /\ AddressSet(1) /\ AddressSet(3)
  <2>1. i = 6 BY DEF WindowsClientInv
  <2>2. i > 2 /\ i > 4 BY <2>1, SMT
  <2>. QED BY <2>1, <2>2 DEF WindowsClientInv
<1>2. {line[1], line[3]} = {"-h", "-p"} BY FormWords
<1>3. set.port \in Given("-p")
  <2>1. 1 \in 1 .. Len(line) - 1 /\ 3 \in 1 .. Len(line) - 1
    <3>1. Len(line) \in Nat /\ Len(line) >= 6 BY DEF FixedInv, ClientForm
    <3>. QED BY <3>1, SMT
  <2>2. \A k \in {1, 3} : line[k] = "-p" => set.port = Atoi(line[k + 1])
    BY <1>1 DEF AddressSet
  <2>3. PICK k \in {1, 3} : line[k] = "-p" BY <1>2
  <2>. QED BY <2>1, <2>2, <2>3 DEF Given
<1>4. set.host \in {line[2], line[4]}
  <2>1. 1 + 1 = 2 /\ 3 + 1 = 4 BY SMT
  <2>. QED BY <1>1, <1>2, <2>1 DEF AddressSet
<1>5. program[2] # "linux" OBVIOUS
<1>. QED BY <1>1, <1>3, <1>4, <1>5 DEF ClientAsAsked

-----------------------------------------------------------------------------
(* Together.                                                                *)

StartupInv ==
  /\ FixedInv /\ TypedInv /\ RangeInv
  /\ LinuxServerInv /\ WindowsServerInv /\ LinuxClientInv /\ WindowsClientInv

\* A server keeps the whole invariant: the conjuncts of the other programs are not about it.
LEMMA ServersKeep ==
  ASSUME StartupInv, LinuxServer \/ WindowsServer
  PROVE  StartupInv'
<1>1. /\ FixedInv /\ TypedInv /\ RangeInv /\ LinuxServerInv /\ WindowsServerInv
  BY DEF StartupInv
<1>2. CASE LinuxServer
  <2>1. program = <<Server, "linux">> /\ UNCHANGED input
    BY <1>1, <1>2, LinuxServerArgumentEffect, LinuxServerConfigLineEffect, LinuxServerEndsEffect
    DEF LinuxServer
  <2>2. FixedInv' BY <1>1, <2>1 DEF FixedInv, input
  <2>3. TypedInv' /\ RangeInv' BY <1>1, <1>2, TypesLinuxServer
  <2>4. LinuxServerInv' BY <1>1, <1>2, LinuxServerKeeps
  <2>5. WindowsServerInv' /\ LinuxClientInv' /\ WindowsClientInv'
    BY <2>1 DEF WindowsServerInv, LinuxClientInv, WindowsClientInv, input, Server, Client
  <2>. QED BY <2>2, <2>3, <2>4, <2>5 DEF StartupInv
<1>3. CASE WindowsServer
  <2>1. program = <<Server, "windows">> /\ UNCHANGED input
    BY <1>1, <1>3, WindowsServerOptionEffect, WindowsServerValueEffect, WindowsServerOptionsEndEffect,
       WindowsServerConfigLineEffect, WindowsServerEndsEffect
    DEF WindowsServer
  <2>2. FixedInv' BY <1>1, <2>1 DEF FixedInv, input
  <2>3. TypedInv' /\ RangeInv' BY <1>1, <1>3, TypesWindowsServer
  <2>4. WindowsServerInv'
    <3>1. CASE Paired /\ Sane
      BY <1>1, <1>3, <3>1, WindowsOptionKeeps, WindowsValueKeeps, WindowsOptionsEndKeeps,
         WindowsConfigLineKeeps, WindowsEndsKeep
      DEF WindowsServer
    <3>2. CASE ~(Paired /\ Sane)
      <4>1. Paired' = Paired BY <2>1 DEF Paired, input
      <4>2. Sane' = Sane BY <2>1 DEF Sane, Given, FileGives, FileIsRead, input
      <4>. QED BY <3>2, <4>1, <4>2 DEF WindowsServerInv
    <3>. QED BY <3>1, <3>2
  <2>5. LinuxServerInv' /\ LinuxClientInv' /\ WindowsClientInv'
    BY <2>1 DEF LinuxServerInv, LinuxClientInv, WindowsClientInv, input, Server, Client
  <2>. QED BY <2>2, <2>3, <2>4, <2>5 DEF StartupInv
<1>. QED BY <1>2, <1>3

\* So do the clients.
LEMMA ClientsKeep ==
  ASSUME StartupInv, LinuxClient \/ WindowsClient
  PROVE  StartupInv'
<1>1. /\ FixedInv /\ TypedInv /\ RangeInv /\ LinuxClientInv /\ WindowsClientInv
  BY DEF StartupInv
<1>2. CASE LinuxClient
  <2>1. program = <<Client, "linux">> /\ UNCHANGED input
    BY <1>1, <1>2, LinuxClientArgumentEffect, LinuxClientReadyEffect DEF LinuxClient, input
  <2>2. FixedInv' BY <1>1, <2>1 DEF FixedInv, input
  <2>3. TypedInv' /\ RangeInv' BY <1>1, <1>2, TypesLinuxClient
  <2>4. LinuxClientInv' BY <1>1, <1>2, LinuxClientKeeps
  <2>5. LinuxServerInv' /\ WindowsServerInv' /\ WindowsClientInv'
    BY <2>1 DEF LinuxServerInv, WindowsServerInv, WindowsClientInv, input, Server, Client
  <2>. QED BY <2>2, <2>3, <2>4, <2>5 DEF StartupInv
<1>3. CASE WindowsClient
  <2>1. program = <<Client, "windows">> /\ UNCHANGED input
    BY <1>1, <1>3, WindowsClientOptionEffect, WindowsClientValueEffect, WindowsClientEndEffect
    DEF WindowsClient
  <2>2. FixedInv' BY <1>1, <2>1 DEF FixedInv, input
  <2>3. TypedInv' /\ RangeInv' BY <1>1, <1>3, TypesWindowsClient
  <2>4. WindowsClientInv' BY <1>1, <1>3, WindowsClientKeeps
  <2>5. LinuxServerInv' /\ WindowsServerInv' /\ LinuxClientInv'
    BY <2>1 DEF LinuxServerInv, WindowsServerInv, LinuxClientInv, input, Server, Client
  <2>. QED BY <2>2, <2>3, <2>4, <2>5 DEF StartupInv
<1>. QED BY <1>2, <1>3

\* A step that changes nothing keeps it.
LEMMA StutteringKeeps == ASSUME StartupInv, UNCHANGED vars PROVE StartupInv'
<1>1. UNCHANGED <<program, line, file, tmp, flags, i, at, set, pc>> BY DEF vars, input
<1>2. FixedInv' /\ TypedInv' /\ RangeInv'
  BY <1>1 DEF StartupInv, FixedInv, TypedInv, RangeInv, Settings, Words, Complete
<1>3. LinuxServerInv'
  <2>1. /\ Given("-p")' = Given("-p") /\ Given("-n")' = Given("-n") /\ FileIsRead' = FileIsRead
        /\ ReadBefore' = ReadBefore /\ Words(1)' = Words(1)
        /\ GaveBefore("-p", MAX_PORT_NUMBER)' = GaveBefore("-p", MAX_PORT_NUMBER)
        /\ GaveBefore("-n", MAX_THREADS_NUM)' = GaveBefore("-n", MAX_THREADS_NUM)
    BY <1>1 DEF Given, FileIsRead, ReadBefore, GaveBefore, Words, Atoi
  <2>2. \A key : FileGives(key)' = FileGives(key) BY <1>1, <2>1 DEF FileGives
  <2>. QED BY <1>1, <2>1, <2>2 DEF StartupInv, LinuxServerInv, LinuxNumber, LinuxToken
<1>4. WindowsServerInv'
  BY <1>1 DEF StartupInv, WindowsServerInv, WindowsOptions, WindowsNumber, WindowsToken, WindowsFile,
              Paired, Sane, Given, FileGives, FileIsRead, Atoi
<1>5. LinuxClientInv' /\ WindowsClientInv'
  BY <1>1 DEF StartupInv, LinuxClientInv, WindowsClientInv, AddressSet, ClientForm, Complete, Given, Atoi
<1>. QED BY <1>2, <1>3, <1>4, <1>5 DEF StartupInv

\* The loops over argv and over the lines of the file: at each argument and each line the
\* settings are what the words and the lines before it make of them.
THEOREM StartupInvariant == Spec => []StartupInv
<1>1. Init => StartupInv
  BY TypesInit, LinuxServerInvInit, WindowsServerInvInit, LinuxClientInvInit, WindowsClientInvInit
  DEF StartupInv
<1>2. StartupInv /\ [Next]_vars => StartupInv'
  BY ServersKeep, ClientsKeep, StutteringKeeps DEF Next
<1>. QED BY <1>1, <1>2, PTL DEF Spec

\* setPortNumber, setThreadsNumber and the checks behind getArguments: the variables keep
\* their types, a Linux program that starts has a port and a number of threads in range,
\* and the client a server, a port, and a command with its arguments.
THEOREM TypeCorrect == Spec => []TypeOK
<1>1. StartupInv => TypeOK
  <2>. SUFFICES ASSUME StartupInv PROVE TypeOK OBVIOUS
  <2>1. FixedInv /\ TypedInv /\ RangeInv BY DEF StartupInv
  <2>2. DOMAIN set = DOMAIN Default BY <2>1 DEF TypedInv, Settings, Default
  <2>3. ASSUME pc = "ready", program[2] = "linux"
        PROVE  /\ set.port \in 1 .. MAX_PORT_NUMBER /\ set.threads \in 1 .. MAX_THREADS_NUM
               /\ program[1] = Client => Complete /\ set.host \in Hosts /\ set.args # <<>>
    BY <2>1, <2>3 DEF RangeInv, Complete
  <2>. QED BY <2>1, <2>2, <2>3 DEF TypeOK, FixedInv, TypedInv
<1>. QED BY <1>1, StartupInvariant, PTL

\* getArguments and getParametersFromConfig of the servers: a server starts with what its
\* command line says, wherever -c stands in it, and takes from the file only what the
\* command line leaves open.
THEOREM ServerAlwaysAsAsked == Spec => []ServerAsAsked
<1>1. StartupInv => ServerAsAsked
  <2>. SUFFICES ASSUME StartupInv, program[1] = Server, pc = "ready", Paired,
                       program[2] = "windows" => Sane
                PROVE  ServerAsAsked
    BY DEF ServerAsAsked
  <2>1. FixedInv /\ TypedInv /\ LinuxServerInv /\ WindowsServerInv BY DEF StartupInv
  <2>2. program = <<Server, "linux">> \/ (program = <<Server, "windows">> /\ Sane)
    BY <2>1, FourPrograms DEF FixedInv
  <2>. QED BY <2>1, <2>2, LinuxServerAsAsked, WindowsServerAsAsked
<1>. QED BY <1>1, StartupInvariant, PTL

\* getArguments and setCommand of the clients: a client that starts addresses the server,
\* and asks for what, its user wrote.
THEOREM ClientAlwaysAsAsked == Spec => []ClientAsAsked
<1>1. StartupInv => ClientAsAsked
  <2>. SUFFICES ASSUME StartupInv, program[1] = Client, pc = "ready", ClientForm
                PROVE  ClientAsAsked
    BY DEF ClientAsAsked
  <2>1. FixedInv /\ TypedInv /\ LinuxClientInv /\ WindowsClientInv BY DEF StartupInv
  <2>2. program = <<Client, "linux">> \/ program = <<Client, "windows">>
    BY <2>1, FourPrograms DEF FixedInv
  <2>. QED BY <2>1, <2>2, LinuxClientAsAsked, WindowsClientAsAsked
<1>. QED BY <1>1, StartupInvariant, PTL
================================================================================
