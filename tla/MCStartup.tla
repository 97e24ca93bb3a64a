------------------------------ MODULE MCStartup ------------------------------
(* Servers with up to three options, each well given or not, and files of up *)
(* to three lines; clients with the server before and behind the command.   *)
EXTENDS Startup, TLC

AllPrograms == {Server, Client} \X {"linux", "windows"}

Numerals == "8888" :> 8888 @@ "9000" :> 9000 @@ "70000" :> 70000 @@ "12000" :> 12000
            @@ "10" :> 10 @@ "20" :> 20 @@ "0" :> 0
Addresses == {"10.0.0.1"}
Logs == {"x.log", "no/x.log"}
Paths == {"conf", "x.log", "src"}

Items == {<<"-p", "9000">>, <<"-p", "8888">>, <<"-p", "70000">>, <<"-n", "20">>, <<"-n", "0">>,
          <<"-c", "conf">>, <<"-c", "none">>, <<"-s">>, <<"-l", "x.log">>, <<"-l", "src">>,
          <<"-l", "no/x.log">>, <<"-p">>, <<"-x">>, <<"20">>}
Some == {<<"-p", "9000">>, <<"-p", "8888">>, <<"-n", "20">>, <<"-c", "conf">>, <<"-s">>,
         <<"-l", "x.log">>, <<"-n">>}
ServerLines ==
  {<<>>} \cup Items \cup {a \o b : a, b \in Items}
  \cup {a \o b \o c : a, b, c \in Some}

Line(k, v) == [key |-> k, value |-> v]
File(lines, crlf) == [lines |-> lines, crlf |-> crlf]
SomeFiles ==
  {File(<<>>, FALSE),
   File(<<Line("PORT_NUMBER", 2000)>>, FALSE),
   File(<<Line("PORT_NUMBER", 2000), Line("THREADS_NUMBER", 5)>>, FALSE),
   File(<<Line("STDOUT_TOKEN", 1), Line("THREADS_NUMBER", 5), Line("PORT_NUMBER", 2000)>>, FALSE),
   File(<<Line("STDOUT_TOKEN", 0), Line("THREADS_NUMBER", 0)>>, FALSE),
   File(<<Line("PORT_NUMBER", 70000), Line("STDOUT_TOKEN", 2)>>, FALSE),
   File(<<Line("PORT_NUMBER", 2000), Line("PORT_NUMBER", 3000)>>, FALSE),
   File(<<Line("PORT_NUMBER", 2000)>>, TRUE),
   File(<<Line("PORT_NUMBER", 2000), Line("", NoValue)>>, FALSE),
   File(<<Line("OTHER", 3), Line("PORT_NUMBER", 2000)>>, FALSE)}

Towards == {<<"-h", "10.0.0.1", "-p", "9000">>, <<"-p", "8888", "-h", "10.0.0.1">>,
            <<"-h", "10.0.0.1", "-p", "12000">>, <<"-h", "10.0.0.1", "-p", "70000">>,
            <<"-h", "name", "-p", "9000">>, <<"-h", "-p", "10.0.0.1", "9000">>,
            <<"-p", "9000">>, <<"-p", "9000", "-x", "-s">>, <<"-h", "10.0.0.1", "-long", "src">>}
Asks == {<<c>> \o w : c \in Commands,
         w \in {<<>>, <<"src">>, <<"src", "dst">>, <<"new", "dst">>, <<"src", "-x">>,
                <<"src", "-p", "20">>, <<"src", "-h", "20">>, <<"a", "b", "c", "d">>,
                <<"-x", "src">>, <<"src", "-l", "dst">>}}
ClientLines == {<<>>} \cup Towards \cup {t \o a : t \in Towards, a \in Asks}
               \cup {a \o t : t \in Towards, a \in Asks}

SomeLines == [who \in {Server, Client} |-> IF who = Server THEN ServerLines ELSE ClientLines]
=============================================================================
