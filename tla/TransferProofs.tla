---------------------------- MODULE TransferProofs ----------------------------
(***************************************************************************)
(* What a transfer guarantees for files, buffers and pieces of every size  *)
(* and every mishap.  The inductive invariant keeps account of the bytes:  *)
(* what is due at the receiver covers what is in flight and what is still  *)
(* to be sent, and what a Linux sender has sent and the receiver has taken *)
(* out of the stream is saved, until a write to the destination falls      *)
(* short and the receiver leaves its loop.                                 *)
(***************************************************************************)
EXTENDS Transfer, SequenceTheorems, FiniteSetTheorems, TLAPS

\* The units of a file that an end of this platform may send.
FileUnits(os) == IF os = "linux" THEN {Byte} ELSE {Byte, Stale}

\* The bytes that a size announces.
Rest(n) == IF n = Missing THEN 0 ELSE n

\* A write to the destination took less than was read.
FellShort == "full" \in mishaps

FixedInv ==
  /\ <<client, server>> \in Platforms /\ client \in OS /\ server \in OS
  /\ request \in Requests /\ request \in {"DOWNLOAD", "UPLOAD"}
  /\ size \in Sizes[request] /\ size \in Nat \cup {Missing}

TypedInv ==
  /\ toServer \in Seq(Unit) /\ toClient \in Seq(Unit)
  /\ disk \in Nat /\ cleft \in Nat /\ sleft \in Nat \cup {Missing} /\ saved \in Nat
  /\ cpc \in ClientPC /\ spc \in ServerPC /\ reset \in BOOLEAN /\ mishaps \subseteq Kinds
  /\ acked \subseteq {"client", "server"}

-----------------------------------------------------------------------------
(* The log.                                                                 *)

LogInv ==
  /\ heard \in {<<>>, <<"DOWNLOAD">>, <<"SIZE">>, <<"SIZE", "UPLOAD">>}
  /\ spc = "command" => heard = <<>>
  /\ spc \in {"300", "size", "400", "upload"} => heard = <<"SIZE">>
  /\ spc \in {"send", "wait"} => heard = <<"SIZE", "UPLOAD">>
  /\ spc \in {"receive", "ack"} => heard = <<"DOWNLOAD">>
  /\ spc = "log" => heard # <<>> /\ server = "linux"
  /\ log = IF server = "linux" /\ spc = "closed" THEN heard
           ELSE IF server = "linux"
                THEN IF heard = <<"SIZE", "UPLOAD">> THEN <<"SIZE">> ELSE <<>>
                ELSE IF heard = <<"SIZE", "UPLOAD">> THEN <<"SIZE">> ELSE heard

-----------------------------------------------------------------------------
(* DOWNLOAD: the client sends the file.                                     *)

\* The command and what has been sent of the file lie in the stream, or nothing.
CommandInFlight ==
  \/ toServer = <<>> /\ cpc \in {"request", "ended", "gone"}
  \/ /\ Len(toServer) > 0 /\ toServer[1] = "DOWNLOAD" /\ cpc # "request"
     /\ \A i \in 2 .. Len(toServer) : toServer[i] \in FileUnits(client)
     /\ Len(toServer) - 1 + cleft <= Rest(size)

Download ==
  /\ cpc \in {"request", "send", "wait", "ended", "gone"}
  /\ spc \in {"command", "receive", "ack", "log", "closed", "killed"}
  /\ cpc = "request" => spc = "command" /\ toServer = <<>> /\ cleft = 0
  /\ cpc \in {"send", "wait"} => size # Missing
  /\ spc = "command" => CommandInFlight /\ saved = 0
  /\ spc = "receive" => /\ toServer \in Seq(FileUnits(client)) 
                        /\ Len(toServer) + cleft <= Rest(sleft)
                        /\ client = "linux" => saved + sleft = size
                        /\ sleft = Missing => size = Missing
  /\ spc = "ack" /\ client = "linux" /\ size # Missing => saved = size \/ FellShort
  /\ toClient \in Seq({"200"}) /\ (acked # {} => client = "linux")
  /\ toClient # <<>> \/ acked # {} =>
       /\ spc \notin {"command", "receive"}
       /\ client = "linux" => saved = size \/ FellShort

-----------------------------------------------------------------------------
(* UPLOAD: the server sends the file.                                       *)

ServerDone == spc \in {"log", "closed", "exited", "killed"}

\* The two ends in step, as long as the client lives.
Stands ==
  /\ cpc = "request" => spc = "command" /\ toServer = <<>> /\ toClient = <<>>
  /\ cpc = "code" =>
       \/ spc = "command" /\ toServer = <<"SIZE">> /\ toClient = <<>>
       \/ spc \in {"300", "400"} /\ toServer = <<>> /\ toClient = <<>>
       \/ spc = "size" /\ toServer = <<>> /\ toClient = <<"300">>
       \/ spc = "upload" /\ toServer = <<>> /\ toClient = <<"300", "value">>
       \/ spc \in {"log", "closed"} /\ toServer = <<>> /\ toClient = <<"400">>
  /\ cpc \in {"open", "value"} =>
       \/ spc = "size" /\ toServer = <<>> /\ toClient = <<>>
       \/ spc = "upload" /\ toServer = <<>> /\ toClient = <<"value">>
  /\ cpc = "upload" => spc = "upload" /\ toServer = <<>> /\ toClient = <<>>
  /\ cpc \in {"receive", "ack"} =>
       \/ /\ spc = "upload" /\ toServer = <<"UPLOAD">>
          /\ cpc = "receive" => toClient = <<>> /\ cleft = size
       \/ (spc \in {"send", "wait"} \/ ServerDone) /\ toServer = <<>>

\* What is due at the client covers what is in flight and what is still to be sent.
Flow ==
  /\ cpc \in {"open", "value", "upload", "receive"} => size # Missing
  /\ cpc \in {"request", "code", "open", "value", "upload"} => saved = 0
  /\ cpc \in {"request", "code", "open", "value", "upload"} => sleft = 0
  /\ cpc = "upload" => cleft = size
  /\ cpc = "receive" => /\ toClient \in Seq(FileUnits(server)) /\ Len(toClient) + sleft <= cleft
                        /\ cleft <= size /\ (server = "linux" => saved + cleft = size)
  /\ cpc = "ack" /\ ~ServerClosed /\ server = "linux" => saved = size \/ FellShort

Upload ==
  /\ cpc \in ClientPC \ {"send", "wait"} /\ spc \in ServerPC \ {"receive", "ack"}
  /\ toServer \in {<<>>, <<"SIZE">>, <<"UPLOAD">>, <<"UPLOAD", "200">>, <<"200">>}
  /\ spc = "command" => toServer \in {<<>>, <<"SIZE">>}
  /\ spc \in {"300", "size", "400"} => toServer = <<>>
  /\ spc = "upload" => toServer \in {<<>>, <<"UPLOAD">>, <<"UPLOAD", "200">>}
  /\ spc \in {"send", "wait"} => toServer \in {<<>>, <<"200">>}
  /\ spc \in {"300", "size", "upload", "send", "wait"} => size # Missing
  /\ sleft \in Nat
  /\ Stands /\ Flow
  /\ (acked # {} => server = "linux")
  /\ toServer \in {<<"UPLOAD", "200">>, <<"200">>} \/ acked # {} =>
       ClientClosed /\ (server = "linux" => saved = size \/ FellShort)

TransferInv ==
  /\ FixedInv /\ TypedInv
  /\ request = "DOWNLOAD" => Download
  /\ request = "UPLOAD" => Upload
-----------------------------------------------------------------------------
(* Pieces of streams.                                                       *)

\* The lesser of two numbers.
LEMMA AtMostIsLess ==
  ASSUME NEW n \in Int, NEW max \in Int
  PROVE  /\ AtMost(n, max) \in Int /\ AtMost(n, max) <= n /\ AtMost(n, max) <= max
         /\ n \in Nat /\ max \in Nat => AtMost(n, max) \in Nat
BY SMT DEF AtMost

\* A run of n units.
LEMMA UnitsAreUnits ==
  ASSUME NEW u, NEW n \in Nat
  PROVE  Units(u, n) \in Seq({u}) /\ Len(Units(u, n)) = n
BY SMT DEF Units

\* What is left of a stream after a read of n units.
LEMMA AfterIsRest ==
  ASSUME NEW S, NEW s, s \in Seq(S), NEW n \in 0 .. Len(s)
  PROVE  After(s, n) \in Seq(S) /\ Len(After(s, n)) = Len(s) - n
<1>1. Len(s) \in Nat BY LenProperties
<1>2. \A i \in n + 1 .. Len(s) : s[i] \in S
  <2>1. ASSUME NEW i \in n + 1 .. Len(s) PROVE i \in 1 .. Len(s) BY <1>1, SMT
  <2>. QED BY <2>1, ElementOfSeq
<1>3. n + 1 \in Int /\ Len(s) \in Int BY <1>1, SMT
<1>4. /\ After(s, n) \in Seq(S)
      /\ Len(After(s, n)) = IF n + 1 <= Len(s) THEN Len(s) - (n + 1) + 1 ELSE 0
  BY <1>2, <1>3, SubSeqProperties DEF After
<1>. QED BY <1>1, <1>4, SMT

\* What a read of n units returns.
LEMMA ReadIsPart ==
  ASSUME NEW S, NEW s, s \in Seq(S), NEW n \in 0 .. Len(s)
  PROVE  SubSeq(s, 1, n) \in Seq(S) /\ Len(SubSeq(s, 1, n)) = n
<1>1. Len(s) \in Nat BY LenProperties
<1>2. \A i \in 1 .. n : s[i] \in S
  <2>1. ASSUME NEW i \in 1 .. n PROVE i \in 1 .. Len(s) BY <1>1, SMT
  <2>. QED BY <2>1, ElementOfSeq
<1>3. n \in Int BY SMT
<1>4. /\ SubSeq(s, 1, n) \in Seq(S)
      /\ Len(SubSeq(s, 1, n)) = IF 1 <= n THEN n - 1 + 1 ELSE 0
  BY <1>2, <1>3, SubSeqProperties
<1>. QED BY <1>1, <1>4, SMT

\* Counting the bytes of a piece; all of them when it holds nothing else.
LEMMA BytesCount ==
  ASSUME NEW S, NEW s, s \in Seq(S)
  PROVE  BytesIn(s) \in Nat /\ (S = {Byte} => BytesIn(s) = Len(s))
<1>. DEFINE bytes == {i \in 1 .. Len(s) : s[i] = Byte}
<1>1. Len(s) \in Nat BY LenProperties
<1>2. IsFiniteSet(1 .. Len(s)) /\ Cardinality(1 .. Len(s)) = Len(s)
  <2>1. Len(s) \in Int /\ 1 \in Int BY <1>1
  <2>2. /\ IsFiniteSet(1 .. Len(s))
        /\ Cardinality(1 .. Len(s)) = IF 1 > Len(s) THEN 0 ELSE Len(s) - 1 + 1
    BY <2>1, FS_Interval
  <2>. QED BY <1>1, <2>2, SMT
<1>3. IsFiniteSet(bytes) BY <1>2, FS_Subset
<1>4. Cardinality(bytes) \in Nat BY <1>3, FS_CardinalityType
<1>5. S = {Byte} => bytes = 1 .. Len(s)
  <2>. SUFFICES ASSUME S = {Byte} PROVE \A i \in 1 .. Len(s) : s[i] = Byte
    OBVIOUS
  <2>. QED BY ElementOfSeq
<1>. QED BY <1>2, <1>4, <1>5 DEF BytesIn

\* What a write to the destination adds to what is saved.
LEMMA SavedGrows ==
  ASSUME saved \in Nat, NEW S, NEW piece, piece \in Seq(S), Saves(piece) \/ FallsShort(piece)
  PROVE  /\ saved' \in Nat
         /\ (Saves(piece) /\ S = {Byte} => saved' = saved + Len(piece))
         /\ (FallsShort(piece) => FellShort')
<1>1. CASE Saves(piece)
  <2>1. saved' = saved + BytesIn(piece) BY <1>1 DEF Saves
  <2>2. BytesIn(piece) \in Nat /\ (S = {Byte} => BytesIn(piece) = Len(piece)) BY BytesCount
  <2>3. saved' \in Nat BY <2>1, <2>2, SMT
  <2>. QED BY <2>1, <2>2, <2>3 DEF FallsShort, FellShort
<1>2. CASE ~Saves(piece)
  <2>1. PICK k \in 0 .. Len(piece) - 1 : saved' = saved + BytesIn(SubSeq(piece, 1, k))
    BY <1>2 DEF FallsShort
  <2>2. Len(piece) \in Nat BY LenProperties
  <2>3. k \in 0 .. Len(piece) BY <2>2, SMT
  <2>4. SubSeq(piece, 1, k) \in Seq(S) BY <2>3, ReadIsPart
  <2>5. BytesIn(SubSeq(piece, 1, k)) \in Nat BY <2>4, BytesCount
  <2>6. saved' \in Nat BY <2>1, <2>5, SMT
  <2>. QED BY <1>2, <2>6 DEF FallsShort, FellShort
<1>. QED BY <1>1, <1>2

\* A write puts a piece behind what is in flight.
LEMMA JoinIsStream ==
  ASSUME NEW S, NEW s, NEW t, s \in Seq(S), t \in Seq(S)
  PROVE  s \o t \in Seq(S) /\ Len(s \o t) = Len(s) + Len(t)
BY ConcatProperties

\* A stream of fewer kinds is a stream of more kinds.
LEMMA WiderStream ==
  ASSUME NEW S, NEW T, S \subseteq T, NEW s, s \in Seq(S)
  PROVE  s \in Seq(T)
<1>1. \A i \in 1 .. Len(s) : s[i] \in T BY ElementOfSeq
<1>2. Len(s) \in Nat /\ DOMAIN s = 1 .. Len(s) BY LenProperties
<1>3. s = [i \in 1 .. Len(s) |-> s[i]] BY <1>2, SMT
<1>. QED BY <1>1, <1>2, <1>3, SMT

\* The short sequences of commands and codes.
LEMMA ShortStreams ==
  ASSUME NEW S, NEW a \in S, NEW b \in S
  PROVE  /\ <<>> \o <<a>> = <<a>> /\ <<a>> \o <<b>> = <<a, b>>
         /\ Append(<<>>, a) = <<a>> /\ Append(<<a>>, b) = <<a, b>>
         /\ Head(<<a>>) = a /\ Tail(<<a>>) = <<>> /\ Len(<<a>>) = 1
         /\ Head(<<a, b>>) = a /\ Tail(<<a, b>>) = <<b>> /\ Len(<<a, b>>) = 2
         /\ <<a>> # <<>> /\ <<a, b>> # <<>> /\ <<a>> # <<a, b>> /\ <<b>> # <<a, b>> /\ Len(<<>>) = 0
         /\ <<>> \in Seq(S) /\ <<a>> \in Seq(S) /\ <<a, b>> \in Seq(S)
<1>1. <<>> \in Seq(S) /\ <<a>> \in Seq(S) /\ <<b>> \in Seq(S) /\ <<a, b>> \in Seq(S) BY SMT
<1>2. Len(<<>>) = 0 /\ Len(<<a>>) = 1 /\ Len(<<b>>) = 1 /\ Len(<<a, b>>) = 2 BY SMT
<1>3. ASSUME NEW s \in Seq(S), Len(s) = 2, s[1] = a, s[2] = b
      PROVE  s = <<a, b>>
  <2>. DEFINE r == <<a, b>>
  <2>1. Len(r) = 2 /\ r[1] = a /\ r[2] = b /\ r \in Seq(S) BY SMT
  <2>2. \A i \in 1 .. Len(s) : s[i] = r[i] BY <1>3, <2>1, SMT
  <2>. HIDE DEF r
  <2>3. s = r BY <1>3, <2>1, <2>2, SeqEqual
  <2>. QED BY <2>3 DEF r
<1>4. <<a>> \o <<b>> = <<a, b>>
  <2>. DEFINE x == <<a>>
              y == <<b>>
  <2>1. /\ Len(x) = 1 /\ Len(y) = 1 /\ x[1] = a /\ y[1] = b /\ x \in Seq(S) /\ y \in Seq(S) BY SMT
  <2>. HIDE DEF x, y
  <2>2. /\ x \o y \in Seq(S) /\ Len(x \o y) = Len(x) + Len(y)
        /\ \A i \in 1 .. Len(x) + Len(y) : (x \o y)[i] = IF i <= Len(x) THEN x[i] ELSE y[i - Len(x)]
    BY <2>1, ConcatProperties
  <2>3. Len(x \o y) = 2 /\ (x \o y)[1] = a /\ (x \o y)[2] = b BY <2>1, <2>2, SMT
  <2>4. x \o y = <<a, b>> BY <1>3, <2>2, <2>3
  <2>. QED BY <2>4 DEF x, y
<1>5. Append(<<a>>, b) = <<a, b>> BY <1>1, <1>4, AppendIsConcat
<1>6. <<>> \o <<a>> = <<a>> BY <1>1, ConcatEmptySeq
<1>7. Append(<<>>, a) = <<a>> BY SMT
<1>8. Head(<<a>>) = a /\ Tail(<<a>>) = <<>> /\ Head(<<a, b>>) = a BY SMT
<1>9. Tail(<<a, b>>) = <<b>> BY SMT
<1>10. <<a>> # <<>> /\ <<a, b>> # <<>> /\ <<a>> # <<a, b>> /\ <<b>> # <<a, b>> BY <1>2, SMT
<1>. QED BY <1>1, <1>2, <1>4, <1>5, <1>6, <1>7, <1>8, <1>9, <1>10

\* The first of the commands.
LEMMA FirstCommand ==
  ASSUME NEW S, NEW a \in S, NEW b \in S
  PROVE  /\ SubSeq(<<>>, 1, 0) = <<>>
         /\ SubSeq(<<a>>, 1, 1) = <<a>> /\ SubSeq(<<a, b>>, 1, 1) = <<a>>
<1>1. SubSeq(<<>>, 1, 0) = <<>> BY SubSeqEmpty, SMT
<1>2. ASSUME NEW s \in Seq(S), Len(s) \in Nat, Len(s) >= 1, s[1] = a
      PROVE  SubSeq(s, 1, 1) = <<a>>
  <2>. DEFINE t == SubSeq(s, 1, 1)
              r == <<a>>
  <2>1. \A i \in 1 .. 1 : s[i] \in S BY <1>2, SMT
  <2>2. /\ t \in Seq(S) /\ Len(t) = IF 1 <= 1 THEN 1 - 1 + 1 ELSE 0
        /\ \A i \in 1 .. 1 - 1 + 1 : t[i] = s[1 + i - 1]
    BY <2>1, SubSeqProperties
  <2>3. r \in Seq(S) /\ Len(r) = 1 /\ r[1] = a BY SMT
  <2>. HIDE DEF t, r
  <2>4. Len(t) = 1 /\ t[1] = a
    <3>1. 1 \in 1 .. 1 - 1 + 1 /\ 1 + 1 - 1 = 1 BY SMT
    <3>2. t[1] = s[1] BY <2>2, <3>1
    <3>. QED BY <1>2, <2>2, <3>2, SMT
  <2>5. \A i \in 1 .. Len(t) : t[i] = r[i] BY <2>3, <2>4, SMT
  <2>6. t = r BY <2>2, <2>3, <2>4, <2>5, SeqEqual
  <2>. QED BY <2>6 DEF t, r
<1>3. /\ <<a>> \in Seq(S) /\ Len(<<a>>) = 1 /\ <<a>>[1] = a
      /\ <<a, b>> \in Seq(S) /\ Len(<<a, b>>) = 2 /\ <<a, b>>[1] = a
  BY SMT
<1>4. SubSeq(<<a>>, 1, 1) = <<a>>
  <2>. DEFINE s == <<a>>
  <2>1. s \in Seq(S) /\ Len(s) \in Nat /\ Len(s) >= 1 /\ s[1] = a BY <1>3, SMT
  <2>. HIDE DEF s
  <2>2. SubSeq(s, 1, 1) = <<a>> BY <1>2, <2>1
  <2>. QED BY <2>2 DEF s
<1>5. SubSeq(<<a, b>>, 1, 1) = <<a>>
  <2>. DEFINE s == <<a, b>>
  <2>1. s \in Seq(S) /\ Len(s) \in Nat /\ Len(s) >= 1 /\ s[1] = a BY <1>3, SMT
  <2>. HIDE DEF s
  <2>2. SubSeq(s, 1, 1) = <<a>> BY <1>2, <2>1
  <2>. QED BY <2>2 DEF s
<1>. QED BY <1>1, <1>4, <1>5

\* A piece of a file: no end sends more than is due, Linux sends bytes of the file only.
LEMMA ChunkOfFile ==
  ASSUME FixedInv, disk \in Nat, NEW os \in OS, NEW left \in Nat
  PROVE  /\ Chunk(os, left).read \in 0 .. disk /\ Chunk(os, left).left \in Nat
         /\ Chunk(os, left).units \in Seq(FileUnits(os))
         /\ Len(Chunk(os, left).units) + Chunk(os, left).left <= left
<1>. DEFINE due == AtMost(left, IF os = "linux" THEN Buffer ELSE Buffer + 1)
            read == AtMost(due, disk)
            stale == IF os = "windows" /\ size > Buffer THEN due - read ELSE 0
            rest == left - (IF os = "linux" THEN read ELSE due)
            units == Units(Byte, read) \o Units(Stale, stale)
<1>1. Buffer \in Nat /\ os \in {"linux", "windows"} BY TransferAssumption DEF OS
<1>2. due \in Nat /\ due <= left BY <1>1, SMT DEF AtMost
<1>. HIDE DEF due
<1>3. read \in Nat /\ read <= due /\ read <= disk BY <1>2, SMT DEF AtMost
<1>. HIDE DEF read
<1>4. stale \in Nat /\ read + stale <= due /\ (os = "linux" => stale = 0) BY <1>1, <1>2, <1>3, SMT
<1>. HIDE DEF stale
<1>5. rest \in Nat /\ (read + stale) + rest <= left
  BY <1>1, <1>2, <1>3, <1>4, SMT
<1>6. /\ Units(Byte, read) \in Seq({Byte}) /\ Len(Units(Byte, read)) = read
      /\ Units(Stale, stale) \in Seq({Stale}) /\ Len(Units(Stale, stale)) = stale
  BY <1>3, <1>4, UnitsAreUnits
<1>. HIDE DEF rest
<1>7. units \in Seq(FileUnits(os)) /\ Len(units) = read + stale
  <2>1. Units(Byte, read) \in Seq(FileUnits(os)) BY <1>6, WiderStream DEF FileUnits
  <2>2. Units(Stale, stale) \in Seq(FileUnits(os))
    <3>1. CASE os = "linux"
      <4>1. Len(Units(Stale, stale)) = 0 BY <1>4, <1>6, <3>1
      <4>2. Units(Stale, stale) = <<>> BY <1>6, <4>1, EmptySeq
      <4>. QED BY <4>2, SMT
    <3>2. CASE os # "linux" BY <1>6, <3>2, WiderStream DEF FileUnits
    <3>. QED BY <3>1, <3>2
  <2>. QED BY <1>6, <2>1, <2>2, JoinIsStream
<1>8. Chunk(os, left) = [read |-> read, left |-> rest, units |-> units]
  BY DEF Chunk, due, read, stale, rest
<1>. HIDE DEF units
<1>. QED BY <1>3, <1>5, <1>7, <1>8
-----------------------------------------------------------------------------
(* The steps.                                                               *)

\* The conversation is about one file between two platforms.
LEMMA FixedHolds == Init => FixedInv
<1>. SUFFICES ASSUME Init PROVE FixedInv
  OBVIOUS
<1>1. PICK platform \in Platforms : client = platform[1] /\ server = platform[2] BY DEF Init
<1>2. platform \in OS \X OS BY TransferAssumption
<1>3. platform = <<client, server>> /\ client \in OS /\ server \in OS BY <1>1, <1>2
<1>4. request \in Requests /\ size \in Sizes[request] BY DEF Init
<1>5. request \in {"DOWNLOAD", "UPLOAD"} /\ size \in Nat \cup {Missing}
  <2>1. Sizes \in [Requests -> SUBSET (Nat \cup {Missing})] BY TransferAssumption
  <2>2. Sizes[request] \in SUBSET (Nat \cup {Missing}) BY <1>4, <2>1
  <2>. QED BY <1>4, <2>2, TransferAssumption
<1>. QED BY <1>1, <1>3, <1>4, <1>5 DEF FixedInv

\* Platforms, request and size are chosen once.
LEMMA FixedKeeps ==
  ASSUME [Next]_vars
  PROVE  UNCHANGED fixed
BY DEF Next, Client, Server, Die, Shrink, SendRequest, SendData, DataSent, WaitAck, ReadCode,
   OpenDestination, ReadSize, SendUpload, ReceiveData, DataReceived, SendAck, ReadCommand,
   ReceiveFile, FileReceived, WriteAck, AnswerSize, ReadUpload, SendFile, FileSent, ReadAck,
   WriteLog, vars, fixed

\* A mishap is not undone.
LEMMA MishapsStay ==
  ASSUME TypedInv, [Next]_vars
  PROVE  mishaps' \subseteq Kinds /\ (FellShort => FellShort')
<1>1. mishaps' = mishaps \/ \E kind \in Kinds : mishaps' = mishaps \cup {kind}
  <2>1. {"merge", "death", "shrink", "unreadable", "full"} = Kinds BY DEF Kinds
  <2>2. CASE Client
    BY <2>1, <2>2 DEF Client, SendRequest, SendData, DataSent, WaitAck, ReadCode, OpenDestination,
       ReadSize, SendUpload, ReceiveData, DataReceived, SendAck, Saves, FallsShort
  <2>3. CASE Server
    BY <2>1, <2>3 DEF Server, ReadCommand, ReceiveFile, FileReceived, WriteAck, AnswerSize,
       ReadUpload, SendFile, FileSent, ReadAck, WriteLog, Saves, FallsShort
  <2>4. CASE Die \/ Shrink \/ UNCHANGED vars BY <2>1, <2>4 DEF Die, Shrink, vars
  <2>. QED BY <2>2, <2>3, <2>4 DEF Next
<1>. QED BY <1>1 DEF TypedInv, FellShort

\* The log follows the commands the server has read.
LEMMA LogKeeps ==
  ASSUME FixedInv, LogInv, [Next]_vars
  PROVE  LogInv'
<1>1. server' = server /\ server \in {"linux", "windows"} BY FixedKeeps DEF fixed, FixedInv, OS
<1>2. /\ Append(<<>>, "DOWNLOAD") = <<"DOWNLOAD">> /\ Append(<<>>, "SIZE") = <<"SIZE">>
      /\ Append(<<"SIZE">>, "UPLOAD") = <<"SIZE", "UPLOAD">>
      /\ <<"DOWNLOAD">>[Len(<<"DOWNLOAD">>)] = "DOWNLOAD" /\ <<"SIZE">>[Len(<<"SIZE">>)] = "SIZE"
      /\ <<"SIZE", "UPLOAD">>[Len(<<"SIZE", "UPLOAD">>)] = "UPLOAD"
  <2>1. "DOWNLOAD" \in Unit /\ "SIZE" \in Unit /\ "UPLOAD" \in Unit BY DEF Unit
  <2>2. Len(<<"DOWNLOAD">>) = 1 /\ Len(<<"SIZE">>) = 1 /\ Len(<<"SIZE", "UPLOAD">>) = 2
    BY <2>1, ShortStreams
  <2>. QED BY <2>1, <2>2, ShortStreams, ZenonT(60)
<1>3. /\ <<"DOWNLOAD">> # <<>> /\ <<"SIZE">> # <<>> /\ <<"SIZE", "UPLOAD">> # <<>>
      /\ <<"DOWNLOAD">> # <<"SIZE">> /\ <<"SIZE">> # <<"SIZE", "UPLOAD">>
      /\ <<"DOWNLOAD">> # <<"SIZE", "UPLOAD">>
  BY SMT
<1>4. CASE UNCHANGED <<spc, heard, log>> BY <1>1, <1>4 DEF LogInv
<1>5. CASE ReadCommand
  <2>1. spc = "command" /\ heard = <<>> /\ log = <<>> BY <1>3, <1>5 DEF ReadCommand, LogInv
  <2>2. CASE toServer = <<>>
    <3>1. spc' = "closed" /\ heard' = <<>> /\ log' = <<>> BY <1>5, <2>1, <2>2 DEF ReadCommand
    <3>. QED BY <1>1, <1>3, <3>1 DEF LogInv
  <2>3. CASE toServer # <<>>
    <3>1. /\ heard' = Append(<<>>, Head(toServer))
          /\ log' = IF server = "windows" THEN <<Head(toServer)>> ELSE <<>>
          /\ \/ /\ Head(toServer) = "DOWNLOAD"
                /\ spc' \in {LeavesTo, "receive"} \cup (IF server = "windows" THEN {"killed"} ELSE {})
             \/ Head(toServer) = "SIZE" /\ spc' \in {"400", "300"}
      BY <1>5, <2>1, <2>3 DEF ReadCommand, Heard
    <3>2. CASE Head(toServer) = "DOWNLOAD"
      <4>1. /\ heard' = <<"DOWNLOAD">>
            /\ log' = IF server = "windows" THEN <<"DOWNLOAD">> ELSE <<>>
            /\ \/ spc' = "receive"
               \/ server = "linux" /\ spc' = "log"
               \/ server = "windows" /\ spc' \in {"closed", "killed"}
        BY <1>1, <1>2, <3>1, <3>2 DEF LeavesTo
      <4>. QED BY <1>1, <1>3, <4>1 DEF LogInv
    <3>3. CASE Head(toServer) # "DOWNLOAD"
      <4>1. /\ heard' = <<"SIZE">> /\ spc' \in {"400", "300"}
            /\ log' = IF server = "windows" THEN <<"SIZE">> ELSE <<>>
        BY <1>2, <3>1, <3>3
      <4>. QED BY <1>1, <1>3, <4>1 DEF LogInv
    <3>. QED BY <3>2, <3>3
  <2>. QED BY <2>2, <2>3
<1>6. CASE ReceiveFile \/ FileReceived
  <2>1. spc = "receive" /\ UNCHANGED <<heard, log>> /\ spc' \in {"receive", "ack", "killed"}
    BY <1>6 DEF ReceiveFile, FileReceived
  <2>. QED BY <1>1, <1>3, <2>1 DEF LogInv
<1>7. CASE WriteAck
  <2>1. /\ spc = "ack" /\ UNCHANGED <<heard, log>>
        /\ \/ spc' = "killed"
           \/ server = "linux" /\ spc' = "log"
           \/ server = "windows" /\ spc' = "closed"
    BY <1>1, <1>7 DEF WriteAck, ServerWrite, LeavesTo
  <2>. QED BY <1>1, <1>3, <2>1 DEF LogInv
<1>8. CASE AnswerSize
  <2>1. /\ spc \in {"400", "300", "size"} /\ UNCHANGED <<heard, log>>
        /\ \/ spc' \in {"size", "upload", "killed", "exited"}
           \/ server = "linux" /\ spc' = "log"
           \/ server = "windows" /\ spc' = "closed"
    BY <1>1, <1>8 DEF AnswerSize, ServerWrite, LeavesTo, WriteEnds
  <2>. QED BY <1>1, <1>3, <2>1 DEF LogInv
<1>9. CASE ReadUpload
  <2>1. spc = "upload" /\ heard = <<"SIZE">> /\ log = IF server = "linux" THEN <<>> ELSE <<"SIZE">>
    BY <1>1, <1>3, <1>9 DEF ReadUpload, LogInv
  <2>2. CASE toServer # <<>>
    <3>1. /\ heard' = <<"SIZE", "UPLOAD">> /\ log' = <<"SIZE">>
          /\ spc' = "send" \/ (server = "linux" /\ spc' = "log")
      BY <1>1, <1>2, <1>9, <2>1, <2>2 DEF ReadUpload, LogAfterUpload
    <3>. QED BY <1>1, <1>3, <3>1 DEF LogInv
  <2>3. CASE toServer = <<>>
    <3>1. /\ UNCHANGED <<heard, log>>
          /\ spc' = IF server = "linux" THEN "log" ELSE "exited"
      BY <1>9, <2>3 DEF ReadUpload
    <3>. QED BY <1>1, <1>3, <2>1, <3>1 DEF LogInv
  <2>. QED BY <2>2, <2>3
<1>10. CASE SendFile \/ FileSent \/ ReadAck
  <2>1. /\ spc \in {"send", "wait"} /\ UNCHANGED <<heard, log>>
        /\ \/ spc' \in {"send", "wait", "killed", "exited"}
           \/ server = "linux" /\ spc' = "log"
           \/ server = "windows" /\ spc' = "closed"
    BY <1>1, <1>10 DEF SendFile, FileSent, ReadAck, ServerWrite, WriteEnds
  <2>. QED BY <1>1, <1>3, <2>1 DEF LogInv
<1>11. CASE WriteLog
  <2>1. /\ spc = "log" /\ spc' = "closed" /\ heard' = heard /\ log' = Append(log, heard[Len(heard)])
        /\ server = "linux" /\ heard # <<>>
        /\ log = IF heard = <<"SIZE", "UPLOAD">> THEN <<"SIZE">> ELSE <<>>
    BY <1>11 DEF WriteLog, LogInv
  <2>2. heard \in {<<"DOWNLOAD">>, <<"SIZE">>, <<"SIZE", "UPLOAD">>} BY <2>1 DEF LogInv
  <2>3. log' = heard BY <1>2, <1>3, <2>1, <2>2
  <2>. QED BY <1>1, <1>3, <2>1, <2>2, <2>3 DEF LogInv
<1>12. CASE Client \/ Die \/ Shrink \/ UNCHANGED vars
  <2>1. UNCHANGED <<spc, heard, log>>
    BY <1>12 DEF Client, Die, Shrink, SendRequest, SendData, DataSent, WaitAck, ReadCode,
       OpenDestination, ReadSize, SendUpload, ReceiveData, DataReceived, SendAck, vars, serverVars
  <2>. QED BY <1>4, <2>1
<1>. QED BY <1>5, <1>6, <1>7, <1>8, <1>9, <1>10, <1>11, <1>12 DEF Next, Server
-----------------------------------------------------------------------------
(* DOWNLOAD.                                                                *)

\* A piece of the file goes behind the command and what was sent before.
LEMMA CommandGrows ==
  ASSUME toServer \in Seq(Unit), CommandInFlight, toServer # <<>>, NEW u, u \in Seq(FileUnits(client)),
         FileUnits(client) \subseteq Unit
  PROVE  /\ toServer \o u \in Seq(Unit) /\ Len(toServer \o u) = Len(toServer) + Len(u)
         /\ (toServer \o u)[1] = "DOWNLOAD"
         /\ \A i \in 2 .. Len(toServer \o u) : (toServer \o u)[i] \in FileUnits(client)
<1>1. u \in Seq(Unit) /\ Len(u) \in Nat /\ Len(toServer) \in Nat BY WiderStream, LenProperties
<1>2. /\ toServer \o u \in Seq(Unit) /\ Len(toServer \o u) = Len(toServer) + Len(u)
      /\ \A i \in 1 .. Len(toServer) + Len(u) :
           (toServer \o u)[i] = IF i <= Len(toServer) THEN toServer[i] ELSE u[i - Len(toServer)]
  BY <1>1, ConcatProperties
<1>3. /\ Len(toServer) > 0 /\ toServer[1] = "DOWNLOAD"
      /\ \A i \in 2 .. Len(toServer) : toServer[i] \in FileUnits(client)
  BY DEF CommandInFlight
<1>4. (toServer \o u)[1] = "DOWNLOAD" BY <1>1, <1>2, <1>3, SMT
<1>5. ASSUME NEW i \in 2 .. Len(toServer \o u) PROVE (toServer \o u)[i] \in FileUnits(client)
  <2>1. i \in 1 .. Len(toServer) + Len(u) BY <1>1, <1>2, SMT
  <2>2. CASE i <= Len(toServer)
    <3>1. i \in 2 .. Len(toServer) BY <1>1, <2>1, <2>2, SMT
    <3>. QED BY <1>2, <1>3, <2>1, <2>2, <3>1
  <2>3. CASE ~(i <= Len(toServer))
    <3>1. i - Len(toServer) \in 1 .. Len(u) BY <1>1, <2>1, <2>3, SMT
    <3>2. u[i - Len(toServer)] \in FileUnits(client) BY <3>1, ElementOfSeq
    <3>. QED BY <1>2, <2>1, <2>3, <3>2
  <2>. QED BY <2>2, <2>3
<1>. QED BY <1>2, <1>4, <1>5

\* The client's steps.
LEMMA DownloadClientKeeps ==
  ASSUME FixedInv, TypedInv, request = "DOWNLOAD", Download, Client
  PROVE  TypedInv' /\ Download'
<1>0. /\ client' = client /\ server' = server /\ size' = size /\ client \in {"linux", "windows"}
      /\ FileUnits(client)' = FileUnits(client) /\ size \in Nat \cup {Missing}
      /\ UNCHANGED <<spc, sleft, reset, saved>>
      /\ mishaps' \subseteq Kinds /\ (FellShort => FellShort')
  <2>1. UNCHANGED fixed /\ mishaps' \subseteq Kinds /\ (FellShort => FellShort')
    BY FixedKeeps, MishapsStay DEF Next
  <2>2. cpc \in {"request", "send", "wait", "ended", "gone"} BY DEF Download
  <2>3. UNCHANGED <<spc, sleft, reset, saved>>
    BY <2>2 DEF Client, SendRequest, SendData, DataSent, WaitAck, ReadCode, OpenDestination, ReadSize,
       SendUpload, ReceiveData, DataReceived, SendAck, serverVars
  <2>. QED BY <2>1, <2>3 DEF fixed, FixedInv, OS, FileUnits
<1>f. FileUnits(client) \subseteq Unit BY DEF FileUnits, Unit
<1>m. Missing \notin Nat /\ (size = Missing => Rest(size) = 0) /\ (size # Missing => Rest(size) = size)
  BY SMT DEF Missing, Rest
<1>1. CASE SendRequest
  <2>1. cpc = "request" /\ spc = "command" /\ toServer = <<>> /\ cleft = 0 /\ saved = 0
    BY <1>1 DEF SendRequest, Download
  <2>2. <<>> \o <<"DOWNLOAD">> = <<"DOWNLOAD">> /\ Len(<<"DOWNLOAD">>) = 1 /\ <<"DOWNLOAD">> \in Seq(Unit)
    <3>1. "DOWNLOAD" \in Unit BY DEF Unit
    <3>. QED BY <3>1, ShortStreams
  <2>3. /\ UNCHANGED <<disk, toClient, acked>>
        /\ \/ toServer' = <<"DOWNLOAD">> /\ cpc' = "send" /\ cleft' = size /\ size # Missing
           \/ toServer' \in {<<"DOWNLOAD">>, <<>>} /\ cpc' = "ended" /\ cleft' = 0
    BY <1>1, <2>1, <2>2 DEF SendRequest, ClientWrite, ServerClosed, TypedInv
  <2>4. cleft' \in Nat /\ cleft' <= Rest(size) BY <1>0, <1>m, <2>3, SMT
  <2>5. TypedInv'
    <3>1. toServer' \in Seq(Unit) BY <2>2, <2>3, EmptySeq
    <3>. QED BY <1>0, <2>3, <2>4, <3>1 DEF TypedInv, ClientPC
  <2>6. CommandInFlight'
    <3>1. CASE toServer' = <<>> BY <2>2, <2>3, <3>1 DEF CommandInFlight
    <3>2. CASE toServer' = <<"DOWNLOAD">>
      <4>1. Len(toServer') = 1 /\ toServer'[1] = "DOWNLOAD" BY <3>2, <2>2
      <4>2. 2 .. Len(toServer') = {} BY <4>1, SMT
      <4>3. Len(toServer') - 1 + cleft' <= Rest(size) BY <2>4, <4>1, SMT
      <4>4. Rest(size)' = Rest(size) BY <1>0 DEF Rest
      <4>. QED BY <2>3, <4>1, <4>2, <4>3, <4>4 DEF CommandInFlight
    <3>. QED BY <2>3, <3>1, <3>2
  <2>. QED BY <1>0, <2>1, <2>3, <2>5, <2>6 DEF Download
<1>2. CASE SendData
  <2>. DEFINE chunk == Chunk(client, cleft)
  <2>1. /\ chunk.read \in 0 .. disk /\ chunk.left \in Nat /\ chunk.units \in Seq(FileUnits(client))
        /\ Len(chunk.units) + chunk.left <= cleft /\ Len(chunk.units) \in Nat
    BY ChunkOfFile, LenProperties DEF TypedInv, FixedInv
  <2>2. /\ cpc = "send" /\ UNCHANGED <<toClient, acked, mishaps>> /\ cleft' = chunk.left
        /\ disk' = disk - chunk.read /\ cpc' \in {"send", "gone", "wait"}
        /\ \/ ~ServerClosed /\ toServer' = toServer \o chunk.units /\ cpc' = "send"
           \/ ServerClosed /\ toServer' = toServer
    BY <1>2 DEF SendData, ClientWrite
  <2>. HIDE DEF chunk
  <2>3. TypedInv'
    <3>1. chunk.units \in Seq(Unit) BY <1>f, <2>1, WiderStream
    <3>2. toServer' \in Seq(Unit) BY <2>2, <3>1, JoinIsStream DEF TypedInv
    <3>3. disk' \in Nat /\ cleft' \in Nat BY <2>1, <2>2, SMT DEF TypedInv
    <3>. QED BY <1>0, <2>2, <3>2, <3>3 DEF TypedInv, ClientPC
  <2>4. spc = "command" => CommandInFlight'
    <3>. SUFFICES ASSUME spc = "command" PROVE CommandInFlight'
      OBVIOUS
    <3>1. CommandInFlight /\ toServer # <<>> BY <2>2 DEF Download, CommandInFlight
    <3>2. toServer' = toServer \o chunk.units /\ cpc' = "send" BY <2>2 DEF ServerClosed
    <3>3. /\ Len(toServer') = Len(toServer) + Len(chunk.units) /\ toServer'[1] = "DOWNLOAD"
          /\ \A i \in 2 .. Len(toServer') : toServer'[i] \in FileUnits(client)
      BY <1>f, <2>1, <3>1, <3>2, CommandGrows DEF TypedInv
    <3>4. Len(toServer) > 0 /\ Len(toServer) - 1 + cleft <= Rest(size) /\ Len(toServer) \in Nat
      BY <3>1, LenProperties, EmptySeq DEF CommandInFlight, TypedInv
    <3>5. Rest(size)' = Rest(size) /\ Rest(size) \in Nat BY <1>0, <1>m DEF Rest
    <3>6. Len(toServer') > 0 /\ Len(toServer') - 1 + cleft' <= Rest(size)
      <4>1. cleft \in Nat BY DEF TypedInv
      <4>. QED BY <2>1, <2>2, <3>3, <3>4, <3>5, <4>1, SMT
    <3>. QED BY <1>0, <3>2, <3>3, <3>5, <3>6 DEF CommandInFlight
  <2>5. spc = "receive" => toServer' \in Seq(FileUnits(client)) /\ Len(toServer') + cleft' <= Rest(sleft)
    <3>. SUFFICES ASSUME spc = "receive"
                  PROVE  toServer' \in Seq(FileUnits(client)) /\ Len(toServer') + cleft' <= Rest(sleft)
      OBVIOUS
    <3>1. toServer \in Seq(FileUnits(client)) /\ Len(toServer) + cleft <= Rest(sleft)
      BY DEF Download
    <3>2. toServer' = toServer \o chunk.units BY <2>2 DEF ServerClosed
    <3>3. toServer' \in Seq(FileUnits(client)) /\ Len(toServer') = Len(toServer) + Len(chunk.units)
      BY <2>1, <3>1, <3>2, JoinIsStream
    <3>4. Len(toServer) \in Nat /\ Rest(sleft) \in Int /\ cleft \in Nat
      BY <3>1, LenProperties, SMT DEF TypedInv, Rest, Missing
    <3>. QED BY <2>1, <2>2, <3>1, <3>3, <3>4, SMT
  <2>6. size # Missing BY <2>2 DEF Download
  <2>7. Rest(sleft)' = Rest(sleft) BY <1>0 DEF Rest
  <2>. QED BY <1>0, <2>2, <2>3, <2>4, <2>5, <2>6, <2>7 DEF Download
<1>3. CASE DataSent
  <2>1. /\ cpc = "send" /\ cpc' \in {"wait", "ended"}
        /\ UNCHANGED <<disk, toServer, toClient, cleft, acked, mishaps>>
    BY <1>3 DEF DataSent
  <2>2. TypedInv' BY <1>0, <2>1 DEF TypedInv, ClientPC
  <2>3. spc = "command" => CommandInFlight'
    BY <1>0, <2>1 DEF Download, CommandInFlight, Rest
  <2>4. Rest(sleft)' = Rest(sleft) BY <1>0 DEF Rest
  <2>. QED BY <1>0, <2>1, <2>2, <2>3, <2>4 DEF Download
<1>4. CASE WaitAck
  <2>1. /\ cpc = "wait" /\ cpc' \in {"wait", "ended"}
        /\ UNCHANGED <<disk, toServer, cleft, mishaps>>
        /\ \/ toClient # <<>> /\ toClient' = Tail(toClient)
              /\ (acked' = acked \/ (client = "linux" /\ acked' = acked \cup {"client"}))
           \/ UNCHANGED <<toClient, acked>>
    BY <1>4 DEF WaitAck
  <2>2. toClient' \in Seq({"200"}) /\ toClient' \in Seq(Unit)
    <3>1. toClient \in Seq({"200"}) BY DEF Download
    <3>2. toClient' \in Seq({"200"}) BY <2>1, <3>1, HeadTailProperties
    <3>3. {"200"} \subseteq Unit BY DEF Unit
    <3>. QED BY <3>2, <3>3, WiderStream
  <2>3. TypedInv' BY <1>0, <2>1, <2>2 DEF TypedInv, ClientPC
  <2>4. spc = "command" => CommandInFlight'
    BY <1>0, <2>1 DEF Download, CommandInFlight, Rest
  <2>5. Rest(sleft)' = Rest(sleft) BY <1>0 DEF Rest
  <2>. QED BY <1>0, <2>1, <2>2, <2>3, <2>4, <2>5 DEF Download
<1>5. SendRequest \/ SendData \/ DataSent \/ WaitAck
  <2>1. cpc \in {"request", "send", "wait", "ended", "gone"} BY DEF Download
  <2>. QED BY <2>1 DEF Client, ReadCode, OpenDestination, ReadSize, SendUpload, ReceiveData,
       DataReceived, SendAck
<1>. QED BY <1>1, <1>2, <1>3, <1>4, <1>5
\* The server takes what is behind the command, less what its read took with it.
LEMMA FileFollowsCommand ==
  ASSUME toServer \in Seq(Unit), CommandInFlight, toServer # <<>>, NEW k \in 1 .. Len(toServer)
  PROVE  After(toServer, k) \in Seq(FileUnits(client)) /\ Len(After(toServer, k)) = Len(toServer) - k
<1>1. Len(toServer) \in Nat BY LenProperties
<1>2. \A i \in 2 .. Len(toServer) : toServer[i] \in FileUnits(client) BY DEF CommandInFlight
<1>3. \A i \in k + 1 .. Len(toServer) : toServer[i] \in FileUnits(client)
  <2>1. ASSUME NEW i \in k + 1 .. Len(toServer) PROVE i \in 2 .. Len(toServer) BY <1>1, SMT
  <2>. QED BY <1>2, <2>1
<1>4. k + 1 \in Int /\ Len(toServer) \in Int BY <1>1, SMT
<1>5. After(toServer, k) \in Seq(FileUnits(client)) BY <1>3, <1>4, SubSeqProperties DEF After
<1>6. k \in 0 .. Len(toServer) BY <1>1, SMT
<1>. QED BY <1>5, <1>6, AfterIsRest

\* The server's steps.
LEMMA DownloadServerKeeps ==
  ASSUME FixedInv, TypedInv, request = "DOWNLOAD", Download, Server
  PROVE  TypedInv' /\ Download'
<1>0. /\ client' = client /\ server' = server /\ size' = size /\ client \in {"linux", "windows"}
      /\ server \in {"linux", "windows"}
      /\ FileUnits(client)' = FileUnits(client) /\ size \in Nat \cup {Missing}
      /\ UNCHANGED <<cpc, cleft, disk, acked>>
      /\ mishaps' \subseteq Kinds /\ (FellShort => FellShort')
  <2>1. UNCHANGED fixed /\ mishaps' \subseteq Kinds /\ (FellShort => FellShort')
    BY FixedKeeps, MishapsStay DEF Next
  <2>2. spc \in {"command", "receive", "ack", "log", "closed", "killed"} BY DEF Download
  <2>3. UNCHANGED <<cpc, cleft, disk, acked>>
    BY <2>2 DEF Server, ReadCommand, ReceiveFile, FileReceived, WriteAck, AnswerSize, ReadUpload,
       SendFile, FileSent, ReadAck, WriteLog, clientVars
  <2>. QED BY <2>1, <2>3 DEF fixed, FixedInv, OS, FileUnits
<1>f. FileUnits(client) \subseteq Unit BY DEF FileUnits, Unit
<1>m. /\ Missing \notin Nat /\ Missing # 0 /\ \A n \in Nat : Rest(n) = n
      /\ Rest(Missing) = 0
  BY SMT DEF Missing, Rest
<1>n. Len(toServer) \in Nat /\ cleft \in Nat BY LenProperties DEF TypedInv
<1>1. CASE ReadCommand
  <2>1. /\ spc = "command" /\ UNCHANGED <<toClient, saved, reset>>
        /\ toClient = <<>> /\ acked = {} /\ saved = 0 /\ CommandInFlight
    BY <1>1 DEF ReadCommand, Download
  <2>2. CASE toServer = <<>>
    <3>1. spc' = "closed" /\ UNCHANGED <<toServer, sleft, mishaps>> BY <1>1, <2>2 DEF ReadCommand
    <3>2. TypedInv' BY <1>0, <2>1, <3>1 DEF TypedInv, ServerPC
    <3>3. cpc # "request" BY <1>1, <2>2 DEF ReadCommand, ClientClosed
    <3>. QED BY <1>0, <2>1, <3>1, <3>2, <3>3 DEF Download
  <2>3. CASE toServer # <<>>
    <3>1. Len(toServer) > 0 /\ toServer[1] = "DOWNLOAD" /\ cpc # "request"
          /\ Len(toServer) - 1 + cleft <= Rest(size)
      BY <2>1, <2>3 DEF CommandInFlight
    <3>2. Head(toServer) = "DOWNLOAD" BY <3>1
    <3>3. PICK extra \in 0 .. (IF May("merge") THEN Len(toServer) - 1 ELSE 0) :
            /\ toServer' = After(toServer, extra + 1)
            /\ sleft' = size /\ spc' \in {LeavesTo, "receive", "killed"}
      BY <1>1, <2>3, <3>2 DEF ReadCommand
    <3>4. extra + 1 \in 1 .. Len(toServer) BY <1>n, <3>1, <3>3, SMT
    <3>5. toServer' \in Seq(FileUnits(client)) /\ Len(toServer') = Len(toServer) - (extra + 1)
      BY <2>1, <2>3, <3>3, <3>4, FileFollowsCommand DEF TypedInv
    <3>6. toServer' \in Seq(Unit) BY <1>f, <3>5, WiderStream
    <3>7. spc' \in {"log", "closed", "receive", "killed"} BY <3>3 DEF LeavesTo
    <3>8. Len(toServer') + cleft' <= Rest(sleft)'
      <4>1. Rest(sleft)' = Rest(size) /\ Rest(size) \in Nat BY <1>0, <1>m, <3>3 DEF Rest
      <4>. QED BY <1>0, <1>n, <3>1, <3>3, <3>4, <3>5, <4>1, SMT
    <3>9. saved' + sleft' = size BY <1>0, <2>1, <3>3, SMT DEF Missing
    <3>10. TypedInv'
      <4>1. sleft' \in Nat \cup {Missing} BY <1>0, <3>3
      <4>. QED BY <1>0, <2>1, <3>6, <3>7, <4>1 DEF TypedInv, ServerPC
    <3>. QED BY <1>0, <2>1, <3>1, <3>3, <3>5, <3>7, <3>8, <3>9, <3>10 DEF Download
  <2>. QED BY <2>2, <2>3
<1>2. CASE ReceiveFile
  <2>1. /\ spc = "receive" /\ sleft # 0 /\ UNCHANGED <<toClient, reset>>
        /\ toServer \in Seq(FileUnits(client)) /\ Len(toServer) + cleft <= Rest(sleft)
        /\ toClient = <<>> /\ acked = {} /\ (sleft = Missing => size = Missing)
    BY <1>2 DEF ReceiveFile, Download
  <2>r. cpc # "request" BY <2>1 DEF Download
  <2>2. CASE UNCHANGED <<toServer, sleft, saved>> /\ spc' \in {"ack", "killed"}
             /\ (spc' = "ack" => sleft = Missing)
    <3>1. TypedInv' BY <1>0, <2>1, <2>2 DEF TypedInv, ServerPC
    <3>. QED BY <1>0, <2>1, <2>r, <2>2, <3>1 DEF Download
  <2>3. CASE ~(UNCHANGED <<toServer, sleft, saved>> /\ spc' \in {"ack", "killed"}
               /\ (spc' = "ack" => sleft = Missing))
    <3>. DEFINE piece(n) == SubSeq(toServer, 1, n)
    <3>1. PICK n \in 1 .. AtMost(Len(toServer),
                                 IF server = "linux" THEN AtMost(sleft, Buffer) ELSE Piece) :
            /\ toServer' = After(toServer, n)
            /\ \/ Saves(piece(n)) /\ sleft' = sleft - n /\ spc' = spc
               \/ FallsShort(piece(n)) /\ sleft' = sleft /\ spc' \in {"ack", "killed"}
      BY <1>2, <2>3 DEF ReceiveFile, Consumed
    <3>2. n \in 1 .. Len(toServer)
      <4>1. /\ Buffer \in Int /\ Piece \in Int /\ sleft \in Int
        BY TransferAssumption, SMT DEF TypedInv, Missing
      <4>2. (IF server = "linux" THEN AtMost(sleft, Buffer) ELSE Piece) \in Int
        BY <4>1, AtMostIsLess
      <4>. DEFINE most == IF server = "linux" THEN AtMost(sleft, Buffer) ELSE Piece
      <4>m. most \in Int BY <4>2
      <4>. HIDE DEF most
      <4>3. AtMost(Len(toServer), most) <= Len(toServer) /\ AtMost(Len(toServer), most) \in Int
        <5>1. Len(toServer) \in Int BY <1>n
        <5>. QED BY <4>m, <5>1, AtMostIsLess
      <4>4. n \in 1 .. AtMost(Len(toServer), most) BY <3>1 DEF most
      <4>. QED BY <1>n, <4>3, <4>4, SMT
    <3>3. sleft \in Nat /\ Rest(sleft) = sleft /\ n <= sleft /\ n \in Nat /\ n \in 0 .. Len(toServer)
      <4>1. sleft # Missing BY <1>m, <1>n, <2>1, <3>2, SMT
      <4>2. sleft \in Nat BY <4>1 DEF TypedInv
      <4>3. Rest(sleft) = sleft BY <1>m, <4>2
      <4>. QED BY <1>n, <2>1, <3>2, <4>2, <4>3, SMT
    <3>4. /\ toServer' \in Seq(FileUnits(client)) /\ Len(toServer') = Len(toServer) - n
          /\ piece(n) \in Seq(FileUnits(client)) /\ Len(piece(n)) = n
      BY <2>1, <3>1, <3>3, AfterIsRest, ReadIsPart
    <3>. HIDE DEF piece
    <3>5. /\ saved' \in Nat
          /\ (Saves(piece(n)) /\ client = "linux" => saved' = saved + n)
          /\ (FallsShort(piece(n)) => FellShort')
      <4>1. client = "linux" => FileUnits(client) = {Byte} BY DEF FileUnits
      <4>2. saved \in Nat BY DEF TypedInv
      <4>3. Saves(piece(n)) \/ FallsShort(piece(n)) BY <3>1
      <4>. QED BY <3>4, <4>1, <4>2, <4>3, SavedGrows
    <3>6. toServer' \in Seq(Unit) BY <1>f, <3>4, WiderStream
    <3>7. CASE Saves(piece(n)) /\ sleft' = sleft - n /\ spc' = spc
      <4>1. sleft' \in Nat BY <3>3, <3>7, SMT
      <4>2. Rest(sleft)' = sleft - n
        <5>1. Rest(sleft') = sleft' BY <1>m, <4>1
        <5>. QED BY <3>7, <5>1 DEF Rest
      <4>3. TypedInv' BY <1>0, <2>1, <3>5, <3>6, <3>7, <4>1 DEF TypedInv
      <4>4. Len(toServer') + cleft' <= Rest(sleft)'
        BY <1>0, <1>n, <2>1, <3>3, <3>4, <4>2, SMT
      <4>5. client = "linux" => saved' + sleft' = size
        <5>1. client = "linux" => saved + sleft = size BY <2>1 DEF Download
        <5>2. saved \in Nat BY DEF TypedInv
        <5>. QED BY <3>3, <3>5, <3>7, <5>1, <5>2, SMT
      <4>6. sleft' # Missing BY <1>m, <4>1
      <4>. QED BY <1>0, <2>1, <2>r, <3>4, <3>7, <4>3, <4>4, <4>5, <4>6 DEF Download
    <3>8. CASE FallsShort(piece(n)) /\ sleft' = sleft /\ spc' \in {"ack", "killed"}
      <4>1. TypedInv' BY <1>0, <2>1, <3>3, <3>5, <3>6, <3>8 DEF TypedInv, ServerPC
      <4>2. FellShort' BY <3>5, <3>8
      <4>. QED BY <1>0, <2>1, <2>r, <3>8, <4>1, <4>2 DEF Download
    <3>. QED BY <3>1, <3>7, <3>8
  <2>. QED BY <2>2, <2>3
<1>3. CASE FileReceived
  <2>1. /\ spc = "receive" /\ sleft = 0 /\ spc' = "ack" /\ toClient = <<>> /\ acked = {}
        /\ UNCHANGED <<toServer, toClient, sleft, saved, reset, mishaps>>
    BY <1>3 DEF FileReceived, Download
  <2>2. client = "linux" => saved' = size
    <3>1. client = "linux" => saved + sleft = size BY <2>1 DEF Download
    <3>2. saved \in Nat BY DEF TypedInv
    <3>. QED BY <2>1, <3>1, <3>2, SMT
  <2>3. TypedInv' BY <1>0, <2>1 DEF TypedInv, ServerPC
  <2>. QED BY <1>0, <2>1, <2>2, <2>3 DEF Download
<1>4. CASE WriteAck
  <2>1. /\ spc = "ack" /\ spc' \in {"log", "closed", "killed"} /\ reset' \in BOOLEAN
        /\ UNCHANGED <<toServer, sleft, saved, mishaps>>
        /\ toClient' \in {toClient, toClient \o <<"200">>}
    BY <1>4 DEF WriteAck, ServerWrite, LeavesTo, TypedInv
  <2>2. toClient' \in Seq({"200"})
    <3>1. toClient \in Seq({"200"}) BY DEF Download
    <3>2. <<"200">> \in Seq({"200"}) BY SMT
    <3>. QED BY <2>1, <3>1, <3>2, JoinIsStream
  <2>3. toClient' \in Seq(Unit)
    <3>1. {"200"} \subseteq Unit BY DEF Unit
    <3>. QED BY <2>2, <3>1, WiderStream
  <2>4. TypedInv' BY <1>0, <2>1, <2>3 DEF TypedInv, ServerPC
  <2>5. toClient' # toClient => size # Missing
    <3>1. CASE ClientClosed BY <1>4, <3>1 DEF WriteAck, ServerWrite
    <3>2. CASE ~ClientClosed
      <4>1. cpc \in {"send", "wait"} BY <2>1, <3>2 DEF Download, ClientClosed
      <4>. QED BY <4>1 DEF Download
    <3>. QED BY <3>1, <3>2
  <2>6. toClient' # <<>> \/ acked' # {} => (client = "linux" => saved' = size \/ FellShort')
    BY <1>0, <2>1, <2>5 DEF Download
  <2>. QED BY <1>0, <2>1, <2>2, <2>4, <2>6 DEF Download
<1>5. CASE WriteLog
  <2>1. spc = "log" /\ spc' = "closed" /\ UNCHANGED <<toServer, toClient, sleft, saved, reset, mishaps>>
    BY <1>5 DEF WriteLog
  <2>2. TypedInv' BY <1>0, <2>1 DEF TypedInv, ServerPC
  <2>. QED BY <1>0, <2>1, <2>2 DEF Download
<1>6. ReadCommand \/ ReceiveFile \/ FileReceived \/ WriteAck \/ WriteLog
  <2>1. spc \in {"command", "receive", "ack", "log", "closed", "killed"} BY DEF Download
  <2>. QED BY <2>1 DEF Server, AnswerSize, ReadUpload, SendFile, FileSent, ReadAck
<1>. QED BY <1>1, <1>2, <1>3, <1>4, <1>5, <1>6

\* A killed client, a shorter file.
LEMMA DownloadMishapKeeps ==
  ASSUME FixedInv, TypedInv, request = "DOWNLOAD", Download, Die \/ Shrink \/ UNCHANGED vars
  PROVE  TypedInv' /\ Download'
<1>0. /\ client' = client /\ server' = server /\ size' = size
      /\ FileUnits(client)' = FileUnits(client) /\ Rest(size)' = Rest(size)
      /\ UNCHANGED <<toServer, toClient, cleft, sleft, saved, spc, reset, acked>>
      /\ Rest(sleft)' = Rest(sleft)
  BY DEF Die, Shrink, vars, fixed, serverVars, clientVars, FileUnits, Rest
<1>m. mishaps' \subseteq Kinds /\ (FellShort => FellShort') BY MishapsStay DEF Next
<1>1. disk' \in Nat /\ cpc' \in {cpc, "gone"}
  <2>1. disk \in Nat BY DEF TypedInv
  <2>2. \A d \in 0 .. disk - 1 : d \in Nat BY <2>1, SMT
  <2>. QED BY <2>1, <2>2 DEF Die, Shrink, vars, TypedInv, clientVars
<1>2. TypedInv' BY <1>0, <1>m, <1>1 DEF TypedInv, ClientPC
<1>3. cpc' = "request" => cpc = "request" BY <1>1
<1>4. CommandInFlight => CommandInFlight'
  BY <1>0, <1>1 DEF CommandInFlight
<1>. QED BY <1>0, <1>m, <1>1, <1>2, <1>3, <1>4 DEF Download
-----------------------------------------------------------------------------
(* UPLOAD.                                                                  *)

\* The streams of commands and codes that are in flight before and after the file.
LEMMA CommandStreams ==
  /\ <<>> \o <<"SIZE">> = <<"SIZE">> /\ <<>> \o <<"UPLOAD">> = <<"UPLOAD">>
  /\ <<>> \o <<"200">> = <<"200">> /\ <<"UPLOAD">> \o <<"200">> = <<"UPLOAD", "200">>
  /\ <<>> \o <<"300">> = <<"300">> /\ <<>> \o <<"400">> = <<"400">>
  /\ <<>> \o <<"value">> = <<"value">> /\ <<"300">> \o <<"value">> = <<"300", "value">>
  /\ Head(<<"300">>) = "300" /\ Tail(<<"300">>) = <<>> /\ Head(<<"400">>) = "400" /\ Tail(<<"400">>) = <<>>
  /\ Tail(<<"value">>) = <<>> /\ Tail(<<"UPLOAD">>) = <<>> /\ Tail(<<"200">>) = <<>>
  /\ Head(<<"200">>) = "200" /\ Head(<<"SIZE">>) = "SIZE" /\ Len(<<"SIZE">>) = 1
  /\ Head(<<"300", "value">>) = "300" /\ Tail(<<"300", "value">>) = <<"value">>
  /\ Tail(<<"UPLOAD", "200">>) = <<"200">>
  /\ \A s \in {<<>>, <<"SIZE">>, <<"UPLOAD">>, <<"UPLOAD", "200">>, <<"200">>, <<"300">>, <<"400">>,
               <<"value">>, <<"300", "value">>} : s \in Seq(Unit)
<1>1. \A u \in {"SIZE", "UPLOAD", "200", "300", "400", "value"} : u \in Unit BY DEF Unit
<1>. QED BY <1>1, ShortStreams

\* They are different streams.
LEMMA StreamsDiffer ==
  /\ <<"SIZE">> # <<>> /\ <<"UPLOAD">> # <<>> /\ <<"200">> # <<>> /\ <<"UPLOAD", "200">> # <<>>
  /\ <<"SIZE">> # <<"UPLOAD">> /\ <<"SIZE">> # <<"200">> /\ <<"SIZE">> # <<"UPLOAD", "200">>
  /\ <<"UPLOAD">> # <<"200">> /\ <<"UPLOAD">> # <<"UPLOAD", "200">> /\ <<"200">> # <<"UPLOAD", "200">>
BY SMT

\* The client's steps.
LEMMA UploadClientKeeps ==
  ASSUME FixedInv, TypedInv, request = "UPLOAD", Upload, Client
  PROVE  TypedInv' /\ Upload'
<1>0. /\ client' = client /\ server' = server /\ size' = size
      /\ client \in {"linux", "windows"} /\ server \in {"linux", "windows"}
      /\ FileUnits(server)' = FileUnits(server) /\ size \in Nat \cup {Missing}
      /\ UNCHANGED <<spc, sleft, reset, disk, acked>>
      /\ mishaps' \subseteq Kinds /\ (FellShort => FellShort')
  <2>1. UNCHANGED fixed /\ mishaps' \subseteq Kinds /\ (FellShort => FellShort')
    BY FixedKeeps, MishapsStay DEF Next
  <2>2. cpc \notin {"send", "wait"} BY DEF Upload
  <2>3. UNCHANGED <<spc, sleft, reset, disk, acked>>
    BY <2>2 DEF Client, SendRequest, SendData, DataSent, WaitAck, ReadCode, OpenDestination, ReadSize,
       SendUpload, ReceiveData, DataReceived, SendAck, serverVars
  <2>. QED BY <2>1, <2>3 DEF fixed, FixedInv, OS, FileUnits
<1>f. FileUnits(server) \subseteq Unit BY DEF FileUnits, Unit
<1>d. (ServerDone' <=> ServerDone) /\ (ServerClosed' <=> ServerClosed)
  BY <1>0 DEF ServerDone, ServerClosed
<1>1. CASE SendRequest
  <2>1. /\ cpc = "request" /\ spc = "command" /\ toServer = <<>> /\ toClient = <<>>
        /\ saved = 0 /\ sleft = 0 /\ acked = {}
    BY <1>1 DEF SendRequest, Upload, Stands, Flow, ClientClosed
  <2>2. /\ toServer' = <<"SIZE">> /\ cpc' = "code" /\ UNCHANGED <<toClient, cleft, saved>>
    BY <1>1, <2>1, CommandStreams DEF SendRequest, ClientWrite, ServerClosed
  <2>3. TypedInv' BY <1>0, <2>2, CommandStreams DEF TypedInv, ClientPC
  <2>4. Stands' BY <1>0, <2>1, <2>2 DEF Stands
  <2>5. Flow' BY <1>0, <2>1, <2>2 DEF Flow
  <2>. QED BY <1>0, <2>1, <2>2, <2>3, <2>4, <2>5, StreamsDiffer DEF Upload, ClientPC
<1>2. CASE ReadCode
  <2>1. /\ cpc = "code" /\ toServer = <<>> /\ saved = 0 /\ sleft = 0 /\ acked = {}
        /\ \/ spc = "size" /\ toClient = <<"300">>
           \/ spc = "upload" /\ toClient = <<"300", "value">>
           \/ spc \in {"log", "closed"} /\ toClient = <<"400">>
    BY <1>2 DEF ReadCode, Upload, Stands, Flow, ClientClosed
  <2>2. /\ UNCHANGED <<toServer, cleft, saved>>
        /\ \/ spc = "size" /\ toClient' = <<>> /\ cpc' \in {"open", "value"}
           \/ spc = "upload" /\ toClient' = <<"value">> /\ cpc' \in {"open", "value"}
           \/ spc \in {"log", "closed"} /\ toClient' = <<>> /\ cpc' = "ended"
    BY <1>2, <2>1, CommandStreams DEF ReadCode
  <2>3. TypedInv' BY <1>0, <2>2, CommandStreams DEF TypedInv, ClientPC
  <2>4. Stands' BY <1>0, <2>1, <2>2 DEF Stands
  <2>5. spc \in {"size", "upload"} => size # Missing BY DEF Upload
  <2>6. Flow' BY <1>0, <2>1, <2>2, <2>5 DEF Flow
  <2>. QED BY <1>0, <2>1, <2>2, <2>3, <2>4, <2>6, StreamsDiffer DEF Upload, ClientPC
<1>3. CASE OpenDestination
  <2>1. /\ cpc = "open" /\ toServer = <<>> /\ saved = 0 /\ sleft = 0 /\ acked = {}
        /\ spc \in {"size", "upload"} /\ size # Missing
        /\ \/ spc = "size" /\ toClient = <<>>
           \/ spc = "upload" /\ toClient = <<"value">>
    BY <1>3 DEF OpenDestination, Upload, Stands, Flow, ClientClosed
  <2>2. /\ UNCHANGED <<toServer, toClient, cleft, saved>> /\ cpc' \in {"value", "ended"}
    BY <1>3 DEF OpenDestination
  <2>3. TypedInv' BY <1>0, <2>2 DEF TypedInv, ClientPC
  <2>4. Stands' BY <1>0, <2>1, <2>2 DEF Stands
  <2>5. Flow' BY <1>0, <2>1, <2>2 DEF Flow
  <2>. QED BY <1>0, <2>1, <2>2, <2>3, <2>4, <2>5, StreamsDiffer DEF Upload, ClientPC
<1>4. CASE ReadSize
  <2>1. /\ cpc = "value" /\ toServer = <<>> /\ saved = 0 /\ sleft = 0 /\ acked = {}
        /\ spc = "upload" /\ size # Missing /\ toClient = <<"value">>
    BY <1>4 DEF ReadSize, Upload, Stands, Flow, ClientClosed
  <2>2. /\ UNCHANGED <<toServer, saved>> /\ toClient' = <<>> /\ cpc' = "upload" /\ cleft' = size
    BY <1>4, <2>1, CommandStreams DEF ReadSize
  <2>3. TypedInv'
    <3>1. cleft' \in Nat BY <1>0, <2>1, <2>2
    <3>. QED BY <1>0, <2>2, <3>1, CommandStreams DEF TypedInv, ClientPC
  <2>4. Stands' BY <1>0, <2>1, <2>2 DEF Stands
  <2>5. Flow' BY <1>0, <2>1, <2>2 DEF Flow
  <2>. QED BY <1>0, <2>1, <2>2, <2>3, <2>4, <2>5, StreamsDiffer DEF Upload, ClientPC
<1>5. CASE SendUpload
  <2>1. /\ cpc = "upload" /\ toServer = <<>> /\ saved = 0 /\ sleft = 0 /\ acked = {}
        /\ spc = "upload" /\ size # Missing /\ toClient = <<>> /\ cleft = size
    BY <1>5 DEF SendUpload, Upload, Stands, Flow, ClientClosed
  <2>2. /\ UNCHANGED <<toClient, cleft, saved>> /\ cpc' \in {"receive", "ended"}
        /\ toServer' = <<"UPLOAD">>
    BY <1>5, <2>1, CommandStreams DEF SendUpload, ClientWrite, ServerClosed
  <2>3. TypedInv' BY <1>0, <2>2, CommandStreams DEF TypedInv, ClientPC
  <2>4. Stands' BY <1>0, <2>1, <2>2 DEF Stands
  <2>5. Flow'
    <3>1. toClient' \in Seq(FileUnits(server)) /\ Len(toClient') = 0 BY <2>1, <2>2, EmptySeq
    <3>2. size \in Nat BY <1>0, <2>1
    <3>3. Len(toClient') + sleft' <= cleft' /\ saved' + cleft' = size /\ cleft' <= size
      BY <1>0, <2>1, <2>2, <3>1, <3>2, SMT
    <3>. QED BY <1>0, <2>1, <2>2, <3>1, <3>3 DEF Flow
  <2>. QED BY <1>0, <2>1, <2>2, <2>3, <2>4, <2>5, StreamsDiffer DEF Upload, ClientPC
<1>6. CASE ReceiveData
  <2>1. /\ cpc = "receive" /\ cleft > 0 /\ toServer' = toServer /\ size # Missing
        /\ toClient \in Seq(FileUnits(server)) /\ Len(toClient) + sleft <= cleft
        /\ cleft <= size /\ (server = "linux" => saved + cleft = size)
        /\ acked = {} /\ toServer \notin {<<"UPLOAD", "200">>, <<"200">>}
    BY <1>6 DEF ReceiveData, Upload, Flow, ClientClosed
  <2>2. Len(toClient) \in Nat /\ cleft \in Nat /\ sleft \in Nat /\ saved \in Nat
    BY LenProperties DEF TypedInv, Upload
  <2>3. CASE ServerClosed /\ cpc' \in {"ack", "ended"} /\ UNCHANGED <<toClient, cleft, saved>>
    <3>1. TypedInv' BY <1>0, <2>1, <2>3 DEF TypedInv, ClientPC
    <3>2. ServerDone /\ spc # "upload" BY <2>3 DEF ServerDone, ServerClosed
    <3>3. Stands' BY <1>0, <1>d, <2>1, <2>3, <3>2 DEF Upload, Stands
    <3>4. Flow' BY <1>0, <1>d, <2>1, <2>3 DEF Flow
    <3>. QED BY <1>0, <2>1, <2>3, <3>1, <3>3, <3>4 DEF Upload, ClientPC
  <2>4. CASE toClient # <<>>
    <3>. DEFINE piece(n) == SubSeq(toClient, 1, n)
    <3>1. PICK n \in 1 .. AtMost(Len(toClient), IF client = "linux" THEN Buffer + 1 ELSE Piece) :
            /\ toClient' = After(toClient, n) /\ cleft' = cleft - n
            /\ \/ Saves(piece(n)) /\ cpc' = cpc
               \/ FallsShort(piece(n)) /\ cpc' \in {"ack", "ended"}
      BY <1>6, <2>4 DEF ReceiveData, BreaksTo
    <3>2. n \in 1 .. Len(toClient)
      <4>. DEFINE most == IF client = "linux" THEN Buffer + 1 ELSE Piece
      <4>1. most \in Int BY TransferAssumption, SMT
      <4>. HIDE DEF most
      <4>2. AtMost(Len(toClient), most) <= Len(toClient) /\ AtMost(Len(toClient), most) \in Int
        <5>1. Len(toClient) \in Int BY <2>2
        <5>. QED BY <4>1, <5>1, AtMostIsLess
      <4>3. n \in 1 .. AtMost(Len(toClient), most) BY <3>1 DEF most
      <4>. QED BY <2>2, <4>2, <4>3, SMT
    <3>3. n \in Nat /\ n \in 0 .. Len(toClient) /\ n <= cleft BY <2>1, <2>2, <3>2, SMT
    <3>4. /\ toClient' \in Seq(FileUnits(server)) /\ Len(toClient') = Len(toClient) - n
          /\ piece(n) \in Seq(FileUnits(server)) /\ Len(piece(n)) = n
      BY <2>1, <3>1, <3>3, AfterIsRest, ReadIsPart
    <3>. HIDE DEF piece
    <3>5. /\ saved' \in Nat
          /\ (Saves(piece(n)) /\ server = "linux" => saved' = saved + n)
          /\ (FallsShort(piece(n)) => FellShort')
      <4>1. server = "linux" => FileUnits(server) = {Byte} BY DEF FileUnits
      <4>2. Saves(piece(n)) \/ FallsShort(piece(n)) BY <3>1
      <4>. QED BY <2>2, <3>4, <4>1, <4>2, SavedGrows
    <3>6. cleft' \in Nat /\ cleft' <= size /\ Len(toClient') + sleft' <= cleft'
      <4>1. size \in Nat BY <1>0, <2>1
      <4>. QED BY <1>0, <2>1, <2>2, <3>1, <3>3, <3>4, <4>1, SMT
    <3>7. TypedInv'
      <4>1. toClient' \in Seq(Unit) BY <1>f, <3>4, WiderStream
      <4>2. cpc' \in ClientPC BY <2>1, <3>1 DEF ClientPC
      <4>. QED BY <1>0, <2>1, <3>5, <3>6, <4>1, <4>2 DEF TypedInv
    <3>8. (spc \in {"send", "wait"} \/ ServerDone) /\ toServer = <<>>
      <4>1. ~(spc = "upload" /\ toServer = <<"UPLOAD">>) BY <2>1, <2>4 DEF Upload, Stands, ServerDone
      <4>. QED BY <2>1, <4>1 DEF Upload, Stands
    <3>9. Stands' BY <1>0, <1>d, <2>1, <3>1, <3>8 DEF Stands
    <3>10. CASE Saves(piece(n)) /\ cpc' = cpc
      <4>1. server = "linux" => saved' + cleft' = size
        BY <2>1, <2>2, <3>1, <3>3, <3>5, <3>10, SMT
      <4>2. Flow' BY <1>0, <2>1, <3>4, <3>6, <3>10, <4>1 DEF Flow
      <4>. QED BY <1>0, <2>1, <3>7, <3>9, <3>10, <4>2 DEF Upload, ClientPC
    <3>11. CASE FallsShort(piece(n)) /\ cpc' \in {"ack", "ended"}
      <4>1. FellShort' BY <3>5, <3>11
      <4>2. Flow' BY <3>11, <4>1 DEF Flow
      <4>. QED BY <1>0, <2>1, <3>7, <3>9, <3>11, <4>2 DEF Upload, ClientPC
    <3>. QED BY <3>1, <3>10, <3>11
  <2>. QED BY <1>6, <2>3, <2>4 DEF ReceiveData, BreaksTo
<1>7. CASE DataReceived
  <2>1. /\ cpc = "receive" /\ cleft = 0 /\ cpc' = "ack"
        /\ UNCHANGED <<toServer, toClient, cleft, saved>>
        /\ (server = "linux" => saved + cleft = size)
        /\ acked = {} /\ toServer \notin {<<"UPLOAD", "200">>, <<"200">>}
    BY <1>7 DEF DataReceived, Upload, Flow, ClientClosed
  <2>2. server = "linux" => saved = size
    <3>1. saved \in Nat BY DEF TypedInv
    <3>. QED BY <2>1, <3>1, SMT
  <2>3. TypedInv' BY <1>0, <2>1 DEF TypedInv, ClientPC
  <2>4. Stands' BY <1>0, <1>d, <2>1 DEF Upload, Stands
  <2>5. Flow' BY <1>0, <2>1, <2>2 DEF Flow
  <2>. QED BY <1>0, <2>1, <2>3, <2>4, <2>5 DEF Upload, ClientPC
<1>8. CASE SendAck
  <2>1. /\ cpc = "ack" /\ UNCHANGED <<toClient, cleft, saved>> /\ cpc' \in {"ended", "gone"}
        /\ acked = {}
        /\ \/ spc = "upload" /\ toServer = <<"UPLOAD">>
           \/ (spc \in {"send", "wait"} \/ ServerDone) /\ toServer = <<>>
    BY <1>8 DEF SendAck, ClientWrite, Upload, Stands, ClientClosed
  <2>2. /\ ServerClosed => toServer' = toServer
        /\ ~ServerClosed => toServer' = toServer \o <<"200">>
    BY <1>8 DEF SendAck, ClientWrite
  <2>3. ~ServerClosed /\ server = "linux" => saved = size \/ FellShort BY <2>1 DEF Upload, Flow
  <2>4. \/ spc = "upload" /\ toServer' = <<"UPLOAD", "200">> /\ ~ServerClosed
        \/ (spc \in {"send", "wait"} \/ ServerDone) /\ toServer' = <<"200">> /\ ~ServerClosed
        \/ ServerDone /\ toServer' = <<>>
    BY <2>1, <2>2, CommandStreams DEF ServerClosed, ServerDone
  <2>5. TypedInv' BY <1>0, <2>1, <2>4, CommandStreams DEF TypedInv, ClientPC
  <2>6. Stands' /\ Flow' BY <2>1 DEF Stands, Flow
  <2>7. toServer' \in {<<"UPLOAD", "200">>, <<"200">>} =>
          (server = "linux" => saved' = size \/ FellShort')
    BY <1>0, <2>1, <2>3, <2>4, StreamsDiffer
  <2>8. ClientClosed' BY <2>1 DEF ClientClosed
  <2>. QED BY <1>0, <2>1, <2>4, <2>5, <2>6, <2>7, <2>8 DEF Upload, ClientPC, ServerDone
<1>9. SendRequest \/ ReadCode \/ OpenDestination \/ ReadSize \/ SendUpload \/ ReceiveData
      \/ DataReceived \/ SendAck
  <2>1. cpc \notin {"send", "wait"} BY DEF Upload
  <2>. QED BY <2>1 DEF Client, SendData, DataSent, WaitAck
<1>. QED BY <1>1, <1>2, <1>3, <1>4, <1>5, <1>6, <1>7, <1>8, <1>9
\* The server's steps.
LEMMA UploadServerKeeps ==
  ASSUME FixedInv, TypedInv, request = "UPLOAD", Upload, Server
  PROVE  TypedInv' /\ Upload'
<1>0. /\ client' = client /\ server' = server /\ size' = size
      /\ client \in {"linux", "windows"} /\ server \in {"linux", "windows"}
      /\ FileUnits(server)' = FileUnits(server) /\ size \in Nat \cup {Missing}
      /\ UNCHANGED <<cpc, cleft, saved>>
      /\ mishaps' \subseteq Kinds /\ (FellShort => FellShort')
  <2>1. UNCHANGED fixed /\ mishaps' \subseteq Kinds /\ (FellShort => FellShort')
    BY FixedKeeps, MishapsStay DEF Next
  <2>2. spc \notin {"receive", "ack"} BY DEF Upload
  <2>3. UNCHANGED <<cpc, cleft, saved>>
    BY <2>2 DEF Server, ReadCommand, ReceiveFile, FileReceived, WriteAck, AnswerSize, ReadUpload,
       SendFile, FileSent, ReadAck, WriteLog, clientVars
  <2>. QED BY <2>1, <2>3 DEF fixed, FixedInv, OS, FileUnits
<1>f. FileUnits(server) \subseteq Unit BY DEF FileUnits, Unit
<1>c. cpc \in {"request", "code", "open", "value", "upload", "receive", "ack", "ended", "gone"}
      /\ (ClientClosed <=> cpc \in {"ended", "gone"}) /\ (ClientClosed' <=> ClientClosed)
  BY <1>0 DEF Upload, ClientPC, ClientClosed
<1>1. CASE ReadCommand
  <2>1. spc = "command" /\ UNCHANGED <<toClient, disk, reset, acked>> /\ toServer \in {<<>>, <<"SIZE">>}
    BY <1>1 DEF ReadCommand, Upload
  <2>2. CASE toServer = <<>>
    <3>1. ClientClosed /\ spc' = "closed" /\ UNCHANGED <<toServer, sleft, mishaps>>
      BY <1>1, <2>2 DEF ReadCommand
    <3>2. TypedInv' BY <1>0, <2>1, <3>1 DEF TypedInv, ServerPC
    <3>3. Stands' /\ Flow' BY <1>0, <1>c, <3>1 DEF Stands, Flow
    <3>. QED BY <1>0, <2>1, <2>2, <3>1, <3>2, <3>3, <1>c DEF Upload, ServerPC
  <2>3. CASE toServer = <<"SIZE">>
    <3>1. toServer # <<>> /\ Head(toServer) = "SIZE" /\ Len(toServer) = 1
      BY <2>3, CommandStreams, StreamsDiffer
    <3>2. PICK extra \in 0 .. (IF May("merge") THEN Len(toServer) - 1 ELSE 0) :
            /\ toServer' = After(toServer, extra + 1)
            /\ sleft' = sleft /\ spc' = IF size = Missing THEN "400" ELSE "300"
      BY <1>1, <3>1 DEF ReadCommand
    <3>3. extra + 1 \in 0 .. Len(toServer) /\ extra + 1 = 1 BY <3>1, <3>2, SMT
    <3>4. toServer' = <<>>
      <4>0. toServer' = After(toServer, 1) /\ 1 \in 0 .. Len(toServer) BY <3>1, <3>2, <3>3
      <4>1. toServer' \in Seq(Unit) /\ Len(toServer') = 1 - 1
        BY <3>1, <4>0, AfterIsRest, ZenonT(60) DEF TypedInv
      <4>2. Len(toServer') = 0 BY <4>1, SMT
      <4>. QED BY <4>1, <4>2, EmptySeq
    <3>5. TypedInv' BY <1>0, <2>1, <3>2, <3>4, CommandStreams DEF TypedInv, ServerPC
    <3>6. Stands' BY <1>0, <2>1, <2>3, <3>2, <3>4, StreamsDiffer DEF Upload, Stands, ServerDone
    <3>7. Flow'
      <4>1. cpc \notin {"open", "value", "upload", "receive", "ack"}
        BY <2>1 DEF Upload, Stands, ServerDone
      <4>. QED BY <1>0, <3>2, <4>1 DEF Upload, Flow
    <3>. QED BY <1>0, <2>1, <3>2, <3>4, <3>5, <3>6, <3>7, <1>c, StreamsDiffer DEF Upload, ServerPC
  <2>. QED BY <2>1, <2>2, <2>3
<1>2. CASE AnswerSize
  <2>1. /\ spc \in {"400", "300", "size"} /\ UNCHANGED <<toServer, disk, sleft, acked, mishaps>>
        /\ toServer = <<>> /\ reset' \in BOOLEAN
        /\ cpc \in {"code", "open", "value", "ended", "gone"}
    <3>1. spc \in {"400", "300", "size"} BY <1>2 DEF AnswerSize
    <3>2. cpc \notin {"request", "upload", "receive", "ack"}
      BY <3>1 DEF Upload, Stands, ServerDone
    <3>. QED BY <1>2, <3>1, <3>2, <1>c DEF AnswerSize, ServerWrite, TypedInv, Upload
  <2>2. CASE ClientClosed
    <3>1. /\ toClient' = toClient
          /\ \/ spc' \in {"log", "closed", "killed", "exited"}
             \/ spc = "300" /\ spc' = "size"
             \/ spc = "size" /\ spc' = "upload"
      BY <1>2, <2>2 DEF AnswerSize, ServerWrite, LeavesTo, WriteEnds
    <3>2. TypedInv' BY <1>0, <2>1, <3>1 DEF TypedInv, ServerPC
    <3>3. Stands' /\ Flow' BY <1>0, <1>c, <2>2 DEF Stands, Flow
    <3>. QED BY <1>0, <2>1, <3>1, <3>2, <3>3, <1>c DEF Upload, ServerPC
  <2>3. CASE ~ClientClosed
    <3>1. \/ spc = "400" /\ toClient' = toClient \o <<"400">> /\ spc' \in {"log", "closed"}
          \/ spc = "300" /\ toClient' = toClient \o <<"300">> /\ spc' = "size"
          \/ spc = "size" /\ toClient' = toClient \o <<"value">> /\ spc' = "upload"
      BY <1>2, <2>3 DEF AnswerSize, ServerWrite, LeavesTo
    <3>2. \/ cpc = "code" /\ spc \in {"400", "300"} /\ toClient = <<>>
          \/ cpc = "code" /\ spc = "size" /\ toClient = <<"300">>
          \/ cpc \in {"open", "value"} /\ spc = "size" /\ toClient = <<>>
      BY <2>1, <2>3, <1>c DEF Upload, Stands
    <3>3. \/ cpc = "code" /\ spc' \in {"log", "closed"} /\ toClient' = <<"400">>
          \/ cpc = "code" /\ spc' = "size" /\ toClient' = <<"300">> /\ spc = "300"
          \/ cpc = "code" /\ spc' = "upload" /\ toClient' = <<"300", "value">> /\ spc = "size"
          \/ cpc \in {"open", "value"} /\ spc' = "upload" /\ toClient' = <<"value">> /\ spc = "size"
      BY <3>1, <3>2, CommandStreams
    <3>4. TypedInv' BY <1>0, <2>1, <3>3, CommandStreams DEF TypedInv, ServerPC
    <3>5. Stands' BY <1>0, <2>1, <3>3 DEF Stands
    <3>6. Flow' BY <1>0, <2>1, <3>3 DEF Upload, Flow
    <3>. QED BY <1>0, <2>1, <3>3, <3>4, <3>5, <3>6, <1>c DEF Upload, ServerPC
  <2>. QED BY <2>2, <2>3
<1>3. CASE ReadUpload
  <2>1. spc = "upload" /\ UNCHANGED <<toClient, disk, reset, acked, mishaps>>
        /\ toServer \in {<<>>, <<"UPLOAD">>, <<"UPLOAD", "200">>} /\ size \in Nat
    BY <1>0, <1>3 DEF ReadUpload, Upload
  <2>2. CASE toServer = <<>>
    <3>1. ClientClosed /\ spc' \in {"log", "exited"} /\ UNCHANGED <<toServer, sleft>>
      BY <1>3, <2>2 DEF ReadUpload
    <3>2. TypedInv' BY <1>0, <2>1, <3>1 DEF TypedInv, ServerPC
    <3>3. Stands' /\ Flow' BY <1>0, <1>c, <3>1 DEF Stands, Flow
    <3>. QED BY <1>0, <2>1, <2>2, <3>1, <3>2, <3>3, <1>c DEF Upload, ServerPC
  <2>3. CASE toServer # <<>>
    <3>1. /\ toServer' = Tail(toServer) /\ sleft' = size /\ spc' \in {"send", "log"}
      BY <1>3, <2>3 DEF ReadUpload
    <3>2. \/ toServer = <<"UPLOAD">> /\ toServer' = <<>>
          \/ toServer = <<"UPLOAD", "200">> /\ toServer' = <<"200">>
      BY <2>1, <2>3, <3>1, CommandStreams
    <3>3. \/ cpc \in {"ended", "gone"}
          \/ /\ cpc \in {"receive", "ack"} /\ toServer' = <<>>
             /\ cpc = "receive" => toClient = <<>> /\ cleft = size
      BY <1>c, <2>1, <2>3, <3>2, StreamsDiffer DEF Upload, Stands, ServerDone
    <3>4. TypedInv' BY <1>0, <2>1, <3>1, <3>2, CommandStreams DEF TypedInv, ServerPC
    <3>5. Stands' BY <1>0, <3>1, <3>3 DEF Stands, ServerDone
    <3>6. Flow'
      <4>1. CASE cpc = "receive"
        <5>1. Len(toClient') + sleft' <= cleft'
          <6>1. Len(toClient') = 0 /\ sleft' = size /\ cleft' = size BY <1>0, <2>1, <3>1, <3>3, <4>1, EmptySeq
          <6>. QED BY <2>1, <6>1, SMT
        <5>2. toClient \in Seq(FileUnits(server)) /\ cleft <= size /\ size # Missing
              /\ (server = "linux" => saved + cleft = size)
          BY <4>1 DEF Upload, Flow
        <5>. QED BY <1>0, <2>1, <4>1, <5>1, <5>2 DEF Flow
      <4>2. CASE cpc = "ack"
        <5>1. server = "linux" => saved = size \/ FellShort
          BY <2>1, <4>2 DEF Upload, Flow, ServerClosed
        <5>. QED BY <1>0, <4>2, <5>1 DEF Flow
      <4>3. CASE cpc \in {"ended", "gone"} BY <1>0, <4>3 DEF Flow
      <4>. QED BY <3>3, <4>1, <4>2, <4>3
    <3>7. size # Missing /\ sleft' \in Nat BY <2>1, <3>1 DEF Upload
    <3>. QED BY <1>0, <2>1, <3>1, <3>2, <3>4, <3>5, <3>6, <3>7, <1>c, StreamsDiffer DEF Upload, ServerPC
  <2>. QED BY <2>2, <2>3
<1>4. CASE SendFile
  <2>. DEFINE chunk == Chunk(server, sleft)
  <2>1. sleft \in Nat /\ cleft \in Nat /\ Len(toClient) \in Nat /\ disk \in Nat
    BY LenProperties DEF Upload, TypedInv
  <2>2. /\ chunk.read \in 0 .. disk /\ chunk.left \in Nat /\ chunk.units \in Seq(FileUnits(server))
        /\ Len(chunk.units) + chunk.left <= sleft /\ Len(chunk.units) \in Nat
    BY <2>1, ChunkOfFile, LenProperties DEF FixedInv
  <2>3. /\ spc = "send" /\ UNCHANGED <<toServer, acked, mishaps>> /\ reset' \in BOOLEAN
        /\ \/ /\ sleft' = chunk.left /\ disk' = disk - chunk.read
              /\ \/ ~ClientClosed /\ toClient' = toClient \o chunk.units /\ spc' = "send"
                 \/ ClientClosed /\ toClient' = toClient /\ spc' \in {"send", "killed", "exited"}
           \/ UNCHANGED <<toClient, sleft, disk>> /\ spc' \in {"killed", "wait"}
    BY <1>4 DEF SendFile, ServerWrite, WriteEnds, TypedInv
  <2>. HIDE DEF chunk
  <2>4. cpc \in {"receive", "ack", "ended", "gone"} /\ (cpc \in {"receive", "ack"} => toServer = <<>>)
    BY <2>3, <1>c DEF Upload, Stands, ServerDone
  <2>5. sleft' \in Nat /\ disk' \in Nat BY <2>1, <2>2, <2>3, SMT
  <2>6. toClient' \in Seq(Unit)
    <3>1. chunk.units \in Seq(Unit) BY <1>f, <2>2, WiderStream
    <3>. QED BY <2>3, <3>1, JoinIsStream DEF TypedInv
  <2>7. TypedInv' BY <1>0, <2>3, <2>5, <2>6 DEF TypedInv, ServerPC
  <2>8. Stands' BY <1>0, <2>3, <2>4 DEF Stands, ServerDone
  <2>9. Flow'
    <3>1. CASE cpc = "receive"
      <4>1. toClient \in Seq(FileUnits(server)) /\ Len(toClient) + sleft <= cleft /\ size # Missing
            /\ cleft <= size /\ (server = "linux" => saved + cleft = size)
        BY <3>1 DEF Upload, Flow
      <4>2. toClient' \in Seq(FileUnits(server)) /\ Len(toClient') + sleft' <= cleft'
        <5>1. CASE toClient' = toClient \o chunk.units /\ sleft' = chunk.left
          <6>1. /\ toClient' \in Seq(FileUnits(server))
                /\ Len(toClient') = Len(toClient) + Len(chunk.units)
            BY <2>2, <4>1, <5>1, JoinIsStream
          <6>. QED BY <1>0, <2>1, <2>2, <4>1, <5>1, <6>1, SMT
        <5>2. CASE toClient' = toClient /\ sleft' = sleft BY <1>0, <4>1, <5>2
        <5>. QED BY <2>3, <3>1, <5>1, <5>2 DEF ClientClosed
      <4>. QED BY <1>0, <3>1, <4>1, <4>2 DEF Flow
    <3>2. CASE cpc = "ack"
      <4>1. server = "linux" => saved = size \/ FellShort
        BY <2>3, <3>2 DEF Upload, Flow, ServerClosed
      <4>. QED BY <1>0, <3>2, <4>1 DEF Flow
    <3>3. CASE cpc \in {"ended", "gone"} BY <1>0, <3>3 DEF Flow
    <3>. QED BY <2>4, <3>1, <3>2, <3>3
  <2>. QED BY <1>0, <2>3, <2>5, <2>7, <2>8, <2>9, <1>c DEF Upload, ServerPC
<1>5. CASE FileSent
  <2>1. /\ spc = "send" /\ spc' \in {"wait", "closed"}
        /\ UNCHANGED <<toServer, toClient, disk, sleft, reset, acked, mishaps>>
    BY <1>5 DEF FileSent
  <2>2. cpc \in {"receive", "ack", "ended", "gone"} /\ (cpc \in {"receive", "ack"} => toServer = <<>>)
    BY <2>1, <1>c DEF Upload, Stands, ServerDone
  <2>3. TypedInv' BY <1>0, <2>1 DEF TypedInv, ServerPC
  <2>4. Stands' BY <1>0, <2>1, <2>2 DEF Stands, ServerDone
  <2>5. Flow' BY <1>0, <2>1, <2>2 DEF Upload, Flow, ServerClosed
  <2>. QED BY <1>0, <2>1, <2>3, <2>4, <2>5, <1>c DEF Upload, ServerPC
<1>6. CASE ReadAck
  <2>1. /\ spc = "wait" /\ UNCHANGED <<toClient, disk, sleft, reset, mishaps>>
        /\ toServer \in {<<>>, <<"200">>}
    BY <1>6 DEF ReadAck, Upload
  <2>2. ClientClosed
    <3>1. CASE toServer = <<>> BY <1>6, <3>1 DEF ReadAck
    <3>2. CASE toServer = <<"200">> BY <3>2 DEF Upload
    <3>. QED BY <2>1, <3>1, <3>2
  <2>3. /\ spc' \in {"wait", "log", "exited"}
        /\ toServer' = <<>>
        /\ \/ acked' = acked
           \/ /\ acked' = acked \cup {"server"} /\ server = "linux" /\ toServer = <<"200">>
    BY <1>6, <2>1, CommandStreams, StreamsDiffer DEF ReadAck
  <2>4. acked' # {} => server = "linux" /\ (saved = size \/ FellShort)
    <3>1. toServer = <<"200">> \/ acked # {} => (server = "linux" => saved = size \/ FellShort)
      BY DEF Upload
    <3>2. acked # {} => server = "linux" BY DEF Upload
    <3>. QED BY <2>3, <3>1, <3>2
  <2>5. TypedInv' BY <1>0, <2>1, <2>3, CommandStreams DEF TypedInv, ServerPC
  <2>6. Stands' /\ Flow' BY <1>0, <1>c, <2>2 DEF Stands, Flow
  <2>. QED BY <1>0, <1>c, <2>1, <2>2, <2>3, <2>4, <2>5, <2>6, StreamsDiffer DEF Upload, ServerPC
<1>7. CASE WriteLog
  <2>1. /\ spc = "log" /\ spc' = "closed"
        /\ UNCHANGED <<toServer, toClient, disk, sleft, reset, acked, mishaps>>
    BY <1>7 DEF WriteLog
  <2>2. TypedInv' BY <1>0, <2>1 DEF TypedInv, ServerPC
  <2>3. Stands' BY <1>0, <2>1 DEF Upload, Stands, ServerDone
  <2>4. Flow' BY <1>0, <2>1 DEF Upload, Flow, ServerClosed
  <2>. QED BY <1>0, <1>c, <2>1, <2>2, <2>3, <2>4 DEF Upload, ServerPC
<1>8. ReadCommand \/ AnswerSize \/ ReadUpload \/ SendFile \/ FileSent \/ ReadAck \/ WriteLog
  <2>1. spc \notin {"receive", "ack"} BY DEF Upload
  <2>. QED BY <2>1 DEF Server, ReceiveFile, FileReceived, WriteAck
<1>. QED BY <1>1, <1>2, <1>3, <1>4, <1>5, <1>6, <1>7, <1>8

\* A killed client, a shorter file.
LEMMA UploadMishapKeeps ==
  ASSUME FixedInv, TypedInv, request = "UPLOAD", Upload, Die \/ Shrink \/ UNCHANGED vars
  PROVE  TypedInv' /\ Upload'
<1>0. /\ client' = client /\ server' = server /\ size' = size
      /\ FileUnits(server)' = FileUnits(server)
      /\ UNCHANGED <<toServer, toClient, cleft, sleft, saved, spc, reset, acked>>
      /\ (ServerDone' <=> ServerDone) /\ (ServerClosed' <=> ServerClosed)
  BY DEF Die, Shrink, vars, fixed, serverVars, clientVars, FileUnits, ServerDone, ServerClosed
<1>m. mishaps' \subseteq Kinds /\ (FellShort => FellShort') BY MishapsStay DEF Next
<1>1. disk' \in Nat /\ cpc' \in {cpc, "gone"}
  <2>1. disk \in Nat BY DEF TypedInv
  <2>2. \A d \in 0 .. disk - 1 : d \in Nat BY <2>1, SMT
  <2>. QED BY <2>1, <2>2 DEF Die, Shrink, vars, TypedInv, clientVars
<1>2. TypedInv' BY <1>0, <1>m, <1>1 DEF TypedInv, ClientPC
<1>3. Stands' /\ Flow'
  <2>1. CASE cpc' = "gone" BY <2>1 DEF Stands, Flow
  <2>2. CASE cpc' = cpc BY <1>0, <1>m, <2>2 DEF Upload, Stands, Flow
  <2>. QED BY <1>1, <2>1, <2>2
<1>4. ClientClosed => ClientClosed' BY <1>1 DEF ClientClosed
<1>5. cpc' \in ClientPC \ {"send", "wait"} BY <1>1 DEF Upload, ClientPC
<1>. QED BY <1>0, <1>m, <1>2, <1>3, <1>4, <1>5 DEF Upload

-----------------------------------------------------------------------------
(* The theorems.                                                            *)

\* The invariant is inductive: the two ends of a transfer stay in step, and the bytes
\* due, in flight and still to be sent stay in account.
THEOREM TransferInvariant == Spec => [](TransferInv /\ LogInv)
<1>1. Init => TransferInv /\ LogInv
  <2>. SUFFICES ASSUME Init PROVE TransferInv /\ LogInv
    OBVIOUS
  <2>1. FixedInv BY FixedHolds
  <2>2. /\ toServer = <<>> /\ toClient = <<>> /\ cleft = 0 /\ sleft = 0 /\ saved = 0
        /\ cpc = "request" /\ spc = "command" /\ reset = FALSE
        /\ acked = {} /\ heard = <<>> /\ log = <<>> /\ mishaps = {}
        /\ disk = IF size = Missing THEN 0 ELSE size
    BY DEF Init
  <2>3. disk \in Nat BY <2>1, <2>2 DEF FixedInv
  <2>4. TypedInv BY <2>2, <2>3, CommandStreams DEF TypedInv, ClientPC, ServerPC
  <2>5. Download
    <3>1. <<>> \in Seq({"200"}) BY EmptySeq
    <3>. QED BY <2>2, <3>1 DEF Download, CommandInFlight
  <2>6. Upload
    <3>1. Stands BY <2>2 DEF Stands
    <3>2. Flow BY <2>2 DEF Flow
    <3>. QED BY <2>2, <3>1, <3>2, StreamsDiffer DEF Upload, ClientPC, ServerPC
  <2>7. LogInv
    <3>1. <<>> # <<"SIZE", "UPLOAD">> BY SMT
    <3>. QED BY <2>2, <3>1 DEF LogInv
  <2>. QED BY <2>1, <2>4, <2>5, <2>6, <2>7 DEF TransferInv
<1>2. TransferInv /\ LogInv /\ [Next]_vars => (TransferInv /\ LogInv)'
  <2>. SUFFICES ASSUME TransferInv, LogInv, [Next]_vars PROVE TransferInv' /\ LogInv'
    OBVIOUS
  <2>1. FixedInv /\ TypedInv /\ request \in {"DOWNLOAD", "UPLOAD"} BY DEF TransferInv, FixedInv
  <2>2. FixedInv' /\ request' = request
    <3>1. UNCHANGED <<client, server, request, size>> BY FixedKeeps DEF fixed
    <3>. QED BY <2>1, <3>1 DEF FixedInv
  <2>3. LogInv' BY <2>1, LogKeeps
  <2>4. Client \/ Server \/ Die \/ Shrink \/ UNCHANGED vars BY DEF Next
  <2>5. CASE request = "DOWNLOAD"
    <3>1. TypedInv' /\ Download'
      BY <2>1, <2>4, <2>5, DownloadClientKeeps, DownloadServerKeeps, DownloadMishapKeeps DEF TransferInv
    <3>. QED BY <2>2, <2>3, <2>5, <3>1 DEF TransferInv
  <2>6. CASE request = "UPLOAD"
    <3>1. TypedInv' /\ Upload'
      BY <2>1, <2>4, <2>6, UploadClientKeeps, UploadServerKeeps, UploadMishapKeeps DEF TransferInv
    <3>. QED BY <2>2, <2>3, <2>6, <3>1 DEF TransferInv
  <2>. QED BY <2>1, <2>5, <2>6
<1>. QED BY <1>1, <1>2, PTL DEF Spec

\* The type invariant, for files, buffers and pieces of every size: no end ever counts
\* down below 0 what it is still to receive, but for the -1 of a file that is missing.
THEOREM TypeCorrect == Spec => []TypeOK
<1>1. TransferInv /\ LogInv => TypeOK
  <2>. SUFFICES ASSUME TransferInv, LogInv PROVE TypeOK
    OBVIOUS
  <2>1. log \in {<<>>, <<"DOWNLOAD">>, <<"SIZE">>, <<"SIZE", "UPLOAD">>} BY DEF LogInv
  <2>2. \A s \in {<<>>, <<"DOWNLOAD">>, <<"SIZE">>, <<"SIZE", "UPLOAD">>} : s \in Seq(Unit)
    <3>1. "DOWNLOAD" \in Unit /\ "SIZE" \in Unit /\ "UPLOAD" \in Unit BY DEF Unit
    <3>. QED BY <3>1, ShortStreams, ZenonT(60)
  <2>3. heard \in Seq(Unit) /\ log \in Seq(Unit) BY <2>1, <2>2 DEF LogInv
  <2>. QED BY <2>3 DEF TransferInv, FixedInv, TypedInv, TypeOK
<1>. QED BY <1>1, TransferInvariant, PTL

\* An end that took the OK of a transfer can rely on it, between any two platforms, for
\* files, buffers and pieces of every size, however the streams are cut into reads, when
\* clients die and when files become shorter under way: unless a write to the destination
\* took less than was read, the other end has saved the whole file.  (With such a write
\* the Linux loops are left and the OK is sent all the same.)
THEOREM AckAlwaysMeansComplete == Spec => []AckMeansComplete
<1>1. TransferInv => AckMeansComplete
  BY DEF TransferInv, FixedInv, Download, Upload, AckMeansComplete, FellShort
<1>. QED BY <1>1, TransferInvariant, PTL

\* The log of a closed conversation holds the commands that were read, each once and in
\* order, on Linux, and on Windows the one that began the conversation.
THEOREM AlwaysLogged == Spec => []RequestsLogged
<1>1. FixedInv /\ LogInv => RequestsLogged
  <2>. SUFFICES ASSUME FixedInv, LogInv, spc = "closed"
                PROVE  log = IF server = "linux" THEN heard
                             ELSE SubSeq(heard, 1, AtMost(Len(heard), 1))
    BY DEF RequestsLogged
  <2>1. CASE server = "linux" BY <2>1 DEF LogInv
  <2>2. CASE server # "linux"
    <3>1. /\ heard \in {<<>>, <<"DOWNLOAD">>, <<"SIZE">>, <<"SIZE", "UPLOAD">>}
          /\ log = IF heard = <<"SIZE", "UPLOAD">> THEN <<"SIZE">> ELSE heard
      BY <2>2 DEF LogInv
    <3>2. "DOWNLOAD" \in Unit /\ "SIZE" \in Unit /\ "UPLOAD" \in Unit BY DEF Unit
    <3>3. /\ Len(<<>>) = 0 /\ Len(<<"DOWNLOAD">>) = 1 /\ Len(<<"SIZE">>) = 1
          /\ Len(<<"SIZE", "UPLOAD">>) = 2
      BY <3>2, ShortStreams
    <3>4. AtMost(0, 1) = 0 /\ AtMost(1, 1) = 1 /\ AtMost(2, 1) = 1 BY SMT DEF AtMost
    <3>5. /\ SubSeq(<<>>, 1, 0) = <<>> /\ SubSeq(<<"DOWNLOAD">>, 1, 1) = <<"DOWNLOAD">>
          /\ SubSeq(<<"SIZE">>, 1, 1) = <<"SIZE">> /\ SubSeq(<<"SIZE", "UPLOAD">>, 1, 1) = <<"SIZE">>
      BY <3>2, FirstCommand
    <3>6. <<"DOWNLOAD">> # <<"SIZE", "UPLOAD">> /\ <<"SIZE">> # <<"SIZE", "UPLOAD">>
          /\ <<>> # <<"SIZE", "UPLOAD">>
      BY SMT
    <3>. QED BY <2>2, <3>1, <3>3, <3>4, <3>5, <3>6
  <2>. QED BY <2>1, <2>2
<1>2. TransferInv => FixedInv BY DEF TransferInv
<1>. QED BY <1>1, <1>2, TransferInvariant, PTL
=============================================================================
