----------------------------- MODULE OutputProofs -----------------------------
(***************************************************************************)
(* What the client prints of LSF and EXEC, for outputs and buffers of      *)
(* every size and every way to cut the stream into reads.  The inductive   *)
(* invariant splits the stream into what is printed, what the client holds *)
(* and what it has not read, and the algebra of C strings (TextJoins) does *)
(* the rest: as long as no 0 lies inside the stream, the text of two       *)
(* pieces is the text of the first and then that of the second.            *)
(***************************************************************************)
EXTENDS Output, SequenceTheorems, WellFoundedInduction, TLAPS

Line == {Nul, Inner} \cup (Nat \ {0})

\* The part that was read and is not yet printed: the Windows client prints each read.
Held == IF client = "linux" THEN buff ELSE <<>>

FixedInv ==
  /\ <<client, server>> \in Platforms /\ client \in OS /\ server \in OS
  /\ request \in Requests /\ request \in {"LSF", "EXEC"}
  /\ output \in Outputs[request] /\ output \in Seq(Line)

TypedInv ==
  /\ lines \in Seq(Line) /\ \E given \in Seq(Line) : output = given \o lines
  /\ code \in {"", "300", "400"}
  /\ sent \in Seq(Int) /\ toClient \in Seq(Int) /\ buff \in Seq(Int) /\ printed \in Seq(Int)
  /\ Len(buff) <= Buffer + 1 /\ (client = "linux" => Len(buff) < Buffer)
  /\ cpc \in ClientPC /\ spc \in ServerPC /\ reset \in BOOLEAN /\ death \in BOOLEAN
  /\ (spc = "command" => lines = output) /\ (spc = "copy" => lines # <<>>)
  /\ \E given \in Seq(Int) : sent = given \o toClient

-----------------------------------------------------------------------------
(* Who ends early.                                                          *)

Ordinary == \A i \in DOMAIN output : output[i] \notin {Nul, Inner}

\* The marker is the last thing the server sends, so only a killed or a crashed client
\* closes before the server does.
HarmlessInv ==
  /\ code = "400" => ServerClosed
  /\ cpc \in {"refused", "cut"} => ServerClosed
  /\ cpc = "gone" => death
  /\ Ordinary =>
       /\ ~ServerClosed => sent \in Seq(Nat) /\ toClient \in Seq(Nat) /\ buff \in Seq(Nat)
       /\ cpc = "done" => ServerClosed \/ death
       /\ spc \in {"killed", "exited"} => death \/ cpc = "crashed"

-----------------------------------------------------------------------------
(* What is printed.                                                         *)

\* The stream is what is printed, what the client holds and what is not yet read.
Reading ==
  \E past \in Seq(Int) : sent = (past \o Held) \o toClient /\ printed = CString(past)

\* The last buffer held the marker; it is printed twice if it was full.
Finished ==
  \E past \in Seq(Int), last \in Seq(Int) :
    /\ sent = (past \o last) \o toClient /\ Strstr(CString(last), END_OF_LINE)
    /\ \/ printed = CString(past) \o CString(last)
       \/ /\ client = "linux" /\ Len(last) = Buffer
          /\ printed = (CString(past) \o CString(last)) \o CString(last)

StreamInv == Orderly => IF cpc = "done" THEN Finished ELSE Reading

OutputInv == FixedInv /\ TypedInv /\ HarmlessInv

-----------------------------------------------------------------------------
(* Pieces of streams.                                                       *)

\* The lesser of two numbers.
LEMMA AtMostIsLess ==
  ASSUME NEW n \in Int, NEW max \in Int
  PROVE  AtMost(n, max) \in Int /\ AtMost(n, max) <= n /\ AtMost(n, max) <= max
BY SMT DEF AtMost

\* A read of n units and what it leaves.
LEMMA ReadAndRest ==
  ASSUME NEW S, NEW s \in Seq(S), NEW n \in 0 .. Len(s)
  PROVE  /\ SubSeq(s, 1, n) \in Seq(S) /\ Len(SubSeq(s, 1, n)) = n
         /\ \A i \in 1 .. n : SubSeq(s, 1, n)[i] = s[i]
         /\ After(s, n) \in Seq(S) /\ Len(After(s, n)) = Len(s) - n
         /\ s = SubSeq(s, 1, n) \o After(s, n)
<1>1. Len(s) \in Nat BY LenProperties
<1>2. n \in Int /\ 1 \in Int /\ n + 1 \in Int /\ Len(s) \in Int BY <1>1, SMT
<1>3. \A i \in 1 .. n : s[i] \in S
  <2>1. ASSUME NEW i \in 1 .. n PROVE i \in 1 .. Len(s) BY <1>1, SMT
  <2>. QED BY <2>1, ElementOfSeq
<1>4. \A i \in n + 1 .. Len(s) : s[i] \in S
  <2>1. ASSUME NEW i \in n + 1 .. Len(s) PROVE i \in 1 .. Len(s) BY <1>1, SMT
  <2>. QED BY <2>1, ElementOfSeq
<1>5. /\ SubSeq(s, 1, n) \in Seq(S)
      /\ Len(SubSeq(s, 1, n)) = IF 1 <= n THEN n - 1 + 1 ELSE 0
      /\ \A i \in 1 .. n - 1 + 1 : SubSeq(s, 1, n)[i] = s[1 + i - 1]
  BY <1>2, <1>3, SubSeqProperties
<1>6. /\ After(s, n) \in Seq(S)
      /\ Len(After(s, n)) = IF n + 1 <= Len(s) THEN Len(s) - (n + 1) + 1 ELSE 0
  BY <1>2, <1>4, SubSeqProperties DEF After
<1>7. SubSeq(s, 1, n) \o SubSeq(s, n + 1, Len(s)) = SubSeq(s, 1, Len(s))
  <2>1. 1 \in 1 .. Len(s) + 1 /\ n \in 1 - 1 .. Len(s) /\ Len(s) \in n .. Len(s)
    BY <1>1, SMT
  <2>. QED BY <2>1, ConcatAdjacentSubSeq
<1>8. SubSeq(s, 1, Len(s)) = s BY SubSeqFull
<1>9. \A i \in 1 .. n : SubSeq(s, 1, n)[i] = s[i]
  <2>1. ASSUME NEW i \in 1 .. n PROVE i \in 1 .. n - 1 + 1 /\ 1 + i - 1 = i BY SMT
  <2>. QED BY <1>5, <2>1
<1>10. Len(SubSeq(s, 1, n)) = n /\ Len(After(s, n)) = Len(s) - n
  <2>1. (IF 1 <= n THEN n - 1 + 1 ELSE 0) = n BY SMT
  <2>2. (IF n + 1 <= Len(s) THEN Len(s) - (n + 1) + 1 ELSE 0) = Len(s) - n BY <1>1, SMT
  <2>. QED BY <1>5, <1>6, <2>1, <2>2
<1>11. s = SubSeq(s, 1, n) \o After(s, n) BY <1>7, <1>8 DEF After
<1>. QED BY <1>5, <1>6, <1>9, <1>10, <1>11

\* A stream is the beginning of what grows out of it.
LEMMA JoinBegins ==
  ASSUME NEW S, NEW s \in Seq(S), NEW t \in Seq(S)
  PROVE  IsPrefix(s, s \o t) /\ SubSeq(s \o t, 1, Len(s)) = s /\ After(s \o t, Len(s)) = t
<1>1. /\ s \o t \in Seq(S) /\ Len(s \o t) = Len(s) + Len(t)
      /\ \A i \in 1 .. Len(s) + Len(t) : (s \o t)[i] = IF i <= Len(s) THEN s[i] ELSE t[i - Len(s)]
  BY ConcatProperties
<1>2. Len(s) \in Nat /\ Len(t) \in Nat BY LenProperties
<1>3. Len(s) \in 0 .. Len(s \o t) BY <1>1, <1>2, SMT
<1>4. /\ SubSeq(s \o t, 1, Len(s)) \in Seq(S) /\ Len(SubSeq(s \o t, 1, Len(s))) = Len(s)
      /\ \A i \in 1 .. Len(s) : SubSeq(s \o t, 1, Len(s))[i] = (s \o t)[i]
  BY <1>1, <1>3, ReadAndRest
<1>5. SubSeq(s \o t, 1, Len(s)) = s
  <2>1. ASSUME NEW i \in 1 .. Len(s) PROVE SubSeq(s \o t, 1, Len(s))[i] = s[i]
    <3>1. i \in 1 .. Len(s) + Len(t) /\ i <= Len(s) BY <1>2, SMT
    <3>. QED BY <1>1, <1>4, <3>1
  <2>. QED BY <1>4, <2>1, SeqEqual
<1>6. s \o After(s \o t, Len(s)) = s \o t /\ After(s \o t, Len(s)) \in Seq(S)
  BY <1>1, <1>3, <1>5, ReadAndRest
<1>7. After(s \o t, Len(s)) = t BY <1>6, ConcatSimplifications
<1>8. SubSeq(s, 1, Len(s)) = s BY SubSeqFull
<1>. QED BY <1>1, <1>2, <1>5, <1>7, <1>8, SMT DEF IsPrefix

\* What is left of a stream is its end.
LEMMA RestIsSuffix ==
  ASSUME NEW S, NEW s \in Seq(S), NEW t \in Seq(S)
  PROVE  IsSuffix(t, s \o t)
<1>1. /\ s \o t \in Seq(S) /\ Len(s \o t) = Len(s) + Len(t)
      /\ \A i \in 1 .. Len(s) + Len(t) : (s \o t)[i] = IF i <= Len(s) THEN s[i] ELSE t[i - Len(s)]
  BY ConcatProperties
<1>2. Len(s) \in Nat /\ Len(t) \in Nat BY LenProperties
<1>3. ASSUME NEW x \in Seq(S)
      PROVE  /\ Reverse(x) \in Seq(S) /\ Len(Reverse(x)) = Len(x)
             /\ \A i \in 1 .. Len(x) : Reverse(x)[i] = x[Len(x) - i + 1]
  <2>1. Len(x) \in Nat BY LenProperties
  <2>2. \A i \in 1 .. Len(x) : x[Len(x) - i + 1] \in S
    <3>1. ASSUME NEW i \in 1 .. Len(x) PROVE Len(x) - i + 1 \in 1 .. Len(x) BY <2>1, SMT
    <3>. QED BY <3>1, ElementOfSeq
  <2>. QED BY <2>1, <2>2, SMT DEF Reverse
<1>. DEFINE a == Reverse(t)
            b == Reverse(s \o t)
<1>4. /\ a \in Seq(S) /\ Len(a) = Len(t) /\ \A i \in 1 .. Len(t) : a[i] = t[Len(t) - i + 1]
      /\ b \in Seq(S) /\ Len(b) = Len(s) + Len(t)
      /\ \A i \in 1 .. Len(s) + Len(t) : b[i] = (s \o t)[Len(s) + Len(t) - i + 1]
  <2>1. /\ a \in Seq(S) /\ Len(a) = Len(t) /\ \A i \in 1 .. Len(t) : a[i] = t[Len(t) - i + 1]
    BY <1>3
  <2>2. /\ b \in Seq(S) /\ Len(b) = Len(s \o t)
        /\ \A i \in 1 .. Len(s \o t) : b[i] = (s \o t)[Len(s \o t) - i + 1]
    BY <1>1, <1>3
  <2>3. Len(s \o t) = Len(s) + Len(t) BY <1>1
  <2>. HIDE DEF a, b
  <2>. QED BY <2>1, <2>2, <2>3
<1>5. IsSuffix(t, s \o t) <=> IsPrefix(a, b) BY DEF IsSuffix
<1>. HIDE DEF a, b
<1>6. Len(a) \in 0 .. Len(b) /\ Len(a) <= Len(b) BY <1>2, <1>4, SMT
<1>7. /\ SubSeq(b, 1, Len(a)) \in Seq(S) /\ Len(SubSeq(b, 1, Len(a))) = Len(a)
      /\ \A i \in 1 .. Len(a) : SubSeq(b, 1, Len(a))[i] = b[i]
  BY <1>4, <1>6, ReadAndRest
<1>8. ASSUME NEW i \in 1 .. Len(a) PROVE a[i] = SubSeq(b, 1, Len(a))[i]
  <2>1. i \in 1 .. Len(t) /\ i \in 1 .. Len(s) + Len(t) BY <1>2, <1>4, SMT
  <2>2. LET j == Len(s) + Len(t) - i + 1
        IN j \in 1 .. Len(s) + Len(t) /\ ~(j <= Len(s)) /\ j - Len(s) = Len(t) - i + 1
    BY <1>2, <2>1, SMT
  <2>. QED BY <1>1, <1>4, <1>7, <2>1, <2>2
<1>9. a = SubSeq(b, 1, Len(a)) BY <1>4, <1>7, <1>8, SeqEqual
<1>10. SubSeq(a, 1, Len(a)) = a BY <1>4, SubSeqFull
<1>. QED BY <1>5, <1>6, <1>9, <1>10 DEF IsPrefix

-----------------------------------------------------------------------------
(* Strings of C.                                                            *)

\* The least of some natural numbers is one of them.
LEMMA LeastNatural ==
  ASSUME NEW S \in SUBSET Nat, S # {}
  PROVE  Min(S) \in S /\ \A y \in S : Min(S) <= y
<1>1. PICK x \in S : \A y \in S : <<y, x>> \notin OpToRel(<, Nat)
  BY NatLessThanWellFounded, WFMin
<1>2. ASSUME NEW y \in S PROVE x <= y
  <2>1. x \in Nat /\ y \in Nat OBVIOUS
  <2>2. ~(y < x) BY <1>1, <2>1 DEF OpToRel
  <2>. QED BY <2>1, <2>2, SMT
<1>. QED BY <1>2 DEF Min

\* k units of text, and then the end or a 0.
EndsAt(s, k) ==
  /\ k \in 0 .. Len(s) /\ \A i \in 1 .. k : s[i] # Zero
  /\ k < Len(s) => s[k + 1] = Zero

\* A string of C is the text before the first 0.
LEMMA CStringIs ==
  ASSUME NEW s \in Seq(Int)
  PROVE  \E k \in 0 .. Len(s) : EndsAt(s, k) /\ CString(s) = SubSeq(s, 1, k)
<1>. DEFINE Z == {i \in 1 .. Len(s) : s[i] = Zero}
<1>1. Len(s) \in Nat BY LenProperties
<1>2. Z \in SUBSET Nat BY SMT
<1>3. SelectInSeq(s, LAMBDA u : u = Zero) = IF Z # {} THEN Min(Z) ELSE 0
  BY DEF SelectInSeq
<1>4. CASE Z = {}
  <2>1. CString(s) = s BY <1>3, <1>4 DEF CString
  <2>2. CString(s) = SubSeq(s, 1, Len(s)) BY <2>1, SubSeqFull
  <2>3. EndsAt(s, Len(s)) BY <1>1, <1>4, SMT DEF EndsAt
  <2>4. Len(s) \in 0 .. Len(s) BY <1>1, SMT
  <2>. QED BY <2>2, <2>3, <2>4
<1>5. CASE Z # {}
  <2>. DEFINE m == Min(Z)
  <2>1. m \in Z /\ \A y \in Z : m <= y BY <1>2, <1>5, LeastNatural
  <2>2. SelectInSeq(s, LAMBDA u : u = Zero) = m BY <1>3, <1>5
  <2>. HIDE DEF m
  <2>3. m \in 1 .. Len(s) /\ s[m] = Zero /\ \A i \in 1 .. Len(s) : s[i] = Zero => m <= i
    BY <2>1
  <2>4. m # 0 BY <1>1, <2>3, SMT
  <2>5. CString(s) = SubSeq(s, 1, m - 1) BY <2>2, <2>4 DEF CString
  <2>6. m - 1 \in 0 .. Len(s) /\ m - 1 + 1 = m BY <1>1, <2>3, SMT
  <2>7. ASSUME NEW i \in 1 .. m - 1 PROVE s[i] # Zero
    <3>1. i \in 1 .. Len(s) /\ ~(m <= i) BY <1>1, <2>3, SMT
    <3>. QED BY <2>3, <3>1
  <2>8. EndsAt(s, m - 1) BY <2>3, <2>6, <2>7 DEF EndsAt
  <2>. QED BY <2>5, <2>6, <2>8
<1>. QED BY <1>4, <1>5

\* There is one such place.
LEMMA EndsOnce ==
  ASSUME NEW s \in Seq(Int), NEW k, EndsAt(s, k)
  PROVE  CString(s) = SubSeq(s, 1, k)
<1>1. PICK j \in 0 .. Len(s) : EndsAt(s, j) /\ CString(s) = SubSeq(s, 1, j) BY CStringIs
<1>2. Len(s) \in Nat BY LenProperties
<1>3. j = k BY <1>1, <1>2, SMT DEF EndsAt
<1>. QED BY <1>1, <1>3

\* The text of a stream is a stream, and no longer.
LEMMA CStringTyped ==
  ASSUME NEW s \in Seq(Int)
  PROVE  CString(s) \in Seq(Int) /\ Len(CString(s)) <= Len(s)
<1>1. PICK j \in 0 .. Len(s) : CString(s) = SubSeq(s, 1, j) BY CStringIs
<1>2. Len(s) \in Nat BY LenProperties
<1>. QED BY <1>1, <1>2, ReadAndRest, SMT

\* Nothing follows a 0 but zeros.
Solid(s) == \A i, j \in 1 .. Len(s) : i <= j /\ s[i] = Zero => s[j] = Zero

\* The streams that are not broken.
LEMMA SolidIsUnbroken ==
  /\ sent \in Seq(Int) => (~Broken <=> Solid(sent))
  /\ sent' \in Seq(Int) => (~Broken' <=> Solid(sent'))
<1>1. ASSUME sent \in Seq(Int) PROVE ~Broken <=> Solid(sent)
  <2>1. Len(sent) \in Nat /\ DOMAIN sent = 1 .. Len(sent) BY <1>1, LenProperties
  <2>. QED BY <2>1, SMT DEF Broken, Solid
<1>2. ASSUME sent' \in Seq(Int) PROVE ~Broken' <=> Solid(sent')
  <2>1. Len(sent') \in Nat /\ DOMAIN sent' = 1 .. Len(sent') BY <1>2, LenProperties
  <2>. QED BY <2>1, SMT DEF Broken, Solid
<1>. QED BY <1>1, <1>2

\* The beginning of such a stream is one.
LEMMA SolidBegins ==
  ASSUME NEW s \in Seq(Int), NEW t \in Seq(Int), Solid(s \o t)
  PROVE  Solid(s)
<1>1. /\ Len(s \o t) = Len(s) + Len(t)
      /\ \A i \in 1 .. Len(s) + Len(t) : (s \o t)[i] = IF i <= Len(s) THEN s[i] ELSE t[i - Len(s)]
  BY ConcatProperties
<1>2. Len(s) \in Nat /\ Len(t) \in Nat BY LenProperties
<1>3. ASSUME NEW i \in 1 .. Len(s) PROVE i \in 1 .. Len(s \o t) /\ (s \o t)[i] = s[i]
  <2>1. i \in 1 .. Len(s) + Len(t) /\ i <= Len(s) BY <1>2, SMT
  <2>. QED BY <1>1, <2>1
<1>. QED BY <1>3 DEF Solid

\* The text of two pieces of such a stream is the text of the one and then of the other.
LEMMA TextJoins ==
  ASSUME NEW s \in Seq(Int), NEW t \in Seq(Int), Solid(s \o t)
  PROVE  CString(s \o t) = CString(s) \o CString(t)
<1>. DEFINE w == s \o t
<1>1. /\ w \in Seq(Int) /\ Len(w) = Len(s) + Len(t)
      /\ \A i \in 1 .. Len(s) + Len(t) : w[i] = IF i <= Len(s) THEN s[i] ELSE t[i - Len(s)]
  BY ConcatProperties
<1>2. Len(s) \in Nat /\ Len(t) \in Nat BY LenProperties
<1>3. PICK k \in 0 .. Len(s) : EndsAt(s, k) /\ CString(s) = SubSeq(s, 1, k) BY CStringIs
<1>4. PICK j \in 0 .. Len(t) : EndsAt(t, j) /\ CString(t) = SubSeq(t, 1, j) BY CStringIs
<1>. DEFINE a == SubSeq(s, 1, k)
            b == SubSeq(t, 1, j)
<1>5. /\ a \in Seq(Int) /\ Len(a) = k /\ \A i \in 1 .. k : a[i] = s[i]
      /\ b \in Seq(Int) /\ Len(b) = j /\ \A i \in 1 .. j : b[i] = t[i]
  BY ReadAndRest
<1>6. Solid(w) OBVIOUS
<1>7. CString(s) \o CString(t) = a \o b BY <1>3, <1>4
<1>. SUFFICES CString(w) = a \o b BY <1>7
<1>. HIDE DEF w, a, b
<1>8. k \in Nat /\ j \in Nat /\ k <= Len(s) /\ j <= Len(t) BY <1>2, SMT
<1>9. /\ a \o b \in Seq(Int) /\ Len(a \o b) = k + j
      /\ \A i \in 1 .. k + j : (a \o b)[i] = IF i <= k THEN a[i] ELSE b[i - k]
  BY <1>5, ConcatProperties
<1>10. CASE k < Len(s)
  <2>1. s[k + 1] = Zero BY <1>3, <1>10 DEF EndsAt
  <2>2. k + 1 \in 1 .. Len(w) /\ w[k + 1] = Zero BY <1>1, <1>2, <1>8, <1>10, <2>1, SMT
  <2>3. j = 0
    <3>. SUFFICES ASSUME j # 0 PROVE FALSE OBVIOUS
    <3>1. 1 \in 1 .. j BY <1>8, SMT
    <3>2. t[1] # Zero BY <1>4, <3>1 DEF EndsAt
    <3>3. Len(s) + 1 \in 1 .. Len(w) /\ w[Len(s) + 1] = t[1]
      <4>1. /\ Len(s) + 1 \in 1 .. Len(s) + Len(t) /\ ~(Len(s) + 1 <= Len(s))
            /\ Len(s) + 1 - Len(s) = 1
        BY <1>2, <1>8, <3>1, SMT
      <4>2. w[Len(s) + 1] = t[Len(s) + 1 - Len(s)] BY <1>1, <4>1
      <4>. QED BY <1>1, <4>1, <4>2
    <3>4. k + 1 <= Len(s) + 1 BY <1>2, <1>8, SMT
    <3>. QED BY <1>6, <2>2, <3>2, <3>3, <3>4 DEF Solid
  <2>4. EndsAt(w, k)
    <3>1. k \in 0 .. Len(w) BY <1>1, <1>2, <1>8, SMT
    <3>2. ASSUME NEW i \in 1 .. k PROVE w[i] # Zero
      <4>1. i \in 1 .. Len(s) + Len(t) /\ i <= Len(s) BY <1>2, <1>8, SMT
      <4>2. s[i] # Zero BY <1>3 DEF EndsAt
      <4>. QED BY <1>1, <4>1, <4>2
    <3>. QED BY <2>2, <3>1, <3>2 DEF EndsAt
  <2>5. CString(w) = SubSeq(w, 1, k) BY <1>1, <2>4, EndsOnce
  <2>6. b = <<>> BY <1>5, <2>3, EmptySeq
  <2>7. a \o b = a BY <1>5, <2>6, ConcatEmptySeq
  <2>8. k \in 0 .. Len(w) BY <2>4 DEF EndsAt
  <2>9. /\ SubSeq(w, 1, k) \in Seq(Int) /\ Len(SubSeq(w, 1, k)) = k
        /\ \A i \in 1 .. k : SubSeq(w, 1, k)[i] = w[i]
    BY <1>1, <2>8, ReadAndRest
  <2>10. ASSUME NEW i \in 1 .. k PROVE SubSeq(w, 1, k)[i] = a[i]
    <3>1. i \in 1 .. Len(s) + Len(t) /\ i <= Len(s) BY <1>2, <1>8, SMT
    <3>2. w[i] = s[i] BY <1>1, <3>1
    <3>. QED BY <1>5, <2>9, <3>2
  <2>11. SubSeq(w, 1, k) = a BY <1>5, <2>9, <2>10, SeqEqual
  <2>. QED BY <2>5, <2>7, <2>11
<1>11. CASE k = Len(s)
  <2>1. k + j \in 0 .. Len(w) BY <1>1, <1>2, <1>8, <1>11, SMT
  <2>2. ASSUME NEW i \in 1 .. k + j PROVE w[i] = (a \o b)[i] /\ w[i] # Zero
    <3>0. i \in 1 .. Len(s) + Len(t) BY <1>2, <1>8, <1>11, SMT
    <3>1. CASE i <= k
      <4>1. i \in 1 .. k BY <1>8, <3>1, SMT
      <4>2. w[i] = s[i] BY <1>1, <1>11, <3>0, <3>1
      <4>3. s[i] # Zero BY <1>3, <4>1 DEF EndsAt
      <4>4. (a \o b)[i] = a[i] BY <1>9, <3>1
      <4>. QED BY <1>5, <4>1, <4>2, <4>3, <4>4
    <3>2. CASE ~(i <= k)
      <4>1. i - k \in 1 .. j BY <1>8, <3>2, SMT
      <4>2. w[i] = t[i - k] BY <1>1, <1>11, <3>0, <3>2
      <4>3. t[i - k] # Zero BY <1>4, <4>1 DEF EndsAt
      <4>4. (a \o b)[i] = b[i - k] BY <1>9, <3>2
      <4>. QED BY <1>5, <4>1, <4>2, <4>3, <4>4
    <3>. QED BY <3>1, <3>2
  <2>3. k + j < Len(w) => w[k + j + 1] = Zero
    <3>. SUFFICES ASSUME k + j < Len(w) PROVE w[k + j + 1] = Zero OBVIOUS
    <3>. DEFINE m == k + j + 1
    <3>1. j < Len(t) /\ m \in 1 .. Len(s) + Len(t) /\ ~(m <= Len(s)) /\ m - Len(s) = j + 1
      BY <1>1, <1>2, <1>8, <1>11, SMT
    <3>. HIDE DEF m
    <3>2. t[j + 1] = Zero BY <1>4, <3>1 DEF EndsAt
    <3>3. w[m] = t[m - Len(s)] BY <1>1, <3>1
    <3>4. w[m] = Zero BY <3>1, <3>2, <3>3
    <3>. QED BY <3>4 DEF m
  <2>4. EndsAt(w, k + j) BY <2>1, <2>2, <2>3 DEF EndsAt
  <2>5. CString(w) = SubSeq(w, 1, k + j) BY <1>1, <2>4, EndsOnce
  <2>6. /\ SubSeq(w, 1, k + j) \in Seq(Int) /\ Len(SubSeq(w, 1, k + j)) = k + j
        /\ \A i \in 1 .. k + j : SubSeq(w, 1, k + j)[i] = w[i]
    BY <1>1, <2>1, ReadAndRest
  <2>7. SubSeq(w, 1, k + j) = a \o b BY <1>9, <2>2, <2>6, SeqEqual, SMTT(30)
  <2>. QED BY <2>5, <2>7
<1>12. k < Len(s) \/ k = Len(s) BY <1>2, <1>8, SMT
<1>. QED BY <1>10, <1>11, <1>12

-----------------------------------------------------------------------------
(* The marker.                                                              *)

\* A marker is found in whatever lies before it, too.
LEMMA StrstrJoins ==
  ASSUME NEW s \in Seq(Int), NEW t \in Seq(Int), Strstr(t, END_OF_LINE)
  PROVE  Strstr(s \o t, END_OF_LINE)
<1>. DEFINE m == END_OF_LINE
<1>1. m \in Seq(Int) /\ Len(m) = 2 BY SMT DEF END_OF_LINE
<1>2. PICK i \in 0 .. Len(t) - Len(m) : SubSeq(t, i + 1, i + Len(m)) = m BY DEF Strstr
<1>. HIDE DEF m
<1>3. Len(s) \in Nat /\ Len(t) \in Nat BY LenProperties
<1>4. Len(s \o t) = Len(s) + Len(t) BY ConcatProperties
<1>. DEFINE j == Len(s) + i
            first == j + 1
            last == j + Len(m)
<1>5. /\ j \in 0 .. Len(s \o t) - Len(m) /\ first = j + 1 /\ last = j + Len(m)
      /\ first \in Len(s) + 1 .. Len(s) + Len(t) /\ last \in Len(s) + 1 .. Len(s) + Len(t)
      /\ first - Len(s) = i + 1 /\ last - Len(s) = i + Len(m)
  BY <1>1, <1>2, <1>3, <1>4, SMT
<1>. HIDE DEF j, first, last
<1>6. SubSeq(s \o t, first, last) = SubSeq(t, first - Len(s), last - Len(s))
  BY <1>5, SubSeqOfConcat2, SMTT(30)
<1>7. SubSeq(s \o t, first, last) = m BY <1>2, <1>5, <1>6
<1>8. SubSeq(s \o t, j + 1, j + Len(m)) = m BY <1>5, <1>7
<1>. QED BY <1>5, <1>8 DEF Strstr, m

\* Two units are needed for it.
LEMMA MarkerLength ==
  ASSUME NEW s \in Seq(Int), Strstr(s, END_OF_LINE)
  PROVE  Len(s) >= 2
<1>1. Len(END_OF_LINE) = 2 BY SMT DEF END_OF_LINE
<1>2. PICK i \in 0 .. Len(s) - 2 : TRUE BY <1>1 DEF Strstr
<1>3. Len(s) \in Nat BY LenProperties
<1>. QED BY <1>2, <1>3, SMT

\* There is none in text.
LEMMA NoMarkerInText ==
  ASSUME NEW s \in Seq(Nat)
  PROVE  ~Strstr(CString(s), END_OF_LINE)
<1>1. s \in Seq(Int)
  <2>1. Nat \subseteq Int BY SMT
  <2>. QED BY <2>1, SeqMonotonic
<1>2. PICK k \in 0 .. Len(s) : CString(s) = SubSeq(s, 1, k) BY <1>1, CStringIs
<1>. DEFINE c == SubSeq(s, 1, k)
<1>3. c \in Seq(Nat) BY ReadAndRest
<1>4. CString(s) = c BY <1>2
<1>. HIDE DEF c
<1>. SUFFICES ASSUME Strstr(c, END_OF_LINE) PROVE FALSE BY <1>4
<1>5. Len(END_OF_LINE) = 2 /\ END_OF_LINE[1] = -1 BY SMT DEF END_OF_LINE
<1>6. PICK i \in 0 .. Len(c) - 2 : SubSeq(c, i + 1, i + 2) = END_OF_LINE BY <1>5 DEF Strstr
<1>7. Len(c) \in Nat BY <1>3, LenProperties
<1>8. i + 1 \in Int /\ i + 2 \in Int /\ i + 1 \in 1 .. Len(c) BY <1>7, SMT
<1>9. \A j \in i + 1 .. i + 2 : c[j] \in Nat
  <2>1. ASSUME NEW j \in i + 1 .. i + 2 PROVE j \in 1 .. Len(c) BY <1>7, SMT
  <2>. QED BY <1>3, <2>1, ElementOfSeq
<1>10. \A j \in 1 .. i + 2 - (i + 1) + 1 : SubSeq(c, i + 1, i + 2)[j] = c[i + 1 + j - 1]
  BY <1>8, <1>9, SubSeqProperties
<1>11. 1 \in 1 .. i + 2 - (i + 1) + 1 /\ i + 1 + 1 - 1 = i + 1 BY SMT
<1>12. END_OF_LINE[1] = c[i + 1] BY <1>6, <1>10, <1>11
<1>13. c[i + 1] \in Nat BY <1>3, <1>8, ElementOfSeq
<1>. QED BY <1>5, <1>12, <1>13, SMT

\* What the server writes besides markers.
LEMMA WritesTyped ==
  /\ \A p, n \in Nat : Text(p, n) \in Seq(Nat)
  /\ \A n \in Int : Zeros(n) \in Seq(Nat)
  /\ END_OF_LINE \in Seq(Int) /\ \A s \in Seq(Nat) : s \in Seq(Int)
<1>1. ASSUME NEW p \in Nat, NEW n \in Nat PROVE Text(p, n) \in Seq(Nat) BY SMT DEF Text
<1>2. ASSUME NEW n \in Int PROVE Zeros(n) \in Seq(Nat)
  <2>1. CASE n \in Nat BY <2>1, SMT DEF Zeros, Zero
  <2>2. CASE n \notin Nat
    <3>1. 1 .. n = 1 .. 0 BY <2>2, SMT
    <3>2. Zeros(n) = Zeros(0) BY <3>1 DEF Zeros
    <3>3. Zeros(0) \in Seq(Nat) BY SMT DEF Zeros, Zero
    <3>. QED BY <3>2, <3>3
  <2>. QED BY <2>1, <2>2
<1>3. END_OF_LINE \in Seq(Int) BY SMT DEF END_OF_LINE
<1>4. \A s \in Seq(Nat) : s \in Seq(Int)
  <2>1. Nat \subseteq Int BY SMT
  <2>. QED BY <2>1, SeqMonotonic
<1>. QED BY <1>1, <1>2, <1>3, <1>4

\* How a stream is put together does not matter.
LEMMA Regroup ==
  \A s, t, u \in Seq(Int) : (s \o t) \o u = s \o (t \o u) /\ s \o t \in Seq(Int)
BY ConcatAssociative, ConcatProperties

\* A read of n units, seen in the stream as a whole.
LEMMA ReadSplits ==
  ASSUME NEW p \in Seq(Int), NEW h \in Seq(Int), NEW t \in Seq(Int), NEW n \in 0 .. Len(t)
  PROVE  (p \o h) \o t = (p \o (h \o SubSeq(t, 1, n))) \o After(t, n)
<1>. DEFINE a == SubSeq(t, 1, n)
            b == After(t, n)
<1>1. a \in Seq(Int) /\ b \in Seq(Int) /\ t = a \o b BY ReadAndRest
<1>. HIDE DEF a, b
<1>2. p \o h \in Seq(Int) BY Regroup
<1>3. (p \o h) \o (a \o b) = ((p \o h) \o a) \o b BY <1>1, <1>2, Regroup, ZenonT(60)
<1>4. (p \o h) \o a = p \o (h \o a) BY <1>1, Regroup, SMTT(30)
<1>. QED BY <1>1, <1>3, <1>4 DEF a, b

-----------------------------------------------------------------------------
(* The initial state, and what never changes.                               *)

\* The programs, the request and the output of the command are of the model's kinds.
LEMMA FixedHolds == Init => FixedInv
<1>. SUFFICES ASSUME Init PROVE FixedInv OBVIOUS
<1>1. PICK platform \in Platforms : client = platform[1] /\ server = platform[2] BY DEF Init
<1>2. platform \in OS \X OS BY OutputAssumption
<1>3. platform = <<client, server>> /\ client \in OS /\ server \in OS BY <1>1, <1>2
<1>4. request \in Requests /\ request \in {"LSF", "EXEC"} BY OutputAssumption DEF Init
<1>5. output \in Outputs[request] BY DEF Init
<1>6. Outputs[request] \in SUBSET Seq(Line)
  <2>1. Outputs \in [Requests -> SUBSET Seq(Line)] BY OutputAssumption DEF Line
  <2>. QED BY <1>4, <2>1
<1>7. output \in Seq(Line) BY <1>5, <1>6
<1>. QED BY <1>1, <1>3, <1>4, <1>5, <1>7 DEF FixedInv

\* Nothing is sent, read or printed at first.
LEMMA OutputStarts == Init => OutputInv /\ StreamInv
<1>. SUFFICES ASSUME Init PROVE OutputInv /\ StreamInv OBVIOUS
<1>1. FixedInv BY FixedHolds
<1>2. <<>> \in Seq(Int) /\ <<>> \in Seq(Nat) /\ <<>> \in Seq(Line) /\ Len(<<>>) = 0 BY EmptySeq
<1>3. <<>> \o <<>> = <<>> /\ <<>> \o output = output BY <1>1, <1>2, ConcatEmptySeq DEF FixedInv
<1>4. TypedInv
  <2>1. \E given \in Seq(Line) : output = given \o lines BY <1>2, <1>3 DEF Init
  <2>2. \E given \in Seq(Int) : sent = given \o toClient BY <1>2, <1>3 DEF Init
  <2>3. Len(buff) <= Buffer + 1 /\ Len(buff) < Buffer
    <3>1. Len(buff) = 0 BY <1>2 DEF Init
    <3>. QED BY <3>1, OutputAssumption, SMT
  <2>. QED BY <1>1, <1>2, <2>1, <2>2, <2>3 DEF Init, FixedInv, TypedInv, ClientPC, ServerPC
<1>5. HarmlessInv BY <1>2 DEF Init, HarmlessInv, ServerClosed
<1>6. Reading
  <2>1. CString(<<>>) = <<>>
    <3>1. EndsAt(<<>>, 0) BY <1>2, SMT DEF EndsAt
    <3>2. CString(<<>>) = SubSeq(<<>>, 1, 0) BY <1>2, <3>1, EndsOnce
    <3>. QED BY <3>2, SubSeqEmpty
  <2>2. Held = <<>> BY DEF Init, Held
  <2>. QED BY <1>2, <1>3, <2>1, <2>2 DEF Reading, Init
<1>7. cpc # "done" BY DEF Init
<1>. QED BY <1>1, <1>4, <1>5, <1>6, <1>7 DEF OutputInv, StreamInv

\* No step changes the programs, the request or the output.
LEMMA FixedKeeps == FixedInv /\ UNCHANGED fixed => FixedInv'
BY DEF FixedInv, fixed, OS

-----------------------------------------------------------------------------
(* What a step of the server does.                                          *)

\* The stream grows by x, of plain text as long as an ordinary output goes on.
Grows(x) ==
  /\ sent' = sent \o x /\ toClient' = toClient \o x
  /\ Ordinary /\ ~ServerClosed' => x \in Seq(Nat)

\* A server that runs goes on in its output, and is ended only by a client that closed.
ServerEffect ==
  /\ ~ServerClosed /\ UNCHANGED <<fixed, buff, printed, cpc, death>>
  /\ lines' \in Seq(Line) /\ \E given \in Seq(Line) : output = given \o lines'
  /\ spc' \in ServerPC \ {"command"} /\ reset' \in BOOLEAN /\ code' \in {"", "300", "400"}
  /\ spc' = "copy" => lines' # <<>>
  /\ code' = "400" => ServerClosed'
  /\ Ordinary /\ spc' \in {"killed", "exited"} => ClientClosed
  /\ \E x \in Seq(Int) : Grows(x)

\* One write: all of it arrives, or nothing at a client that closed.
LEMMA WriteEffect ==
  ASSUME FixedInv, TypedInv, NEW s \in Seq(Int), NEW next \in {"lines", "copy", "closed"},
         Ordinary /\ next # "closed" => s \in Seq(Nat), ServerWrite(s, next)
  PROVE  /\ spc' \in {next, "killed", "exited"} /\ reset' \in BOOLEAN
         /\ spc' # next => ClientClosed
         /\ \E x \in Seq(Int) : Grows(x)
<1>1. CASE ~ClientClosed
  <2>1. sent' = sent \o s /\ toClient' = toClient \o s /\ spc' = next /\ reset' = reset
    BY <1>1 DEF ServerWrite
  <2>2. Ordinary /\ ~ServerClosed' => s \in Seq(Nat) BY <2>1 DEF ServerClosed
  <2>. QED BY <2>1, <2>2 DEF Grows, TypedInv
<1>2. CASE ClientClosed
  <2>1. /\ spc' \in {next, "killed", "exited"} /\ reset' = TRUE
        /\ sent' = sent /\ toClient' = toClient
    BY <1>2 DEF ServerWrite
  <2>2. <<>> \in Seq(Int) /\ <<>> \in Seq(Nat) BY EmptySeq
  <2>3. sent \o <<>> = sent /\ toClient \o <<>> = toClient BY ConcatEmptySeq DEF TypedInv
  <2>4. Grows(<<>>) BY <2>1, <2>2, <2>3 DEF Grows
  <2>. QED BY <1>2, <2>1, <2>2, <2>4
<1>. QED BY <1>1, <1>2

\* The lines go one by one.
LEMMA NextLine ==
  ASSUME FixedInv, TypedInv, lines # <<>>
  PROVE  /\ Head(lines) \in Line /\ Tail(lines) \in Seq(Line)
         /\ Len(lines) # 1 => Tail(lines) # <<>>
         /\ \E given \in Seq(Line) : output = given \o Tail(lines)
         /\ Ordinary => Head(lines) \in Nat \ {0}
<1>1. lines \in Seq(Line) /\ output \in Seq(Line) BY DEF FixedInv, TypedInv
<1>2. PICK given \in Seq(Line) : output = given \o lines BY DEF TypedInv
<1>3. /\ Head(lines) \in Line /\ Tail(lines) \in Seq(Line) /\ Len(Tail(lines)) = Len(lines) - 1
  BY <1>1, HeadTailProperties
<1>4. Len(lines) \in Nat \ {0} /\ Len(given) \in Nat BY <1>1, EmptySeq, LenProperties
<1>5. Len(lines) # 1 => Tail(lines) # <<>>
  <2>1. Len(lines) # 1 => Len(lines) - 1 # 0 BY <1>4, SMT
  <2>2. Tail(lines) = <<>> => Len(Tail(lines)) = 0 BY EmptySeq
  <2>. QED BY <1>3, <2>1, <2>2
<1>6. lines[1] = Head(lines) BY <1>1, SMT
<1>7. SubSeq(lines, 1, 1) \in Seq(Line) /\ lines = SubSeq(lines, 1, 1) \o After(lines, 1)
  <2>1. 1 \in 0 .. Len(lines) BY <1>4, SMT
  <2>. QED BY <1>1, <2>1, ReadAndRest
<1>8. After(lines, 1) = Tail(lines)
  <2>1. Tail(lines) = SubSeq(lines, 2, Len(lines)) BY <1>1, TailIsSubSeq
  <2>2. 1 + 1 = 2 BY SMT
  <2>. QED BY <2>1, <2>2 DEF After
<1>9. output = (given \o SubSeq(lines, 1, 1)) \o Tail(lines)
  <2>. DEFINE h == SubSeq(lines, 1, 1)
              t == Tail(lines)
  <2>1. h \in Seq(Line) /\ t \in Seq(Line) /\ lines = h \o t BY <1>3, <1>7, <1>8
  <2>. HIDE DEF h, t
  <2>2. (given \o h) \o t = given \o (h \o t) BY <2>1, ConcatAssociative
  <2>. QED BY <1>2, <2>1, <2>2 DEF h, t
<1>10. given \o SubSeq(lines, 1, 1) \in Seq(Line) BY <1>7, ConcatProperties
<1>11. Ordinary => Head(lines) \in Nat \ {0}
  <2>. SUFFICES ASSUME Ordinary PROVE Head(lines) \in Nat \ {0} OBVIOUS
  <2>. DEFINE k == Len(given) + 1
  <2>1. k \in 1 .. Len(given) + Len(lines) /\ ~(k <= Len(given)) /\ k - Len(given) = 1
    BY <1>4, SMT
  <2>2. /\ Len(output) = Len(given) + Len(lines)
        /\ \A j \in 1 .. Len(given) + Len(lines) :
             output[j] = IF j <= Len(given) THEN given[j] ELSE lines[j - Len(given)]
    BY <1>1, <1>2, ConcatProperties
  <2>. HIDE DEF k
  <2>3. output[k] = lines[1] BY <2>1, <2>2
  <2>4. k \in DOMAIN output BY <1>1, <2>1, <2>2, LenProperties
  <2>5. output[k] \notin {Nul, Inner} BY <2>4 DEF Ordinary
  <2>. QED BY <1>3, <1>6, <2>3, <2>5 DEF Line
<1>. QED BY <1>3, <1>5, <1>9, <1>10, <1>11

\* What a step that writes s and leaves the output at rest has to show.
LEMMA WriteIsEffect ==
  ASSUME FixedInv, TypedInv, HarmlessInv, ~ServerClosed, UNCHANGED <<fixed, code, buff, printed, cpc, death>>,
         lines' \in Seq(Line), \E given \in Seq(Line) : output = given \o lines',
         NEW s \in Seq(Int), NEW next \in {"lines", "copy", "closed"},
         Ordinary /\ next # "closed" => s \in Seq(Nat),
         next = "copy" => lines' # <<>>, ServerWrite(s, next)
  PROVE  ServerEffect
<1>1. /\ spc' \in {next, "killed", "exited"} /\ reset' \in BOOLEAN
      /\ spc' # next => ClientClosed
      /\ \E x \in Seq(Int) : Grows(x)
  BY WriteEffect
<1>2. spc' \in ServerPC \ {"command"} /\ (spc' = "copy" => lines' # <<>>) BY <1>1 DEF ServerPC
<1>3. code' \in {"", "300", "400"} /\ code' # "400" BY DEF TypedInv, HarmlessInv
<1>4. Ordinary /\ spc' \in {"killed", "exited"} => ClientClosed BY <1>1
<1>. QED BY <1>1, <1>2, <1>3, <1>4 DEF ServerEffect

\* Each of the server's actions is such a step.
LEMMA ServerSteps ==
  ASSUME OutputInv, Server
  PROVE  ServerEffect
<1>1. FixedInv /\ TypedInv /\ HarmlessInv BY DEF OutputInv
<1>2. (\A p, n \in Nat : Text(p, n) \in Seq(Nat)) /\ (\A n \in Int : Zeros(n) \in Seq(Nat))
  BY WritesTyped
<1>3. END_OF_LINE \in Seq(Int) /\ \A s \in Seq(Nat) : s \in Seq(Int) BY WritesTyped
<1>4. Len(sent) \in Nat /\ Len(lines) \in Nat BY <1>1, LenProperties DEF TypedInv
<1>5. <<>> \in Seq(Int) /\ <<>> \in Seq(Nat) /\ <<>> \in Seq(Line) BY EmptySeq
<1>6. lines \in Seq(Line) /\ \E given \in Seq(Line) : output = given \o lines BY <1>1 DEF TypedInv
<1>7. \A s, t \in Seq(Int) : s \o t \in Seq(Int) BY ConcatProperties
<1>8. \A s, t \in Seq(Nat) : s \o t \in Seq(Nat) BY ConcatProperties
<1>9. CASE Answer
  <2>1. spc = "command" /\ lines = output BY <1>1, <1>9 DEF Answer, TypedInv
  <2>2. /\ UNCHANGED <<fixed, lines, sent, toClient, buff, printed, cpc, death>>
        /\ spc' \in {"lines", "copy", "closed"} /\ code' \in {"300", "400"}
        /\ (code' = "400" => spc' = "closed") /\ (spc' = "copy" => Len(output) > 1)
        /\ reset' = ClientClosed
    BY <1>9 DEF Answer
  <2>3. spc' = "copy" => lines' # <<>>
    <3>1. Len(<<>>) = 0 BY EmptySeq
    <3>2. ~(0 > 1) BY SMT
    <3>. QED BY <2>1, <2>2, <3>1, <3>2
  <2>4. Grows(<<>>)
    <3>1. sent \o <<>> = sent /\ toClient \o <<>> = toClient
      BY <1>1, ConcatEmptySeq DEF TypedInv
    <3>. QED BY <1>5, <2>2, <3>1 DEF Grows
  <2>5. ~ServerClosed /\ reset' \in BOOLEAN BY <2>1, <2>2 DEF ServerClosed, ClientClosed
  <2>6. code' = "400" => ServerClosed' BY <2>2 DEF ServerClosed
  <2>. QED BY <1>5, <1>6, <2>2, <2>3, <2>4, <2>5, <2>6 DEF ServerEffect, ServerPC
<1>10. CASE SendLine
  <2>1. /\ spc = "lines" /\ lines # <<>> /\ lines' = Tail(lines)
        /\ UNCHANGED <<fixed, code, buff, printed, cpc, death>>
    BY <1>10 DEF SendLine
  <2>2. /\ Head(lines) \in Line /\ Tail(lines) \in Seq(Line)
        /\ \E given \in Seq(Line) : output = given \o Tail(lines)
        /\ Ordinary => Head(lines) \in Nat \ {0}
    BY <1>1, <2>1, NextLine
  <2>3. ~ServerClosed BY <2>1 DEF ServerClosed
  <2>4. CASE Head(lines) = Nul
    <3>1. spc' \in {"lines", "killed"} /\ UNCHANGED <<sent, toClient, reset>>
      BY <1>10, <2>4 DEF SendLine
    <3>2. ~Ordinary BY <2>2, <2>4 DEF Nul
    <3>3. Grows(<<>>)
      <4>1. sent \o <<>> = sent /\ toClient \o <<>> = toClient
        BY <1>1, ConcatEmptySeq DEF TypedInv
      <4>. QED BY <1>5, <3>1, <4>1 DEF Grows
    <3>4. code' \in {"", "300", "400"} /\ code' # "400" /\ reset' \in BOOLEAN
      BY <1>1, <2>1, <2>3, <3>1 DEF TypedInv, HarmlessInv
    <3>. QED BY <1>5, <2>1, <2>2, <2>3, <3>1, <3>2, <3>3, <3>4 DEF ServerEffect, ServerPC
  <2>5. CASE Head(lines) # Nul
    <3>. DEFINE s == Units(Head(lines))
    <3>1. ServerWrite(s, "lines") BY <1>10, <2>5 DEF SendLine
    <3>2. Head(lines) \in Nat => s \in Seq(Nat)
      <4>. SUFFICES ASSUME Head(lines) \in Nat PROVE s \in Seq(Nat) OBVIOUS
      <4>1. Head(lines) # Inner BY SMT DEF Inner
      <4>2. s = Text(Len(sent), Head(lines)) BY <4>1 DEF Units
      <4>. QED BY <1>2, <1>4, <4>2
    <3>3. s \in Seq(Int)
      <4>1. CASE Head(lines) = Inner BY <1>3, <4>1 DEF Units
      <4>2. CASE Head(lines) # Inner
        <5>1. Head(lines) \in Nat BY <2>2, <2>5, <4>2 DEF Line
        <5>. QED BY <1>3, <3>2, <5>1
      <4>. QED BY <4>1, <4>2
    <3>4. Ordinary => s \in Seq(Nat) BY <2>2, <3>2
    <3>. HIDE DEF s
    <3>. QED BY <1>1, <2>1, <2>2, <2>3, <3>1, <3>3, <3>4, WriteIsEffect
  <2>. QED BY <2>4, <2>5
<1>11. CASE SendEnd
  <2>1. spc = "lines" /\ UNCHANGED <<fixed, lines, code, buff, printed, cpc, death>>
    BY <1>11 DEF SendEnd
  <2>2. PICK status \in 0 .. 1 : ServerWrite(Text(Len(sent), status) \o Marker, "closed")
    BY <1>11 DEF SendEnd
  <2>. DEFINE s == Text(Len(sent), status) \o Marker
  <2>3. s \in Seq(Int)
    <3>1. status \in Nat BY SMT
    <3>2. Text(Len(sent), status) \in Seq(Int) BY <1>2, <1>3, <1>4, <3>1
    <3>. QED BY <1>3, <1>7, <3>2 DEF Marker
  <2>4. ServerWrite(s, "closed") BY <2>2
  <2>. HIDE DEF s
  <2>5. ~ServerClosed BY <2>1 DEF ServerClosed
  <2>6. lines' \in Seq(Line) /\ \E given \in Seq(Line) : output = given \o lines' BY <1>6, <2>1
  <2>. QED BY <1>1, <2>1, <2>3, <2>4, <2>5, <2>6, WriteIsEffect
<1>12. CASE SendList
  <2>. DEFINE list == Text(0, Len(lines)) \o Marker
              s == list \o Zeros(Buffer + 1 - Len(list))
  <2>1. /\ spc = "lines" /\ lines' = <<>> /\ ServerWrite(s, "closed")
        /\ UNCHANGED <<fixed, code, buff, printed, cpc, death>>
    BY <1>12 DEF SendList
  <2>2. list \in Seq(Int)
    <3>1. 0 \in Nat OBVIOUS
    <3>2. Text(0, Len(lines)) \in Seq(Int) BY <1>2, <1>3, <1>4, <3>1
    <3>. QED BY <1>3, <1>7, <3>2 DEF Marker
  <2>3. Buffer + 1 - Len(list) \in Int
    <3>. HIDE DEF list
    <3>1. Len(list) \in Nat BY <2>2, LenProperties
    <3>. QED BY <3>1, OutputAssumption, SMT
  <2>. HIDE DEF list
  <2>4. s \in Seq(Int) BY <1>2, <1>3, <1>7, <2>2, <2>3
  <2>. HIDE DEF s
  <2>5. ~ServerClosed BY <2>1 DEF ServerClosed
  <2>6. output \in Seq(Line) /\ output \o <<>> = output BY <1>1, ConcatEmptySeq DEF FixedInv
  <2>. QED BY <1>1, <1>5, <2>1, <2>4, <2>5, <2>6, WriteIsEffect
<1>13. CASE SendCopy
  <2>1. spc = "copy" /\ lines # <<>> /\ UNCHANGED <<fixed, code, buff, printed, cpc, death>>
    BY <1>1, <1>13 DEF SendCopy, TypedInv
  <2>2. ~ServerClosed BY <2>1 DEF ServerClosed
  <2>3. ASSUME NEW text \in 1 .. 2, NEW failed \in BOOLEAN, NEW last, NEW line, NEW s,
               last = (Len(lines) = 1),
               line = Text(Len(sent), text) \o (IF last THEN Marker ELSE <<>>),
               s = line \o Zeros(IF failed THEN Buffer + 1 - Len(line) ELSE 0),
               lines' = Tail(lines), ServerWrite(s, IF last THEN "closed" ELSE "copy")
        PROVE  ServerEffect
    <3>1. text \in Nat BY SMT
    <3>2. Text(Len(sent), text) \in Seq(Nat) BY <1>2, <1>4, <3>1
    <3>3. line \in Seq(Int) /\ (~last => line \in Seq(Nat))
      BY <1>3, <1>5, <1>7, <1>8, <2>3, <3>2 DEF Marker
    <3>4. (IF failed THEN Buffer + 1 - Len(line) ELSE 0) \in Int
      <4>1. Len(line) \in Nat BY <3>3, LenProperties
      <4>2. Buffer + 1 - Len(line) \in Int BY <4>1, OutputAssumption, SMT
      <4>. QED BY <4>2
    <3>5. Zeros(IF failed THEN Buffer + 1 - Len(line) ELSE 0) \in Seq(Nat) BY <1>2, <3>4
    <3>6. s \in Seq(Int) /\ (~last => s \in Seq(Nat)) BY <1>3, <1>7, <1>8, <2>3, <3>3, <3>5
    <3>7. /\ Tail(lines) \in Seq(Line) /\ (Len(lines) # 1 => Tail(lines) # <<>>)
          /\ \E given \in Seq(Line) : output = given \o Tail(lines)
      BY <1>1, <2>1, NextLine
    <3>8. CASE last
      <4>1. ServerWrite(s, "closed") BY <2>3, <3>8
      <4>. QED BY <1>1, <2>1, <2>2, <2>3, <3>6, <3>7, <4>1, WriteIsEffect
    <3>9. CASE ~last
      <4>1. ServerWrite(s, "copy") BY <2>3, <3>9
      <4>2. lines' # <<>> BY <2>3, <3>7, <3>9
      <4>. QED BY <1>1, <2>1, <2>2, <2>3, <3>6, <3>7, <3>9, <4>1, <4>2, WriteIsEffect
    <3>. QED BY <3>8, <3>9
  <2>4. ASSUME NEW s \in {Text(0, 1) \o Marker, Text(0, 1)}, ServerWrite(s, "closed"), UNCHANGED lines
        PROVE  ServerEffect
    <3>1. 0 \in Nat /\ 1 \in Nat OBVIOUS
    <3>2. Text(0, 1) \in Seq(Int) BY <1>2, <1>3, <3>1
    <3>3. s \in Seq(Int) BY <1>3, <1>7, <3>2 DEF Marker
    <3>4. lines' \in Seq(Line) /\ \E given \in Seq(Line) : output = given \o lines' BY <1>6, <2>4
    <3>. QED BY <1>1, <2>1, <2>2, <2>4, <3>3, <3>4, WriteIsEffect
  <2>. QED BY <1>13, <2>3, <2>4 DEF SendCopy
<1>. QED BY <1>9, <1>10, <1>11, <1>12, <1>13 DEF Server

\* A step of the server keeps the invariant ...
LEMMA ServerKeeps ==
  ASSUME OutputInv, Server
  PROVE  OutputInv'
<1>1. FixedInv /\ TypedInv /\ HarmlessInv BY DEF OutputInv
<1>2. ServerEffect BY ServerSteps
<1>3. PICK x \in Seq(Int) : Grows(x) BY <1>2 DEF ServerEffect
<1>4. /\ ~ServerClosed /\ UNCHANGED <<fixed, buff, printed, cpc, death>>
      /\ lines' \in Seq(Line) /\ \E given \in Seq(Line) : output = given \o lines'
      /\ spc' \in ServerPC \ {"command"} /\ reset' \in BOOLEAN /\ code' \in {"", "300", "400"}
      /\ spc' = "copy" => lines' # <<>>
      /\ code' = "400" => ServerClosed'
      /\ Ordinary /\ spc' \in {"killed", "exited"} => ClientClosed
  BY <1>2 DEF ServerEffect
<1>5. client' = client /\ output' = output BY <1>4 DEF fixed
<1>6. FixedInv' BY <1>1, <1>4, FixedKeeps
<1>7. TypedInv'
  <2>1. sent' \in Seq(Int) /\ toClient' \in Seq(Int) BY <1>1, <1>3, Regroup DEF Grows, TypedInv
  <2>2. \E given \in Seq(Int) : sent' = given \o toClient'
    <3>1. PICK given \in Seq(Int) : sent = given \o toClient BY <1>1 DEF TypedInv
    <3>2. toClient \in Seq(Int) BY <1>1 DEF TypedInv
    <3>3. sent' = given \o toClient' BY <1>3, <3>1, <3>2, Regroup DEF Grows
    <3>. QED BY <3>3
  <2>3. spc' # "command" /\ spc' \in ServerPC BY <1>4
  <2>4. \E given \in Seq(Line) : output' = given \o lines' BY <1>4, <1>5
  <2>. QED BY <1>1, <1>4, <1>5, <2>1, <2>2, <2>3, <2>4 DEF TypedInv
<1>8. HarmlessInv'
  <2>1. Ordinary' <=> Ordinary BY <1>5 DEF Ordinary
  <2>2. cpc \notin {"refused", "cut"} /\ (cpc = "gone" => death) BY <1>1, <1>4 DEF HarmlessInv
  <2>3. ASSUME Ordinary, ~ServerClosed'
        PROVE  sent' \in Seq(Nat) /\ toClient' \in Seq(Nat) /\ buff' \in Seq(Nat)
    <3>1. sent \in Seq(Nat) /\ toClient \in Seq(Nat) /\ buff \in Seq(Nat)
      BY <1>1, <1>4, <2>3 DEF HarmlessInv
    <3>2. x \in Seq(Nat) /\ sent' = sent \o x /\ toClient' = toClient \o x
      BY <1>3, <2>3 DEF Grows
    <3>3. sent \o x \in Seq(Nat) /\ toClient \o x \in Seq(Nat) BY <3>1, <3>2, ConcatProperties
    <3>. QED BY <1>4, <3>1, <3>2, <3>3
  <2>4. Ordinary /\ cpc = "done" => death BY <1>1, <1>4 DEF HarmlessInv
  <2>5. ASSUME Ordinary, spc' \in {"killed", "exited"} PROVE death \/ cpc = "crashed"
    <3>1. ClientClosed BY <1>4, <2>5
    <3>2. cpc \in {"done", "refused", "cut", "crashed", "gone"}
      BY <1>1, <3>1 DEF ClientClosed, TypedInv, ClientPC
    <3>. QED BY <2>2, <2>4, <2>5, <3>2
  <2>. QED BY <1>4, <2>1, <2>2, <2>3, <2>4, <2>5 DEF HarmlessInv
<1>. QED BY <1>6, <1>7, <1>8 DEF OutputInv

\* ... and what is printed stays the beginning of a longer stream.
LEMMA ServerKeepsStream ==
  ASSUME OutputInv, StreamInv, Server
  PROVE  StreamInv'
<1>1. FixedInv /\ TypedInv BY DEF OutputInv
<1>2. ServerEffect BY ServerSteps
<1>3. PICK x \in Seq(Int) : Grows(x) BY <1>2 DEF ServerEffect
<1>4. sent' = sent \o x /\ toClient' = toClient \o x BY <1>3 DEF Grows
<1>5. /\ client' = client /\ request' = request /\ buff' = buff
      /\ printed' = printed /\ cpc' = cpc
  BY <1>2 DEF ServerEffect, fixed
<1>6. sent \in Seq(Int) /\ toClient \in Seq(Int) /\ buff \in Seq(Int) BY <1>1 DEF TypedInv
<1>. SUFFICES ASSUME Orderly' PROVE IF cpc = "done" THEN Finished' ELSE Reading'
  BY <1>5 DEF StreamInv
<1>7. Orderly
  <2>1. sent' \in Seq(Int) BY <1>4, <1>6, Regroup
  <2>2. Solid(sent') BY <2>1, SolidIsUnbroken DEF Orderly
  <2>3. Solid(sent) BY <1>4, <1>6, <2>2, SolidBegins
  <2>. QED BY <1>5, <1>6, <2>3, SolidIsUnbroken DEF Orderly
<1>8. CASE cpc = "done"
  <2>1. Finished BY <1>7, <1>8 DEF StreamInv
  <2>2. PICK past \in Seq(Int), last \in Seq(Int) :
          /\ sent = (past \o last) \o toClient /\ Strstr(CString(last), END_OF_LINE)
          /\ \/ printed = CString(past) \o CString(last)
             \/ /\ client = "linux" /\ Len(last) = Buffer
                /\ printed = (CString(past) \o CString(last)) \o CString(last)
    BY <2>1 DEF Finished
  <2>3. sent' = (past \o last) \o toClient'
    <3>1. past \o last \in Seq(Int) BY Regroup
    <3>2. ((past \o last) \o toClient) \o x = (past \o last) \o (toClient \o x)
      BY <1>6, <3>1, Regroup
    <3>. QED BY <1>4, <2>2, <3>2
  <2>. QED BY <1>5, <1>8, <2>2, <2>3 DEF Finished
<1>9. CASE cpc # "done"
  <2>1. Reading BY <1>7, <1>9 DEF StreamInv
  <2>2. PICK past \in Seq(Int) : sent = (past \o Held) \o toClient /\ printed = CString(past)
    BY <2>1 DEF Reading
  <2>3. Held \in Seq(Int) BY <1>6, EmptySeq DEF Held
  <2>4. Held' = Held BY <1>5 DEF Held
  <2>5. sent' = (past \o Held) \o toClient'
    <3>1. past \o Held \in Seq(Int) BY <2>3, Regroup
    <3>2. ((past \o Held) \o toClient) \o x = (past \o Held) \o (toClient \o x)
      BY <1>6, <3>1, Regroup
    <3>. QED BY <1>4, <2>2, <3>2
  <2>. QED BY <1>5, <1>9, <2>2, <2>4, <2>5 DEF Reading
<1>. QED BY <1>8, <1>9

-----------------------------------------------------------------------------
(* What a step of the client does.                                          *)

\* A client that reads n bytes and holds new in its buffer.
ClientEffect ==
  /\ cpc \in {"code", "read"} /\ UNCHANGED <<fixed, lines, sent, spc, reset>>
  /\ code' \in {code, ""} /\ cpc' \in ClientPC /\ death' \in BOOLEAN /\ (death => death')
  /\ \E n \in 0 .. Len(toClient) : toClient' = After(toClient, n)
  /\ buff' \in Seq(Int) /\ printed' \in Seq(Int)
  /\ Len(buff') <= Buffer + 1 /\ (client = "linux" => Len(buff') < Buffer)
  /\ Ordinary /\ ~ServerClosed => buff' \in Seq(Nat)
  /\ Ordinary /\ cpc' = "done" => ServerClosed
  /\ cpc' \in {"refused", "cut"} => ServerClosed
  /\ cpc' = "gone" => death'

\* The reads of the Linux client.
LEMMA ReadLinuxEffect ==
  ASSUME OutputInv, ReadLinux
  PROVE  ClientEffect
<1>1. FixedInv /\ TypedInv /\ HarmlessInv BY DEF OutputInv
<1>2. cpc = "read" /\ client = "linux" BY DEF ReadLinux
<1>3. PICK n \in 1 .. AtMost(Len(toClient), Buffer - Len(buff)) :
        LET new == Gathered(SubSeq(toClient, 1, n)) IN
        /\ Take(n) /\ printed' = printed \o Shown(new) /\ buff' = Kept(new)
        /\ cpc' = IF Stops(new) THEN "done" ELSE "read"
  BY DEF ReadLinux
<1>. DEFINE piece == SubSeq(toClient, 1, n)
            new == Gathered(piece)
<1>4. /\ Take(n) /\ printed' = printed \o Shown(new) /\ buff' = Kept(new)
      /\ cpc' = IF Stops(new) THEN "done" ELSE "read"
  BY <1>3
<1>5. /\ toClient \in Seq(Int) /\ buff \in Seq(Int) /\ printed \in Seq(Int)
      /\ Len(toClient) \in Nat /\ Len(buff) \in Nat /\ Len(buff) < Buffer
  BY <1>1, <1>2, LenProperties DEF TypedInv
<1>6. n \in 0 .. Len(toClient) /\ Len(buff) + n <= Buffer
  <2>1. Len(toClient) \in Int /\ Buffer - Len(buff) \in Int /\ Buffer \in Nat
    BY <1>5, OutputAssumption, SMT
  <2>2. /\ AtMost(Len(toClient), Buffer - Len(buff)) \in Int
        /\ AtMost(Len(toClient), Buffer - Len(buff)) <= Len(toClient)
        /\ AtMost(Len(toClient), Buffer - Len(buff)) <= Buffer - Len(buff)
    BY <2>1, AtMostIsLess
  <2>. QED BY <1>5, <2>1, <2>2, SMT
<1>7. piece \in Seq(Int) /\ Len(piece) = n /\ (toClient \in Seq(Nat) => piece \in Seq(Nat))
  BY <1>5, <1>6, ReadAndRest
<1>8. new = buff \o piece BY DEF Gathered
<1>. HIDE DEF piece, new
<1>9. new \in Seq(Int) /\ Len(new) = Len(buff) + n BY <1>5, <1>7, <1>8, ConcatProperties
<1>10. Len(new) <= Buffer BY <1>6, <1>9, SMT
<1>11. <<>> \in Seq(Int) /\ <<>> \in Seq(Nat) /\ Len(<<>>) = 0 BY EmptySeq
<1>12. buff' \in {<<>>, new} /\ Len(buff') < Buffer /\ Len(buff') <= Buffer + 1
  <2>1. CASE Len(new) = Buffer
    <3>1. buff' = <<>> BY <1>4, <2>1 DEF Kept
    <3>. QED BY <1>11, <3>1, OutputAssumption, SMT
  <2>2. CASE Len(new) # Buffer
    <3>1. buff' = new BY <1>4, <2>2 DEF Kept
    <3>2. Len(new) \in Nat /\ Buffer \in Nat BY <1>9, OutputAssumption, LenProperties
    <3>3. Len(new) < Buffer /\ Len(new) <= Buffer + 1 BY <1>10, <2>2, <3>2, SMT
    <3>. QED BY <3>1, <3>3
  <2>. QED BY <2>1, <2>2
<1>13. printed' \in Seq(Int)
  <2>1. CString(new) \in Seq(Int) BY <1>9, CStringTyped
  <2>2. Shown(new) \in Seq(Int) BY <1>11, <2>1, Regroup DEF Shown
  <2>. QED BY <1>4, <1>5, <2>2, Regroup
<1>14. Ordinary /\ ~ServerClosed => buff' \in Seq(Nat) /\ ~Stops(new)
  <2>. SUFFICES ASSUME Ordinary, ~ServerClosed PROVE buff' \in Seq(Nat) /\ ~Stops(new) OBVIOUS
  <2>1. toClient \in Seq(Nat) /\ buff \in Seq(Nat) BY <1>1 DEF HarmlessInv
  <2>2. new \in Seq(Nat) BY <1>7, <1>8, <2>1, ConcatProperties
  <2>3. ~Stops(new) BY <2>2, NoMarkerInText DEF Stops
  <2>. QED BY <1>11, <1>12, <2>2, <2>3
<1>15. cpc' \in {"done", "read"} /\ (cpc' = "done" => Stops(new)) BY <1>4
<1>16. /\ UNCHANGED <<fixed, lines, sent, spc, reset>> /\ code' = code /\ death' = death
       /\ toClient' = After(toClient, n) /\ death' \in BOOLEAN
  BY <1>1, <1>4 DEF Take, TypedInv
<1>17. buff' \in Seq(Int) BY <1>9, <1>11, <1>12
<1>. QED BY <1>2, <1>6, <1>12, <1>13, <1>14, <1>15, <1>16, <1>17 DEF ClientEffect, ClientPC

\* The reads of the Windows client.
LEMMA ReadWindowsEffect ==
  ASSUME OutputInv, ReadWindows
  PROVE  ClientEffect
<1>1. FixedInv /\ TypedInv /\ HarmlessInv BY DEF OutputInv
<1>2. cpc = "read" /\ client = "windows" BY DEF ReadWindows
<1>3. PICK n \in 1 .. AtMost(Len(toClient), Buffer + 1) :
        LET piece == SubSeq(toClient, 1, n)
            msg == IF request = "LSF" THEN piece \o After(buff, n) ELSE piece
        IN
        /\ Take(n) /\ printed' = printed \o CString(msg) /\ buff' = msg
        /\ cpc' = IF Strstr(CString(msg), END_OF_LINE) THEN "done"
                  ELSE IF request = "EXEC" /\ n > Buffer \div 2 THEN "crashed" ELSE "read"
  BY DEF ReadWindows
<1>. DEFINE piece == SubSeq(toClient, 1, n)
            msg == IF request = "LSF" THEN piece \o After(buff, n) ELSE piece
<1>4. /\ Take(n) /\ printed' = printed \o CString(msg) /\ buff' = msg
      /\ cpc' \in {"done", "crashed", "read"}
      /\ (cpc' = "done" => Strstr(CString(msg), END_OF_LINE))
  BY <1>3
<1>5. /\ toClient \in Seq(Int) /\ buff \in Seq(Int) /\ printed \in Seq(Int)
      /\ Len(toClient) \in Nat /\ Len(buff) \in Nat /\ Len(buff) <= Buffer + 1
  BY <1>1, LenProperties DEF TypedInv
<1>6. n \in 0 .. Len(toClient) /\ n <= Buffer + 1
  <2>1. Len(toClient) \in Int /\ Buffer + 1 \in Int BY <1>5, OutputAssumption, SMT
  <2>2. /\ AtMost(Len(toClient), Buffer + 1) \in Int
        /\ AtMost(Len(toClient), Buffer + 1) <= Len(toClient)
        /\ AtMost(Len(toClient), Buffer + 1) <= Buffer + 1
    BY <2>1, AtMostIsLess
  <2>. QED BY <1>5, <2>1, <2>2, SMT
<1>7. piece \in Seq(Int) /\ Len(piece) = n /\ (toClient \in Seq(Nat) => piece \in Seq(Nat))
  BY <1>5, <1>6, ReadAndRest
<1>8. /\ After(buff, n) \in Seq(Int) /\ (buff \in Seq(Nat) => After(buff, n) \in Seq(Nat))
      /\ n + Len(After(buff, n)) <= Buffer + 1
  <2>1. CASE n <= Len(buff)
    <3>1. n \in 0 .. Len(buff) BY <1>5, <1>6, <2>1, SMT
    <3>2. /\ After(buff, n) \in Seq(Int) /\ (buff \in Seq(Nat) => After(buff, n) \in Seq(Nat))
          /\ Len(After(buff, n)) = Len(buff) - n
      BY <1>5, <3>1, ReadAndRest
    <3>3. n + (Len(buff) - n) <= Buffer + 1 BY <1>5, <1>6, OutputAssumption, SMT
    <3>. QED BY <3>2, <3>3
  <2>2. CASE ~(n <= Len(buff))
    <3>1. n + 1 \in Int /\ Len(buff) \in Int /\ Len(buff) < n + 1 /\ n + 0 <= Buffer + 1
      BY <1>5, <1>6, <2>2, SMT
    <3>2. After(buff, n) = <<>> BY <3>1, SubSeqEmpty DEF After
    <3>3. <<>> \in Seq(Int) /\ <<>> \in Seq(Nat) /\ Len(<<>>) = 0 BY EmptySeq
    <3>. QED BY <3>1, <3>2, <3>3
  <2>. QED BY <2>1, <2>2
<1>. HIDE DEF piece
<1>9. /\ msg \in Seq(Int) /\ Len(msg) <= Buffer + 1
      /\ (toClient \in Seq(Nat) /\ buff \in Seq(Nat) => msg \in Seq(Nat))
  <2>1. CASE request = "LSF"
    <3>1. msg = piece \o After(buff, n) BY <2>1
    <3>. DEFINE old == After(buff, n)
    <3>2. old \in Seq(Int) /\ (buff \in Seq(Nat) => old \in Seq(Nat)) /\ n + Len(old) <= Buffer + 1
      BY <1>8
    <3>. HIDE DEF old
    <3>3. piece \o old \in Seq(Int) /\ Len(piece \o old) = n + Len(old)
      BY <1>7, <3>2, ConcatProperties
    <3>4. toClient \in Seq(Nat) /\ buff \in Seq(Nat) => piece \o old \in Seq(Nat)
      BY <1>7, <3>2, ConcatProperties
    <3>. QED BY <3>1, <3>2, <3>3, <3>4 DEF old
  <2>2. CASE request # "LSF" BY <1>6, <1>7, <2>2
  <2>. QED BY <2>1, <2>2
<1>. HIDE DEF msg
<1>10. printed' \in Seq(Int)
  <2>1. CString(msg) \in Seq(Int) BY <1>9, CStringTyped
  <2>. QED BY <1>4, <1>5, <2>1, Regroup
<1>11. Ordinary /\ ~ServerClosed => msg \in Seq(Nat) /\ cpc' # "done"
  <2>. SUFFICES ASSUME Ordinary, ~ServerClosed PROVE msg \in Seq(Nat) /\ cpc' # "done" OBVIOUS
  <2>1. toClient \in Seq(Nat) /\ buff \in Seq(Nat) BY <1>1 DEF HarmlessInv
  <2>2. msg \in Seq(Nat) BY <1>9, <2>1
  <2>. QED BY <1>4, <2>2, NoMarkerInText
<1>12. /\ UNCHANGED <<fixed, lines, sent, spc, reset>> /\ code' = code /\ death' = death
       /\ toClient' = After(toClient, n) /\ death' \in BOOLEAN
  BY <1>1, <1>4 DEF Take, TypedInv
<1>. QED BY <1>2, <1>4, <1>6, <1>9, <1>10, <1>11, <1>12 DEF ClientEffect, ClientPC

\* Every step of the client, and its death.
LEMMA ClientSteps ==
  ASSUME OutputInv, Client \/ Die
  PROVE  ClientEffect
<1>1. FixedInv /\ TypedInv /\ HarmlessInv BY DEF OutputInv
<1>2. /\ toClient \in Seq(Int) /\ Len(toClient) \in Nat /\ buff \in Seq(Int)
      /\ printed \in Seq(Int) /\ death \in BOOLEAN
      /\ Len(buff) <= Buffer + 1 /\ (client = "linux" => Len(buff) < Buffer)
  BY <1>1, LenProperties DEF TypedInv
<1>3. \E n \in 0 .. Len(toClient) : toClient = After(toClient, n)
  <2>1. 0 \in 0 .. Len(toClient) /\ 0 + 1 = 1 BY <1>2, SMT
  <2>2. SubSeq(toClient, 1, Len(toClient)) = toClient BY <1>2, SubSeqFull
  <2>. QED BY <2>1, <2>2 DEF After
<1>4. Ordinary /\ ~ServerClosed => buff \in Seq(Nat) BY <1>1 DEF HarmlessInv
<1>5. CASE ReadCode
  <2>1. /\ cpc = "code" /\ code # "" /\ code' = ""
        /\ cpc' = IF code = "300" THEN "read" ELSE "refused"
        /\ UNCHANGED <<fixed, lines, sent, toClient, buff, printed, spc, reset, death>>
    BY <1>5 DEF ReadCode
  <2>2. cpc' = "refused" => ServerClosed BY <1>1, <2>1 DEF TypedInv, HarmlessInv
  <2>3. cpc' \in {"read", "refused"} BY <2>1
  <2>. QED BY <1>2, <1>3, <1>4, <2>1, <2>2, <2>3 DEF ClientEffect, ClientPC
<1>6. CASE ReadLinux BY <1>6, ReadLinuxEffect
<1>7. CASE ReadWindows BY <1>7, ReadWindowsEffect
<1>8. CASE ReadEnd
  <2>1. /\ cpc = "read" /\ ServerClosed /\ cpc' = "cut"
        /\ UNCHANGED <<fixed, lines, code, sent, toClient, buff, printed, spc, reset, death>>
    BY <1>8 DEF ReadEnd, AtEnd
  <2>. QED BY <1>2, <1>3, <1>4, <2>1 DEF ClientEffect, ClientPC
<1>9. CASE Die
  <2>1. /\ cpc \in {"code", "read"} /\ cpc' = "gone" /\ death' = TRUE
        /\ UNCHANGED <<fixed, lines, code, sent, toClient, buff, printed, spc, reset>>
    BY <1>9 DEF Die, ClientClosed
  <2>. QED BY <1>2, <1>3, <1>4, <2>1 DEF ClientEffect, ClientPC
<1>. QED BY <1>5, <1>6, <1>7, <1>8, <1>9 DEF Client

\* It keeps the invariant.
LEMMA ClientKeeps ==
  ASSUME OutputInv, Client \/ Die
  PROVE  OutputInv'
<1>1. FixedInv /\ TypedInv /\ HarmlessInv BY DEF OutputInv
<1>2. ClientEffect BY ClientSteps
<1>3. /\ cpc \in {"code", "read"} /\ UNCHANGED <<fixed, lines, sent, spc, reset>>
      /\ code' \in {code, ""} /\ cpc' \in ClientPC /\ death' \in BOOLEAN /\ (death => death')
      /\ buff' \in Seq(Int) /\ printed' \in Seq(Int)
      /\ Len(buff') <= Buffer + 1 /\ (client = "linux" => Len(buff') < Buffer)
  BY <1>2 DEF ClientEffect
<1>4. /\ Ordinary /\ ~ServerClosed => buff' \in Seq(Nat)
      /\ Ordinary /\ cpc' = "done" => ServerClosed
      /\ cpc' \in {"refused", "cut"} => ServerClosed
      /\ cpc' = "gone" => death'
  BY <1>2 DEF ClientEffect
<1>5. PICK n \in 0 .. Len(toClient) : toClient' = After(toClient, n) BY <1>2 DEF ClientEffect
<1>6. toClient \in Seq(Int) /\ sent \in Seq(Int) /\ code \in {"", "300", "400"} /\ reset \in BOOLEAN
  BY <1>1 DEF TypedInv
<1>7. /\ toClient' \in Seq(Int) /\ (toClient \in Seq(Nat) => toClient' \in Seq(Nat))
      /\ SubSeq(toClient, 1, n) \in Seq(Int) /\ toClient = SubSeq(toClient, 1, n) \o toClient'
  <2>. DEFINE rest == After(toClient, n)
  <2>1. /\ rest \in Seq(Int) /\ (toClient \in Seq(Nat) => rest \in Seq(Nat))
        /\ SubSeq(toClient, 1, n) \in Seq(Int) /\ toClient = SubSeq(toClient, 1, n) \o rest
    BY <1>6, ReadAndRest
  <2>2. toClient' = rest BY <1>5
  <2>. HIDE DEF rest
  <2>. QED BY <2>1, <2>2
<1>8. client' = client /\ output' = output BY <1>3 DEF fixed
<1>9. FixedInv' BY <1>1, <1>3, FixedKeeps
<1>10. TypedInv'
  <2>1. \E given \in Seq(Int) : sent' = given \o toClient'
    <3>1. PICK given \in Seq(Int) : sent = given \o toClient BY <1>1 DEF TypedInv
    <3>. DEFINE piece == SubSeq(toClient, 1, n)
    <3>2. piece \in Seq(Int) /\ toClient' \in Seq(Int) BY <1>7
    <3>3. toClient = piece \o toClient' BY <1>7
    <3>. HIDE DEF piece
    <3>4. (given \o piece) \o toClient' = given \o (piece \o toClient') BY <3>2, Regroup
    <3>5. given \o piece \in Seq(Int) BY <3>2, Regroup
    <3>6. sent' = (given \o piece) \o toClient' BY <1>3, <3>1, <3>3, <3>4
    <3>. QED BY <3>5, <3>6
  <2>2. /\ lines' \in Seq(Line) /\ \E given \in Seq(Line) : output' = given \o lines'
        /\ (spc' = "command" => lines' = output') /\ (spc' = "copy" => lines' # <<>>)
        /\ spc' \in ServerPC
    <3>1. /\ lines \in Seq(Line) /\ \E given \in Seq(Line) : output = given \o lines
          /\ (spc = "command" => lines = output) /\ (spc = "copy" => lines # <<>>)
          /\ spc \in ServerPC
      BY <1>1 DEF TypedInv
    <3>2. lines' = lines /\ spc' = spc BY <1>3
    <3>. QED BY <1>8, <3>1, <3>2
  <2>3. code' \in {"", "300", "400"} BY <1>3, <1>6
  <2>. QED BY <1>3, <1>6, <1>7, <1>8, <2>1, <2>2, <2>3 DEF TypedInv
<1>11. HarmlessInv'
  <2>1. (Ordinary' <=> Ordinary) /\ (ServerClosed' <=> ServerClosed)
    <3>1. spc' = spc BY <1>3
    <3>. QED BY <1>8, <3>1 DEF Ordinary, ServerClosed
  <2>2. code' = "400" => ServerClosed BY <1>1, <1>3 DEF HarmlessInv
  <2>3. Ordinary /\ ~ServerClosed => sent' \in Seq(Nat) /\ toClient' \in Seq(Nat)
    BY <1>1, <1>3, <1>7 DEF HarmlessInv
  <2>4. Ordinary /\ spc' \in {"killed", "exited"} => death'
    BY <1>1, <1>3 DEF HarmlessInv
  <2>. QED BY <1>4, <2>1, <2>2, <2>3, <2>4 DEF HarmlessInv
<1>. QED BY <1>9, <1>10, <1>11 DEF OutputInv

\* A read moves the border between what is printed or held and what is not yet read.
\* The text of a piece may be printed apart from the text before it (TextJoins).
LEMMA ReadKeepsStream ==
  ASSUME OutputInv, StreamInv, ReadLinux \/ ReadWindows, Orderly
  PROVE  IF cpc' = "done" THEN Finished' ELSE Reading'
<1>1. FixedInv /\ TypedInv BY DEF OutputInv
<1>2. /\ sent \in Seq(Int) /\ toClient \in Seq(Int) /\ buff \in Seq(Int)
      /\ Len(toClient) \in Nat /\ Len(buff) \in Nat /\ (client = "linux" => Len(buff) < Buffer)
  BY <1>1, LenProperties DEF TypedInv
<1>3. cpc = "read" BY DEF ReadLinux, ReadWindows
<1>4. PICK past \in Seq(Int) : sent = (past \o Held) \o toClient /\ printed = CString(past)
  BY <1>3 DEF StreamInv, Reading
<1>5. Held \in Seq(Int) /\ <<>> \in Seq(Int) BY <1>2, EmptySeq DEF Held
<1>6. Solid(sent) BY <1>2, SolidIsUnbroken DEF Orderly
\* What is read and what was held, as one piece.
<1>7. ASSUME NEW n \in 0 .. Len(toClient), NEW new, new = Held \o SubSeq(toClient, 1, n), Take(n)
      PROVE  /\ new \in Seq(Int) /\ CString(new) \in Seq(Int) /\ CString(past) \in Seq(Int)
             /\ sent' = (past \o new) \o toClient' /\ past \o new \in Seq(Int)
             /\ CString(past \o new) = CString(past) \o CString(new)
             /\ client' = client
  <2>. DEFINE rest == After(toClient, n)
              piece == SubSeq(toClient, 1, n)
  <2>1. rest \in Seq(Int) /\ piece \in Seq(Int) BY <1>2, ReadAndRest
  <2>2. (past \o Held) \o toClient = (past \o (Held \o piece)) \o rest
    <3>1. ASSUME NEW h \in Seq(Int), NEW t \in Seq(Int), NEW k \in 0 .. Len(t)
          PROVE  (past \o h) \o t = (past \o (h \o SubSeq(t, 1, k))) \o After(t, k)
      BY ReadSplits
    <3>. QED BY <1>2, <1>5, <3>1
  <2>3. toClient' = rest /\ sent' = sent /\ client' = client BY <1>7 DEF Take, fixed
  <2>4. new = Held \o piece BY <1>7
  <2>. HIDE DEF rest, piece
  <2>5. new \in Seq(Int) BY <1>5, <2>1, <2>4, Regroup
  <2>6. past \o new \in Seq(Int) BY <2>5, Regroup
  <2>7. sent = (past \o new) \o rest BY <1>4, <2>2, <2>4
  <2>8. Solid(past \o new) BY <1>6, <2>1, <2>6, <2>7, SolidBegins
  <2>9. CString(past \o new) = CString(past) \o CString(new) BY <2>5, <2>8, TextJoins
  <2>. QED BY <2>3, <2>5, <2>6, <2>7, <2>9, CStringTyped
<1>8. CASE ReadLinux
  <2>1. client = "linux" BY <1>8 DEF ReadLinux
  <2>2. PICK n \in 1 .. AtMost(Len(toClient), Buffer - Len(buff)) :
          LET new == Gathered(SubSeq(toClient, 1, n)) IN
          /\ Take(n) /\ printed' = printed \o Shown(new) /\ buff' = Kept(new)
          /\ cpc' = IF Stops(new) THEN "done" ELSE "read"
    BY <1>8 DEF ReadLinux
  <2>. DEFINE new == Gathered(SubSeq(toClient, 1, n))
              c == CString(new)
              p == CString(past)
  <2>3. /\ Take(n) /\ printed' = printed \o Shown(new) /\ buff' = Kept(new)
        /\ cpc' = IF Stops(new) THEN "done" ELSE "read"
    BY <2>2
  <2>4. n \in 0 .. Len(toClient)
    <3>1. Len(toClient) \in Int /\ Buffer - Len(buff) \in Int
      BY <1>2, OutputAssumption, SMT
    <3>2. /\ AtMost(Len(toClient), Buffer - Len(buff)) \in Int
          /\ AtMost(Len(toClient), Buffer - Len(buff)) <= Len(toClient)
      BY <3>1, AtMostIsLess
    <3>. QED BY <1>2, <3>2, SMT
  <2>5. new = Held \o SubSeq(toClient, 1, n) BY <2>1 DEF Gathered, Held
  <2>6. /\ new \in Seq(Int) /\ c \in Seq(Int) /\ p \in Seq(Int)
        /\ sent' = (past \o new) \o toClient' /\ past \o new \in Seq(Int)
        /\ CString(past \o new) = p \o c /\ client' = client
    BY <1>7, <2>3, <2>4, <2>5
  <2>7. Stops(new) <=> Strstr(c, END_OF_LINE) BY DEF Stops
  <2>8. Shown(new) = (IF Len(new) = Buffer THEN c ELSE <<>>) \o (IF Stops(new) THEN c ELSE <<>>)
    BY DEF Shown
  <2>9. printed = p BY <1>4
  <2>10. c \o <<>> = c /\ <<>> \o c = c /\ <<>> \o <<>> = <<>> /\ p \o <<>> = p
    BY <1>5, <2>6, ConcatEmptySeq
  <2>11. CString(new) = c OBVIOUS
  <2>12. CString(past) = p OBVIOUS
  <2>. HIDE DEF new, c, p
  <2>13. p \o (c \o c) = (p \o c) \o c
    <3>1. p \in Seq(Int) /\ c \in Seq(Int) BY <2>6
    <3>. QED BY <3>1, Regroup
  <2>14. CASE Stops(new)
    <3>1. cpc' = "done" BY <2>3, <2>14
    <3>2. CASE Len(new) = Buffer
      <4>1. printed' = (p \o c) \o c BY <2>3, <2>8, <2>9, <2>13, <2>14, <3>2
      <4>2. Finished'
        BY <2>1, <2>6, <2>7, <2>11, <2>12, <2>14, <3>2, <4>1 DEF Finished
      <4>. QED BY <3>1, <4>2
    <3>3. CASE Len(new) # Buffer
      <4>1. printed' = p \o c BY <2>3, <2>8, <2>9, <2>10, <2>14, <3>3
      <4>2. Finished' BY <2>6, <2>7, <2>11, <2>12, <2>14, <4>1 DEF Finished
      <4>. QED BY <3>1, <4>2
    <3>. QED BY <3>2, <3>3
  <2>15. CASE ~Stops(new)
    <3>1. cpc' # "done" BY <2>3, <2>15
    <3>2. CASE Len(new) = Buffer
      <4>1. printed' = p \o c BY <2>3, <2>8, <2>9, <2>10, <2>15, <3>2
      <4>2. Held' = <<>> BY <2>1, <2>3, <2>6, <3>2 DEF Held, Kept
      <4>3. (past \o new) \o <<>> = past \o new BY <2>6, ConcatEmptySeq
      <4>4. sent' = ((past \o new) \o Held') \o toClient' BY <2>6, <4>2, <4>3
      <4>5. printed' = CString(past \o new) BY <2>6, <4>1
      <4>6. Reading' BY <2>6, <4>4, <4>5 DEF Reading
      <4>. QED BY <3>1, <4>6
    <3>3. CASE Len(new) # Buffer
      <4>1. printed' = p BY <2>3, <2>8, <2>9, <2>10, <2>15, <3>3
      <4>2. Held' = new BY <2>1, <2>3, <2>6, <3>3 DEF Held, Kept
      <4>3. sent' = (past \o Held') \o toClient' /\ printed' = CString(past)
        BY <2>6, <2>12, <4>1, <4>2
      <4>4. Reading' BY <4>3 DEF Reading
      <4>. QED BY <3>1, <4>4
    <3>. QED BY <3>2, <3>3
  <2>. QED BY <2>14, <2>15
<1>9. CASE ReadWindows
  <2>1. client = "windows" /\ request = "EXEC" /\ client # "linux" BY <1>9 DEF ReadWindows, Orderly
  <2>2. PICK n \in 1 .. AtMost(Len(toClient), Buffer + 1) :
          LET piece == SubSeq(toClient, 1, n)
              msg == IF request = "LSF" THEN piece \o After(buff, n) ELSE piece
          IN
          /\ Take(n) /\ printed' = printed \o CString(msg) /\ buff' = msg
          /\ cpc' = IF Strstr(CString(msg), END_OF_LINE) THEN "done"
                    ELSE IF request = "EXEC" /\ n > Buffer \div 2 THEN "crashed" ELSE "read"
    BY <1>9 DEF ReadWindows
  <2>. DEFINE new == SubSeq(toClient, 1, n)
              c == CString(new)
              p == CString(past)
  <2>3. request # "LSF" BY <2>1
  <2>4. /\ Take(n) /\ printed' = printed \o c /\ buff' = new
        /\ (Strstr(c, END_OF_LINE) <=> cpc' = "done")
    BY <2>2, <2>3
  <2>5. n \in 0 .. Len(toClient)
    <3>1. Len(toClient) \in Int /\ Buffer + 1 \in Int BY <1>2, OutputAssumption, SMT
    <3>2. /\ AtMost(Len(toClient), Buffer + 1) \in Int
          /\ AtMost(Len(toClient), Buffer + 1) <= Len(toClient)
      BY <3>1, AtMostIsLess
    <3>. QED BY <1>2, <3>2, SMT
  <2>6. new = Held \o SubSeq(toClient, 1, n)
    <3>1. new \in Seq(Int) BY <1>2, <2>5, ReadAndRest
    <3>2. Held = <<>> BY <2>1 DEF Held
    <3>. QED BY <3>1, <3>2, ConcatEmptySeq
  <2>7. /\ new \in Seq(Int) /\ c \in Seq(Int) /\ p \in Seq(Int)
        /\ sent' = (past \o new) \o toClient' /\ past \o new \in Seq(Int)
        /\ CString(past \o new) = p \o c /\ client' = client
    BY <1>7, <2>4, <2>5, <2>6
  <2>8. printed' = p \o c BY <1>4, <2>4
  <2>9. CString(new) = c /\ CString(past) = p OBVIOUS
  <2>. HIDE DEF new, c, p
  <2>10. CASE cpc' = "done"
    <3>1. Finished' BY <2>4, <2>7, <2>8, <2>9, <2>10 DEF Finished
    <3>. QED BY <2>10, <3>1
  <2>11. CASE cpc' # "done"
    <3>1. Held' = <<>> BY <2>1, <2>7 DEF Held
    <3>2. (past \o new) \o <<>> = past \o new BY <2>7, ConcatEmptySeq
    <3>3. sent' = ((past \o new) \o Held') \o toClient' BY <2>7, <3>1, <3>2
    <3>4. printed' = CString(past \o new) BY <2>7, <2>8
    <3>5. Reading' BY <2>7, <3>3, <3>4 DEF Reading
    <3>. QED BY <2>11, <3>5
  <2>. QED BY <2>10, <2>11
<1>. QED BY <1>8, <1>9

\* The other steps of the client move nothing.
LEMMA ClientKeepsStream ==
  ASSUME OutputInv, StreamInv, Client \/ Die
  PROVE  StreamInv'
<1>1. CASE ReadLinux \/ ReadWindows
  <2>. SUFFICES ASSUME Orderly' PROVE IF cpc' = "done" THEN Finished' ELSE Reading'
    BY DEF StreamInv
  <2>1. sent' = sent /\ client' = client /\ request' = request
    BY <1>1 DEF ReadLinux, ReadWindows, Take, fixed
  <2>2. sent \in Seq(Int) BY DEF OutputInv, TypedInv
  <2>3. Orderly BY <2>1, <2>2, SolidIsUnbroken DEF Orderly
  <2>. QED BY <1>1, <2>3, ReadKeepsStream
<1>2. CASE ReadCode \/ ReadEnd \/ Die
  <2>1. /\ sent' = sent /\ toClient' = toClient /\ client' = client /\ request' = request
        /\ buff' = buff /\ printed' = printed /\ cpc # "done" /\ cpc' # "done"
    BY <1>2 DEF ReadCode, ReadEnd, AtEnd, Die, ClientClosed, fixed
  <2>2. sent \in Seq(Int) BY DEF OutputInv, TypedInv
  <2>. SUFFICES ASSUME Orderly' PROVE Reading'
    BY <2>1 DEF StreamInv
  <2>3. Orderly BY <2>1, <2>2, SolidIsUnbroken DEF Orderly
  <2>4. Reading BY <2>1, <2>3 DEF StreamInv
  <2>5. Held' = Held BY <2>1 DEF Held
  <2>. QED BY <2>1, <2>4, <2>5 DEF Reading
<1>. QED BY <1>1, <1>2 DEF Client

\* Steps of nobody.
LEMMA StutterKeeps ==
  ASSUME OutputInv, StreamInv, UNCHANGED vars
  PROVE  OutputInv' /\ StreamInv'
<1>1. /\ UNCHANGED fixed /\ client' = client /\ server' = server /\ request' = request
      /\ output' = output /\ lines' = lines /\ code' = code /\ sent' = sent
      /\ toClient' = toClient /\ buff' = buff /\ printed' = printed /\ cpc' = cpc
      /\ spc' = spc /\ reset' = reset /\ death' = death
  BY DEF vars, fixed
<1>2. FixedInv' BY <1>1, FixedKeeps DEF OutputInv
<1>3. TypedInv' BY <1>1 DEF OutputInv, TypedInv
<1>4. HarmlessInv' BY <1>1 DEF OutputInv, HarmlessInv, Ordinary, ServerClosed
<1>5. StreamInv'
  <2>1. sent \in Seq(Int) BY DEF OutputInv, TypedInv
  <2>2. Orderly' => Orderly BY <1>1, <2>1, SolidIsUnbroken DEF Orderly
  <2>3. (Finished => Finished') /\ (Reading => Reading') BY <1>1 DEF Finished, Reading, Held
  <2>. QED BY <1>1, <2>2, <2>3 DEF StreamInv
<1>. QED BY <1>2, <1>3, <1>4, <1>5 DEF OutputInv

-----------------------------------------------------------------------------
(* The theorems.                                                            *)

\* The inductive invariant: however the output is cut into writes and reads, the stream
\* is what was printed, what the client holds and what it has not read, and the marker
\* is found only in what was read last.
THEOREM OutputInvariant == Spec => [](OutputInv /\ StreamInv)
<1>1. Init => OutputInv /\ StreamInv BY OutputStarts
<1>2. OutputInv /\ StreamInv /\ [Next]_vars => OutputInv' /\ StreamInv'
  <2>. SUFFICES ASSUME OutputInv, StreamInv, [Next]_vars PROVE OutputInv' /\ StreamInv'
    OBVIOUS
  <2>1. CASE Server BY <2>1, ServerKeeps, ServerKeepsStream
  <2>2. CASE Client \/ Die BY <2>2, ClientKeeps, ClientKeepsStream
  <2>3. CASE UNCHANGED vars BY <2>3, StutterKeeps
  <2>. QED BY <2>1, <2>2, <2>3 DEF Next
<1>. QED BY <1>1, <1>2, PTL DEF Spec

\* Type correctness; the Linux client never keeps a full buffer, and what it has not
\* read is the end of what was sent.
THEOREM TypeCorrect == Spec => []TypeOK
<1>1. OutputInv => TypeOK
  <2>. SUFFICES ASSUME OutputInv PROVE TypeOK OBVIOUS
  <2>1. FixedInv /\ TypedInv BY DEF OutputInv
  <2>2. IsSuffix(lines, output)
    <3>1. PICK given \in Seq(Line) : output = given \o lines BY <2>1 DEF TypedInv
    <3>2. lines \in Seq(Line) BY <2>1 DEF TypedInv
    <3>. QED BY <3>1, <3>2, RestIsSuffix
  <2>3. IsSuffix(toClient, sent)
    <3>1. PICK given \in Seq(Int) : sent = given \o toClient BY <2>1 DEF TypedInv
    <3>2. toClient \in Seq(Int) BY <2>1 DEF TypedInv
    <3>. QED BY <3>1, <3>2, RestIsSuffix
  <2>. QED BY <2>1, <2>2, <2>3 DEF FixedInv, TypedInv, TypeOK
<1>. QED BY <1>1, OutputInvariant, PTL

\* OrdinaryOutputIsHarmless, for every output: a server that is killed by SIGPIPE
\* (Linux) or whose thread ends in the middle (Windows) had an output with a leading 0
\* or a marker inside, or a client that was killed or crashed.
THEOREM OrdinaryOutputAlwaysHarmless == Spec => []OrdinaryOutputIsHarmless
<1>1. OutputInv => OrdinaryOutputIsHarmless
  BY DEF OutputInv, HarmlessInv, Ordinary, OrdinaryOutputIsHarmless
<1>. QED BY <1>1, OutputInvariant, PTL

\* PrintedInOrder, for every way to cut the stream into reads: the client prints a
\* beginning of the text that was sent; the Linux client repeats at most the last
\* buffer, when it was full and held the marker.
THEOREM PrintedAlwaysInOrder == Spec => []PrintedInOrder
<1>1. OutputInv /\ StreamInv => PrintedInOrder
  <2>. SUFFICES ASSUME OutputInv, StreamInv, Orderly
                PROVE  \/ IsPrefix(printed, Visible)
                       \/ /\ client = "linux" /\ cpc = "done" /\ Len(sent) >= Buffer
                          /\ \E w \in 1 .. Buffer :
                               LET n == Len(printed) - w IN
                               /\ n >= w /\ IsPrefix(SubSeq(printed, 1, n), Visible)
                               /\ After(printed, n) = SubSeq(printed, n - w + 1, n)
    BY DEF PrintedInOrder
  <2>1. sent \in Seq(Int) /\ toClient \in Seq(Int) /\ buff \in Seq(Int) BY DEF OutputInv, TypedInv
  <2>2. Solid(sent) BY <2>1, SolidIsUnbroken DEF Orderly
  <2>3. CASE cpc # "done"
    <3>1. PICK past \in Seq(Int) : sent = (past \o Held) \o toClient /\ printed = CString(past)
      BY <2>3 DEF StreamInv, Reading
    <3>. DEFINE rest == Held \o toClient
    <3>2. Held \in Seq(Int) BY <2>1, EmptySeq DEF Held
    <3>3. rest \in Seq(Int) /\ sent = past \o rest
      <4>1. rest \in Seq(Int) BY <2>1, <3>2, Regroup
      <4>2. (past \o Held) \o toClient = past \o rest
        <5>1. \A h, t \in Seq(Int) : (past \o h) \o t = past \o (h \o t) BY Regroup
        <5>. QED BY <2>1, <3>2, <5>1
      <4>. QED BY <3>1, <4>1, <4>2
    <3>. HIDE DEF rest
    <3>4. Visible = CString(past) \o CString(rest)
      <4>1. Solid(past \o rest) BY <2>2, <3>3
      <4>. QED BY <3>3, <4>1, TextJoins DEF Visible
    <3>5. CString(past) \in Seq(Int) /\ CString(rest) \in Seq(Int) BY <3>3, CStringTyped
    <3>. QED BY <3>1, <3>4, <3>5, JoinBegins
  <2>4. CASE cpc = "done"
    <3>1. PICK past \in Seq(Int), last \in Seq(Int) :
            /\ sent = (past \o last) \o toClient /\ Strstr(CString(last), END_OF_LINE)
            /\ \/ printed = CString(past) \o CString(last)
               \/ /\ client = "linux" /\ Len(last) = Buffer
                  /\ printed = (CString(past) \o CString(last)) \o CString(last)
      BY <2>4 DEF StreamInv, Finished
    <3>. DEFINE p == CString(past)
                c == CString(last)
                r == CString(toClient)
    <3>2. /\ p \in Seq(Int) /\ c \in Seq(Int) /\ r \in Seq(Int)
          /\ Len(c) <= Len(last) /\ Strstr(c, END_OF_LINE)
      BY <2>1, <3>1, CStringTyped
    <3>3. Visible = (p \o c) \o r
      <4>. DEFINE q == past \o last
      <4>1. q \in Seq(Int) /\ sent = q \o toClient BY <3>1, Regroup
      <4>2. CString(q) = p \o c
        <5>1. Solid(q)
          <6>. HIDE DEF q
          <6>1. Solid(q \o toClient) BY <2>2, <4>1
          <6>. QED BY <2>1, <4>1, <6>1, SolidBegins
        <5>. QED BY <5>1, TextJoins
      <4>. HIDE DEF q
      <4>3. Solid(q \o toClient) BY <2>2, <4>1
      <4>4. CString(q \o toClient) = CString(q) \o r BY <2>1, <4>1, <4>3, TextJoins
      <4>. QED BY <4>1, <4>2, <4>4 DEF Visible
    <3>4. \/ printed = p \o c
          \/ client = "linux" /\ Len(last) = Buffer /\ printed = (p \o c) \o c
      BY <3>1
    <3>. HIDE DEF p, c, r
    <3>. DEFINE t == p \o c
    <3>5. t \in Seq(Int) /\ Len(t) = Len(p) + Len(c) /\ IsPrefix(t, t \o r)
      <4>1. t \in Seq(Int) /\ Len(t) = Len(p) + Len(c) BY <3>2, ConcatProperties
      <4>. HIDE DEF t
      <4>. QED BY <3>2, <4>1, JoinBegins
    <3>6. CASE printed = t BY <3>3, <3>5, <3>6
    <3>7. CASE client = "linux" /\ Len(last) = Buffer /\ printed = t \o c
      <4>. DEFINE w == Len(c)
                  n == Len(printed) - w
      <4>1. Len(t \o c) = Len(t) + Len(c) BY <3>2, <3>5, ConcatProperties
      <4>2. Len(c) \in Nat /\ Len(p) \in Nat /\ Len(t) \in Nat /\ Buffer \in Nat
        BY <3>2, <3>5, LenProperties, OutputAssumption
      <4>3. Len(c) >= 2 BY <3>2, MarkerLength
      <4>4. w \in 1 .. Buffer BY <3>2, <3>7, <4>2, <4>3, SMT
      <4>5. n = Len(t) /\ n >= w BY <3>5, <3>7, <4>1, <4>2, SMT
      <4>6. Len(sent) >= Buffer
        <5>. DEFINE q == past \o last
        <5>1. q \in Seq(Int) /\ Len(q) = Len(past) + Len(last) BY ConcatProperties
        <5>2. sent = q \o toClient BY <3>1
        <5>. HIDE DEF q
        <5>3. Len(sent) = Len(q) + Len(toClient) BY <2>1, <5>1, <5>2, ConcatProperties
        <5>4. Len(past) \in Nat /\ Len(toClient) \in Nat BY <2>1, LenProperties
        <5>. QED BY <3>7, <4>2, <5>1, <5>3, <5>4, SMT
      <4>7. SubSeq(t \o c, 1, Len(t)) = t /\ After(t \o c, Len(t)) = c
        <5>. HIDE DEF t
        <5>. QED BY <3>2, <3>5, JoinBegins
      <4>8. SubSeq(printed, n - w + 1, n) = c
        <5>. DEFINE first == n - w + 1
        <5>1. /\ first \in 1 .. Len(t) /\ Len(t) \in 1 .. Len(t)
              /\ first = Len(p) + 1 /\ first \in Len(p) + 1 .. Len(p) + Len(c)
              /\ Len(t) \in Len(p) + 1 .. Len(p) + Len(c)
              /\ first - Len(p) = 1 /\ Len(t) - Len(p) = Len(c)
          <6>1. Len(t) = Len(p) + Len(c) /\ n = Len(t) /\ first = n - w + 1 /\ w = Len(c)
            BY <3>5, <4>5
          <6>. HIDE DEF t, n, w, first
          <6>2. first = Len(p) + 1 BY <4>2, <6>1, SMT
          <6>. QED BY <4>2, <4>3, <6>1, <6>2, SMT
        <5>. HIDE DEF first
        <5>2. SubSeq(t \o c, first, Len(t)) = SubSeq(t, first, Len(t))
          <6>. HIDE DEF t
          <6>. QED BY <3>2, <3>5, <5>1, SubSeqOfConcat1
        <5>3. SubSeq(p \o c, first, Len(t)) = SubSeq(c, first - Len(p), Len(t) - Len(p))
          <6>. DEFINE end == Len(t)
          <6>1. end \in Len(p) + 1 .. Len(p) + Len(c) BY <5>1
          <6>. HIDE DEF end, t
          <6>2. SubSeq(p \o c, first, end) = SubSeq(c, first - Len(p), end - Len(p))
            BY <3>2, <5>1, <6>1, SubSeqOfConcat2, SMTT(30)
          <6>. QED BY <6>2 DEF end
        <5>4. SubSeq(c, 1, Len(c)) = c BY <3>2, SubSeqFull
        <5>5. SubSeq(t, first, Len(t)) = c BY <5>1, <5>3, <5>4
        <5>. QED BY <3>7, <4>5, <5>2, <5>5 DEF first
      <4>9. IsPrefix(SubSeq(printed, 1, n), Visible) /\ After(printed, n) = SubSeq(printed, n - w + 1, n)
        BY <3>3, <3>5, <3>7, <4>5, <4>7, <4>8
      <4>. QED BY <2>4, <3>7, <4>4, <4>5, <4>6, <4>9
    <3>. QED BY <3>4, <3>6, <3>7
  <2>. QED BY <2>3, <2>4
<1>. QED BY <1>1, OutputInvariant, PTL

\* DoneMeansAll: a client that stops at the marker has printed the marker and all that
\* was sent before it.
THEOREM DoneAlwaysMeansAll == Spec => []DoneMeansAll
<1>1. OutputInv /\ StreamInv => DoneMeansAll
  <2>. SUFFICES ASSUME OutputInv, StreamInv, Orderly, cpc = "done"
                PROVE  \E n \in 0 .. Len(Visible) : /\ Strstr(SubSeq(Visible, 1, n), END_OF_LINE)
                                                    /\ IsPrefix(SubSeq(Visible, 1, n), printed)
    BY DEF DoneMeansAll
  <2>1. sent \in Seq(Int) /\ toClient \in Seq(Int) BY DEF OutputInv, TypedInv
  <2>2. Solid(sent) BY <2>1, SolidIsUnbroken DEF Orderly
  <2>3. PICK past \in Seq(Int), last \in Seq(Int) :
          /\ sent = (past \o last) \o toClient /\ Strstr(CString(last), END_OF_LINE)
          /\ \/ printed = CString(past) \o CString(last)
             \/ printed = (CString(past) \o CString(last)) \o CString(last)
    BY DEF StreamInv, Finished
  <2>. DEFINE q == past \o last
              t == CString(past) \o CString(last)
              r == CString(toClient)
  <2>4. q \in Seq(Int) /\ sent = q \o toClient BY <2>3, Regroup
  <2>5. CString(past) \in Seq(Int) /\ CString(last) \in Seq(Int) /\ r \in Seq(Int)
    BY <2>1, CStringTyped
  <2>6. t \in Seq(Int) /\ Strstr(t, END_OF_LINE) BY <2>3, <2>5, Regroup, StrstrJoins
  <2>7. Solid(q)
    <3>. HIDE DEF q
    <3>1. Solid(q \o toClient) BY <2>2, <2>4
    <3>. QED BY <2>1, <2>4, <3>1, SolidBegins
  <2>8. CString(q) = t BY <2>7, TextJoins
  <2>9. printed = t \/ printed = t \o CString(last) BY <2>3
  <2>. HIDE DEF q, t, r
  <2>10. Solid(q \o toClient) BY <2>2, <2>4
  <2>11. Visible = t \o r
    <3>1. CString(q \o toClient) = CString(q) \o CString(toClient) BY <2>1, <2>4, <2>10, TextJoins
    <3>. QED BY <2>4, <2>8, <3>1 DEF Visible, r
  <2>12. SubSeq(Visible, 1, Len(t)) = t BY <2>5, <2>6, <2>11, JoinBegins
  <2>13. Len(t) \in 0 .. Len(Visible)
    <3>1. Len(t \o r) = Len(t) + Len(r) BY <2>5, <2>6, ConcatProperties
    <3>2. Len(t) \in Nat /\ Len(r) \in Nat BY <2>5, <2>6, LenProperties
    <3>3. Len(t) \in 0 .. Len(t) + Len(r) BY <3>2, SMT
    <3>. QED BY <2>11, <3>1, <3>3
  <2>14. IsPrefix(t, printed)
    <3>1. IsPrefix(t, t \o CString(last)) BY <2>5, <2>6, JoinBegins
    <3>2. IsPrefix(t, t) BY SMT DEF IsPrefix
    <3>. QED BY <2>9, <3>1, <3>2
  <2>. QED BY <2>6, <2>12, <2>13, <2>14
<1>. QED BY <1>1, OutputInvariant, PTL
=============================================================================
