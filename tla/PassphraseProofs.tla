--------------------------- MODULE PassphraseProofs ---------------------------
(***************************************************************************)
(* Tokens of passphrases of at most 27 printable characters without blanks *)
(* are the same on both platforms: until then the sum cannot reach 2^32.   *)
(* Of every line: the loops stay within it, and the token within its word. *)
(***************************************************************************)
EXTENDS Passphrase, SequenceTheorems, WellFoundedInduction, TLAPS

Value(t) == t[1] * Half + t[2]
MostPerCharacter == LastChar * (MAX_MUL_TOKEN - 1)

\* The lines the theorem is about.
ShortWords == \A l \in Lines : Len(l) <= 27 /\ \A k \in 1 .. Len(l) : l[k] # Space

AgreeInv ==
  /\ line \in Lines /\ read \in 0 .. Len(line) /\ done \in BOOLEAN
  /\ linux \in Nat \X (0 .. Half - 1) /\ linux = windows
  /\ Value(linux) <= 1 + read * MostPerCharacter + (IF done THEN 27 ELSE 0)

-----------------------------------------------------------------------------
\* The numbers of the code, as far as the proofs need them.
LEMMA Numbers ==
  /\ Half \in Nat /\ Half > 1 /\ HalfResidue \in Nat /\ MAX_MUL_TOKEN \in Nat /\ MAX_MUL_TOKEN > 1
  /\ Space \in Nat /\ LastChar \in Nat /\ 27 < Half
  /\ MostPerCharacter \in Nat /\ MostPerCharacter < Half /\ 27 * MostPerCharacter + 28 < 4 * Half
BY SMT DEF Half, HalfResidue, MAX_MUL_TOKEN, Space, LastChar, MostPerCharacter

\* scanf reads the whole of a line that is one word.
LEMMA WordIsLine ==
  ASSUME NEW l \in Lines, \A k \in 1 .. Len(l) : l[k] # Space
  PROVE  WindowsPassphrase(l) = l
<1>1. l \in Seq(Space .. LastChar) /\ Len(l) \in Nat \ {0}
  BY PassphraseAssumption, SMT DEF IsLine
<1>2. {k \in 1 .. Len(l) : l[k] # Space} = 1 .. Len(l) OBVIOUS
<1>3. WordStart(l) = 1
  <2>1. 1 \in 1 .. Len(l) /\ \A y \in 1 .. Len(l) : 1 <= y BY <1>1, SMT
  <2>2. \A x \in 1 .. Len(l) : (\A y \in 1 .. Len(l) : x <= y) => x = 1 BY <1>1, SMT
  <2>. QED BY <1>2, <2>1, <2>2 DEF WordStart, Min
<1>4. WordEnd(l) = Len(l)
  <2>1. {k \in WordStart(l) .. Len(l) : l[k] = Space} \cup {Len(l) + 1} = {Len(l) + 1}
    BY <1>3, SMT
  <2>2. Min({Len(l) + 1}) = Len(l) + 1 BY <1>1, SMT DEF Min
  <2>3. WordEnd(l) = (Len(l) + 1) - 1 BY <2>1, <2>2 DEF WordEnd
  <2>. QED BY <1>1, <2>3, SMT
<1>5. SubSeq(l, 1, Len(l)) = l
  <2>. DEFINE s == SubSeq(l, 1, Len(l))
  <2>1. s \in Seq(Space .. LastChar) /\ Len(s) = Len(l) /\ \A i \in 1 .. Len(s) : s[i] = l[i]
    <3>1. 1 \in Int /\ Len(l) \in Int /\ 1 <= Len(l) BY <1>1, SMT
    <3>2. \A i \in 1 .. Len(l) : l[i] \in Space .. LastChar BY <1>1, ElementOfSeq
    <3>3. /\ s \in Seq(Space .. LastChar)
          /\ Len(s) = IF 1 <= Len(l) THEN Len(l) - 1 + 1 ELSE 0
          /\ \A i \in 1 .. Len(l) - 1 + 1 : s[i] = l[1 + i - 1]
      BY <3>1, <3>2, SubSeqProperties
    <3>. HIDE DEF s
    <3>4. Len(s) = Len(l) BY <3>1, <3>3, SMT
    <3>5. \A i \in 1 .. Len(s) : s[i] = l[i]
      <4>1. ASSUME NEW i \in 1 .. Len(s) PROVE i \in 1 .. Len(l) - 1 + 1 /\ 1 + i - 1 = i
        BY <3>1, <3>4, SMT
      <4>. QED BY <3>3, <4>1
    <3>. QED BY <3>3, <3>4, <3>5
  <2>. HIDE DEF s
  <2>2. s = l BY <1>1, <2>1, SeqEqual
  <2>. QED BY <2>2 DEF s
<1>. QED BY <1>3, <1>4, <1>5 DEF WindowsPassphrase

\* Below 2^32 the two additions are one.
LEMMA AddBelow ==
  ASSUME NEW t \in Nat \X (0 .. Half - 1), NEW n \in 0 .. Half - 1, Value(t) + n < 4 * Half
  PROVE  /\ LinuxAdd(t, n) = WindowsAdd(t, n)
         /\ LinuxAdd(t, n) \in Nat \X (0 .. Half - 1)
         /\ Value(LinuxAdd(t, n)) = Value(t) + n
<1>. DEFINE h == t[1]
            l == t[2]
            s == l + n
<1>1. h \in Nat /\ l \in 0 .. Half - 1 OBVIOUS
<1>2. h * Half + s < 4 * Half BY <1>1, Numbers, SMT DEF Value
<1>. HIDE DEF l
<1>3. s \in Nat /\ s \div Half \in Nat /\ s % Half \in 0 .. Half - 1 /\ s = Half * (s \div Half) + (s % Half)
  <2>1. l \in Nat BY <1>1, Numbers, SMT
  <2>2. s \in Nat BY <2>1, Numbers, SMT
  <2>. HIDE DEF s
  <2>3. s \div Half \in Nat BY <2>2, Numbers, SMT
  <2>4. s % Half \in 0 .. Half - 1 BY <2>2, Numbers, SMT
  <2>5. s = Half * (s \div Half) + (s % Half) BY <2>2, Numbers, SMT
  <2>. QED BY <2>2, <2>3, <2>4, <2>5
<1>. DEFINE d == s \div Half
            r == s % Half
<1>4. /\ h \in Nat /\ d \in Nat /\ r \in 0 .. Half - 1 /\ l \in Nat /\ l + n = Half * d + r
      /\ h * Half + (l + n) < 4 * Half /\ Half \in Nat
  <2>. HIDE DEF h, d, r
  <2>1. h * Half + (l + n) < 4 * Half BY <1>2
  <2>2. l + n = Half * d + r /\ d \in Nat /\ r \in 0 .. Half - 1 
    <3>1. s = Half * d + r /\ d \in Nat /\ r \in 0 .. Half - 1 BY <1>3 DEF d, r
    <3>. QED BY <3>1
  <2>3. l \in Nat BY <1>1, Numbers, SMT
  <2>. QED BY <1>1, <2>1, <2>2, <2>3, Numbers
<1>5. LinuxAdd(t, n) = <<h + d, r>> BY DEF LinuxAdd, l
<1>6. WindowsAdd(t, n) = <<(h + d) % 4, r>> BY DEF WindowsAdd, l
<1>. HIDE DEF h, d, r, s
<1>7. (h + d) * Half < 4 * Half BY <1>4, SMT
<1>8. h + d < 4 BY <1>4, <1>7, Numbers, SMT
<1>9. (h + d) % 4 = h + d BY <1>4, <1>8, SMT
<1>10. (h + d) * Half + r = (h * Half + l) + n BY <1>4, SMT
<1>11. Value(LinuxAdd(t, n)) = (h + d) * Half + r /\ Value(t) = h * Half + l
  BY <1>5 DEF Value, h, l
<1>12. <<h + d, r>> \in Nat \X (0 .. Half - 1) BY <1>4, SMT
<1>. QED BY <1>5, <1>6, <1>9, <1>10, <1>11, <1>12

\* A character adds less than 2^30.
LEMMA TermBounds ==
  ASSUME NEW t \in Nat \X (0 .. Half - 1), NEW c \in Space .. LastChar
  PROVE  c * Residue(t) \in 0 .. MostPerCharacter /\ MostPerCharacter < Half
<1>1. Residue(t) \in 0 .. MAX_MUL_TOKEN - 1
  <2>1. t[1] \in Nat /\ t[2] \in Nat BY Numbers, SMT
  <2>2. t[1] * HalfResidue + t[2] \in Nat BY <2>1, Numbers, SMT
  <2>. DEFINE v == t[1] * HalfResidue + t[2]
  <2>. HIDE DEF v
  <2>3. v % MAX_MUL_TOKEN \in 0 .. MAX_MUL_TOKEN - 1 BY <2>2, Numbers, SMT DEF v
  <2>. QED BY <2>3 DEF Residue, v
<1>. DEFINE r == Residue(t)
<1>2. c \in Nat /\ c <= LastChar /\ r \in Nat /\ r <= MAX_MUL_TOKEN - 1
  BY <1>1, Numbers, SMT
<1>. HIDE DEF r
<1>3. c * r \in Nat BY <1>2, SMT
<1>4. c * r <= LastChar * r BY <1>2, Numbers, SMT
<1>5. LastChar * r <= LastChar * (MAX_MUL_TOKEN - 1) BY <1>2, Numbers, SMT
<1>6. c * r <= MostPerCharacter
  <2>1. LastChar * r \in Int BY <1>2, Numbers, SMT
  <2>2. LastChar * (MAX_MUL_TOKEN - 1) = MostPerCharacter BY DEF MostPerCharacter
  <2>. QED BY <1>3, <1>4, <1>5, <2>1, <2>2, Numbers, SMT
<1>. QED BY <1>3, <1>6, Numbers, SMT DEF r

\* The tokens of the two platforms stay equal, character by character.
LEMMA AgreeStep ==
  ASSUME ShortWords, AgreeInv, [Next]_vars
  PROVE  AgreeInv'
<1>1. /\ line \in Seq(Space .. LastChar) /\ Len(line) \in Nat /\ Len(line) <= 27
      /\ LinuxPassphrase(line) = line /\ WindowsPassphrase(line) = line
  <2>1. line \in Lines /\ Len(line) <= 27 /\ \A k \in 1 .. Len(line) : line[k] # Space
    BY DEF AgreeInv, ShortWords
  <2>2. line \in Seq(Space .. LastChar) BY <2>1, PassphraseAssumption DEF IsLine
  <2>3. Len(line) \in Nat BY <2>2, LenProperties
  <2>. QED BY <2>1, <2>2, <2>3, WordIsLine DEF LinuxPassphrase
<1>2. CASE AddCharacter
  <2>. DEFINE n == line[read + 1] * Residue(linux)
  <2>1. read < Len(line) /\ read' = read + 1 /\ line' = line /\ done' = done
    BY <1>1, <1>2 DEF AddCharacter
  <2>2. linux' = LinuxAdd(linux, n) /\ windows' = WindowsAdd(linux, n)
    BY <1>1, <1>2, <2>1 DEF AddCharacter, AgreeInv
  <2>3. line[read + 1] \in Space .. LastChar
    <3>1. read + 1 \in 1 .. Len(line) BY <1>1, <2>1, SMT DEF AgreeInv
    <3>. QED BY <1>1, <3>1, ElementOfSeq
  <2>4. n \in 0 .. MostPerCharacter /\ MostPerCharacter < Half
    BY <2>3, TermBounds DEF AgreeInv
  <2>. HIDE DEF n
  <2>5. read \in Nat /\ read <= 26 /\ read' \in 0 .. Len(line) BY <1>1, <2>1, SMT DEF AgreeInv
  <2>6. Value(linux) \in Nat
    <3>1. linux[1] \in Nat /\ linux[2] \in Nat BY Numbers, SMT DEF AgreeInv
    <3>. QED BY <3>1, Numbers, SMT DEF Value
  <2>7. Value(linux) + n <= 1 + read' * MostPerCharacter + (IF done THEN 27 ELSE 0)
    <3>1. Value(linux) <= 1 + read * MostPerCharacter + (IF done THEN 27 ELSE 0) BY DEF AgreeInv
    <3>2. read' * MostPerCharacter = read * MostPerCharacter + MostPerCharacter
      BY <2>1, <2>5, Numbers, SMT
    <3>3. read * MostPerCharacter \in Nat /\ (IF done THEN 27 ELSE 0) \in Nat BY <2>5, Numbers, SMT
    <3>. QED BY <2>4, <2>6, <3>1, <3>2, <3>3, Numbers, SMT
  <2>8. Value(linux) + n < 4 * Half
    <3>1. read' \in Nat /\ read' <= 27 BY <2>1, <2>5, SMT
    <3>2. read' * MostPerCharacter <= 27 * MostPerCharacter /\ read' * MostPerCharacter \in Nat
      <4>1. ASSUME NEW a \in Nat, a <= 27, NEW m \in Nat
            PROVE  a * m <= 27 * m /\ a * m \in Nat
        BY <4>1, SMT
      <4>2. MostPerCharacter \in Nat BY Numbers
      <4>. QED BY <3>1, <4>1, <4>2
    <3>. QED BY <2>4, <2>6, <2>7, <3>2, Numbers, SMT
  <2>9. n \in 0 .. Half - 1 BY <2>4, Numbers, SMT
  <2>10. /\ LinuxAdd(linux, n) = WindowsAdd(linux, n) /\ LinuxAdd(linux, n) \in Nat \X (0 .. Half - 1)
         /\ Value(LinuxAdd(linux, n)) = Value(linux) + n
    BY <2>8, <2>9, AddBelow DEF AgreeInv
  <2>11. linux' = windows' /\ linux' \in Nat \X (0 .. Half - 1)
         /\ Value(linux)' <= 1 + read' * MostPerCharacter + (IF done' THEN 27 ELSE 0)
    BY <2>1, <2>2, <2>7, <2>10 DEF Value
  <2>. QED BY <2>1, <2>5, <2>11 DEF AgreeInv
<1>3. CASE AddLength
  <2>1. /\ ~done /\ done' = TRUE /\ line' = line /\ read' = read
        /\ linux' = LinuxAdd(linux, Len(line)) /\ windows' = WindowsAdd(linux, Len(line))
    BY <1>1, <1>3 DEF AddLength, AgreeInv
  <2>2. Value(linux) \in Nat
    <3>1. linux[1] \in Nat /\ linux[2] \in Nat BY Numbers, SMT DEF AgreeInv
    <3>. QED BY <3>1, Numbers, SMT DEF Value
  <2>3. read \in Nat /\ read <= 27 BY <1>1, SMT DEF AgreeInv
  <2>4. Value(linux) + Len(line) <= 1 + read * MostPerCharacter + 27
    <3>1. Value(linux) <= 1 + read * MostPerCharacter BY <2>1, <2>2, <2>3, Numbers, SMT DEF AgreeInv
    <3>2. read * MostPerCharacter \in Nat BY <2>3, Numbers, SMT
    <3>. QED BY <1>1, <2>2, <3>1, <3>2, SMT
  <2>5. Value(linux) + Len(line) < 4 * Half
    <3>1. read * MostPerCharacter <= 27 * MostPerCharacter /\ read * MostPerCharacter \in Nat
      BY <2>3, Numbers, SMT
    <3>. QED BY <1>1, <2>2, <2>4, <3>1, Numbers, SMT
  <2>6. Len(line) \in 0 .. Half - 1 BY <1>1, Numbers, SMT
  <2>7. /\ linux' = windows' /\ linux' \in Nat \X (0 .. Half - 1)
        /\ Value(LinuxAdd(linux, Len(line))) = Value(linux) + Len(line)
    BY <2>1, <2>5, <2>6, AddBelow DEF AgreeInv
  <2>8. Value(linux)' <= 1 + read' * MostPerCharacter + (IF done' THEN 27 ELSE 0)
    BY <2>1, <2>4, <2>7 DEF Value
  <2>. QED BY <2>1, <2>7, <2>8 DEF AgreeInv
<1>4. CASE UNCHANGED vars BY <1>4 DEF vars, AgreeInv, Value
<1>. QED BY <1>2, <1>3, <1>4 DEF Next

\* In mixed operation, every short one-word passphrase gives the two ends one token.
THEOREM MixedTokensAgree == ShortWords => (Spec => []TokensAgree)
<1>. SUFFICES ASSUME ShortWords PROVE Spec => []TokensAgree
  OBVIOUS
<1>1. Init => AgreeInv
  <2>. SUFFICES ASSUME Init PROVE AgreeInv
    OBVIOUS
  <2>1. line \in Lines /\ read = 0 /\ linux = <<0, 1>> /\ windows = <<0, 1>> /\ done = FALSE BY DEF Init
  <2>2. read \in 0 .. Len(line)
    <3>1. Len(line) \in Nat BY <2>1, PassphraseAssumption DEF IsLine
    <3>. QED BY <2>1, <3>1, SMT
  <2>3. linux \in Nat \X (0 .. Half - 1) BY <2>1, Numbers, SMT
  <2>4. Value(linux) = 1 BY <2>1, Numbers, SMT DEF Value
  <2>5. 1 <= 1 + read * MostPerCharacter + 0 BY <2>1, Numbers, SMT
  <2>. QED BY <2>1, <2>2, <2>3, <2>4, <2>5 DEF AgreeInv
<1>2. AgreeInv /\ [Next]_vars => AgreeInv' BY AgreeStep
<1>3. AgreeInv => TokensAgree BY DEF AgreeInv, TokensAgree
<1>. QED BY <1>1, <1>2, <1>3, PTL DEF Spec
-----------------------------------------------------------------------------
\* The least of some natural numbers is one of them.
LEMMA LeastNatural ==
  ASSUME NEW S \in SUBSET Nat, S # {}
  PROVE  Min(S) \in S /\ \A y \in S : Min(S) <= y
<1>1. PICK x \in S : \A y \in S : <<y, x>> \notin OpToRel(<, Nat)
  BY NatLessThanWellFounded, WFMin
<1>2. ASSUME NEW y \in S PROVE x <= y
  <2>1. x \in Nat /\ y \in Nat OBVIOUS
  <2>2. ~(y < x) BY <1>1, <2>1 DEF OpToRel
  <2>. QED BY <2>1, <2>2, SMT
<1>. QED BY <1>2 DEF Min

\* What scanf reads of a line is a part of the line.
LEMMA WordWithinLine ==
  ASSUME NEW l \in Lines
  PROVE  WindowsPassphrase(l) \in Seq(Space .. LastChar) /\ Len(WindowsPassphrase(l)) \in 0 .. Len(l)
<1>1. l \in Seq(Space .. LastChar) /\ Len(l) \in Nat /\ \E k \in 1 .. Len(l) : l[k] # Space
  BY PassphraseAssumption, LenProperties DEF IsLine
<1>. DEFINE a == WordStart(l)
            ends == {k \in a .. Len(l) : l[k] = Space} \cup {Len(l) + 1}
            b == WordEnd(l)
<1>2. a \in 1 .. Len(l)
  <2>. DEFINE S == {k \in 1 .. Len(l) : l[k] # Space}
  <2>1. S \in SUBSET Nat /\ S # {} BY <1>1, SMT
  <2>2. S \in SUBSET (1 .. Len(l)) OBVIOUS
  <2>3. a = Min(S) BY DEF WordStart
  <2>. HIDE DEF S, a
  <2>. QED BY <2>1, <2>2, <2>3, LeastNatural
<1>3. b \in Int /\ b <= Len(l)
  <2>1. b = Min(ends) - 1 BY DEF WordEnd
  <2>. HIDE DEF a, b
  <2>2. ends \in SUBSET Nat /\ Len(l) + 1 \in ends BY <1>1, <1>2, SMT
  <2>. HIDE DEF ends
  <2>3. Min(ends) \in Nat /\ Min(ends) <= Len(l) + 1 BY <2>2, LeastNatural
  <2>. QED BY <1>1, <2>1, <2>3, SMT
<1>4. WindowsPassphrase(l) = SubSeq(l, a, b) BY DEF WindowsPassphrase
<1>. HIDE DEF a, b
<1>5. \A i \in a .. b : l[i] \in Space .. LastChar
  <2>1. ASSUME NEW i \in a .. b PROVE i \in 1 .. Len(l) BY <1>1, <1>2, <1>3, SMT
  <2>. QED BY <1>1, <2>1, ElementOfSeq
<1>6. a \in Int BY <1>2, SMT
<1>7. /\ SubSeq(l, a, b) \in Seq(Space .. LastChar)
      /\ Len(SubSeq(l, a, b)) = IF a <= b THEN b - a + 1 ELSE 0
  BY <1>3, <1>5, <1>6, SubSeqProperties
<1>8. (IF a <= b THEN b - a + 1 ELSE 0) \in 0 .. Len(l) BY <1>1, <1>2, <1>3, SMT
<1>. QED BY <1>4, <1>7, <1>8

\* Whatever is added, a token stays in its word: 32 bits on Windows.
LEMMA AddTyped ==
  ASSUME NEW n \in Nat
  PROVE  /\ \A t \in Nat \X (0 .. Half - 1) : LinuxAdd(t, n) \in Nat \X (0 .. Half - 1)
         /\ \A t \in (0 .. 3) \X (0 .. Half - 1) : WindowsAdd(t, n) \in (0 .. 3) \X (0 .. Half - 1)
<1>1. ASSUME NEW t \in Nat \X (0 .. Half - 1)
      PROVE  /\ t[1] + (t[2] + n) \div Half \in Nat
             /\ (t[1] + (t[2] + n) \div Half) % 4 \in 0 .. 3
             /\ (t[2] + n) % Half \in 0 .. Half - 1
  <2>1. t[1] \in Nat /\ t[2] + n \in Nat BY Numbers, SMT
  <2>. DEFINE s == t[2] + n
  <2>2. s \in Nat BY <2>1
  <2>. HIDE DEF s
  <2>3. s \div Half \in Nat /\ s % Half \in 0 .. Half - 1 BY <2>2, Numbers, SMT
  <2>. DEFINE h == t[1] + s \div Half
  <2>4. h \in Nat BY <2>1, <2>3, SMT
  <2>. HIDE DEF h
  <2>5. h % 4 \in 0 .. 3 BY <2>4, SMT
  <2>. QED BY <2>3, <2>4, <2>5 DEF s, h
<1>2. ASSUME NEW t \in (0 .. 3) \X (0 .. Half - 1) PROVE t \in Nat \X (0 .. Half - 1)
  BY Numbers, SMT
<1>. QED BY <1>1, <1>2 DEF LinuxAdd, WindowsAdd

\* The type invariant, for every set of lines: the passphrase loop reads no further
\* than the line, and the Windows token stays a DWORD however long the passphrase.
THEOREM TypeCorrect == Spec => []TypeOK
<1>1. Init => TypeOK
  <2>. SUFFICES ASSUME Init PROVE TypeOK
    OBVIOUS
  <2>1. line \in Lines /\ read = 0 /\ linux = <<0, 1>> /\ windows = <<0, 1>> /\ done = FALSE BY DEF Init
  <2>2. Len(line) \in Nat BY <2>1, PassphraseAssumption, LenProperties DEF IsLine
  <2>3. read \in 0 .. Len(line) BY <2>1, <2>2, SMT
  <2>4. linux \in Nat \X (0 .. Half - 1) /\ windows \in (0 .. 3) \X (0 .. Half - 1)
    BY <2>1, Numbers, SMT
  <2>. QED BY <2>1, <2>3, <2>4 DEF TypeOK
<1>2. TypeOK /\ [Next]_vars => TypeOK'
  <2>. SUFFICES ASSUME TypeOK, [Next]_vars PROVE TypeOK'
    OBVIOUS
  <2>. DEFINE word == WindowsPassphrase(line)
  <2>1. /\ line \in Seq(Space .. LastChar) /\ Len(line) \in Nat /\ LinuxPassphrase(line) = line
        /\ word \in Seq(Space .. LastChar) /\ Len(word) \in 0 .. Len(line) /\ read \in 0 .. Len(line)
    BY PassphraseAssumption, LenProperties, WordWithinLine DEF TypeOK, IsLine, LinuxPassphrase
  <2>2. windows \in Nat \X (0 .. Half - 1) BY Numbers, SMT DEF TypeOK
  <2>3. CASE AddCharacter
    <3>. HIDE DEF word
    <3>1. ASSUME NEW w \in Seq(Space .. LastChar), Len(w) \in Nat, read < Len(w),
                 NEW t \in Nat \X (0 .. Half - 1)
          PROVE  w[read + 1] * Residue(t) \in Nat
      <4>1. read + 1 \in 1 .. Len(w) BY <2>1, <3>1, SMT
      <4>2. w[read + 1] \in Space .. LastChar BY <4>1, ElementOfSeq
      <4>3. w[read + 1] * Residue(t) \in 0 .. MostPerCharacter BY <4>2, TermBounds
      <4>. QED BY <4>3, Numbers, SMT
    <3>2. Len(word) \in Nat BY <2>1, SMT
    <3>3. /\ read < Len(line) \/ read < Len(word)
          /\ read' = read + 1 /\ line' = line /\ done' = done
          /\ linux' = IF read < Len(line) THEN LinuxAdd(linux, line[read + 1] * Residue(linux)) ELSE linux
          /\ windows' = IF read < Len(word)
                        THEN WindowsAdd(windows, word[read + 1] * Residue(windows)) ELSE windows
      BY <2>1, <2>3 DEF AddCharacter, word
    <3>4. read' \in 0 .. Len(line) BY <2>1, <3>3, SMT
    <3>5. linux' \in Nat \X (0 .. Half - 1)
      <4>1. CASE read < Len(line)
        <5>1. line[read + 1] * Residue(linux) \in Nat BY <2>1, <3>1, <4>1 DEF TypeOK
        <5>. QED BY <3>3, <4>1, <5>1, AddTyped DEF TypeOK
      <4>2. CASE ~(read < Len(line)) BY <3>3, <4>2 DEF TypeOK
      <4>. QED BY <4>1, <4>2
    <3>6. windows' \in (0 .. 3) \X (0 .. Half - 1)
      <4>1. CASE read < Len(word)
        <5>1. word[read + 1] * Residue(windows) \in Nat BY <2>1, <2>2, <3>1, <3>2, <4>1
        <5>. QED BY <3>3, <4>1, <5>1, AddTyped DEF TypeOK
      <4>2. CASE ~(read < Len(word)) BY <3>3, <4>2 DEF TypeOK
      <4>. QED BY <4>1, <4>2
    <3>. QED BY <3>3, <3>4, <3>5, <3>6 DEF TypeOK
  <2>4. CASE AddLength
    <3>1. /\ line' = line /\ read' = read /\ done' = TRUE
          /\ linux' = LinuxAdd(linux, Len(line)) /\ windows' = WindowsAdd(windows, Len(word))
      BY <2>1, <2>4 DEF AddLength
    <3>. HIDE DEF word
    <3>2. Len(word) \in Nat BY <2>1, SMT
    <3>3. linux' \in Nat \X (0 .. Half - 1) BY <2>1, <3>1, AddTyped DEF TypeOK
    <3>4. windows' \in (0 .. 3) \X (0 .. Half - 1) BY <3>1, <3>2, AddTyped DEF TypeOK
    <3>. QED BY <3>1, <3>3, <3>4 DEF TypeOK
  <2>5. CASE UNCHANGED vars BY <2>5 DEF vars, TypeOK
  <2>. QED BY <2>3, <2>4, <2>5 DEF Next
<1>. QED BY <1>1, <1>2, PTL DEF Spec
=============================================================================
