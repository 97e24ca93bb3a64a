------------------------------ MODULE Passphrase ------------------------------
(***************************************************************************)
(* From the line typed at the prompt to the token, on the two platforms:   *)
(* the passphrase is read with Fgets on Linux and scanf("%255s") on        *)
(* Windows, then generateToken() adds one term per character, in an        *)
(* unsigned long of 64 bits on Linux and a DWORD of 32 bits on Windows.    *)
(* The two programs are run side by side, one character at a time.         *)
(*                                                                         *)
(* A token is the pair <<high, low>> that stands for high * 2^30 + low, so *)
(* that TLC's integers hold it.  254 characters keep a token below 2^36,   *)
(* so the 64-bit one never wraps.                                          *)
(***************************************************************************)
EXTENDS Integers, Sequences, FiniteSetsExt

CONSTANT Lines   \* the lines that may be typed: printable characters, one at least no blank

Space == 32
LastChar == 126
MAX_TOKEN_LENGTH == 255
MAX_MUL_TOKEN == 1240000
Half == 1073741824   \* 2^30
HalfResidue == 1141824   \* 2^30 % MAX_MUL_TOKEN

IsLine(l) == /\ l \in Seq(Space .. LastChar) /\ Len(l) < MAX_TOKEN_LENGTH
             /\ \E k \in 1 .. Len(l) : l[k] # Space

ASSUME PassphraseAssumption == \A l \in Lines : IsLine(l)

VARIABLES line, read, linux, windows, done
vars == <<line, read, linux, windows, done>>

-----------------------------------------------------------------------------
\* Fgets(buffer, MAX_TOKEN_LENGTH, stdin): the line; one as long as IsLine says fits.
LinuxPassphrase(l) == l

\* scanf("%255s"): leading blanks are skipped, the next blank ends the word.
WordStart(l) == Min({k \in 1 .. Len(l) : l[k] # Space})
WordEnd(l) == Min({k \in WordStart(l) .. Len(l) : l[k] = Space} \cup {Len(l) + 1}) - 1
\* Fault in WindowsPassphrase: fgets keeps the end of line.
WithEndOfLine(l) == Append(l, 10)
WindowsPassphrase(l) == SubSeq(l, WordStart(l), WordEnd(l))

\* token + n for n < 2^30, in 64 bits.
\* Fault: the carry is lost.
LinuxAddNoCarry(t, n) == <<t[1], t[2] + n>>
LinuxAdd(t, n) == <<t[1] + (t[2] + n) \div Half, (t[2] + n) % Half>>

\* The same in 32 bits: four halves wrap to none.
\* Fault: 31 bits, as in a signed int that is never negative.
WindowsAddSigned(t, n) == <<(t[1] + (t[2] + n) \div Half) % 2, (t[2] + n) % Half>>
WindowsAdd(t, n) == <<(t[1] + (t[2] + n) \div Half) % 4, (t[2] + n) % Half>>

\* token % MAX_MUL_TOKEN
Residue(t) == (t[1] * HalfResidue + t[2]) % MAX_MUL_TOKEN

-----------------------------------------------------------------------------
Init ==
  /\ line \in Lines /\ read = 0
  /\ linux = <<0, 1>> /\ windows = <<0, 1>> /\ done = FALSE

\* The body of the loops, for the next character of each passphrase that has one.
AddCharacter ==
  /\ read < Len(LinuxPassphrase(line)) \/ read < Len(WindowsPassphrase(line))
  /\ read' = read + 1
  /\ linux' = IF read < Len(LinuxPassphrase(line))
              THEN LinuxAdd(linux, LinuxPassphrase(line)[read + 1] * Residue(linux)) ELSE linux
  /\ windows' = IF read < Len(WindowsPassphrase(line))
                THEN WindowsAdd(windows, WindowsPassphrase(line)[read + 1] * Residue(windows)) ELSE windows
  /\ UNCHANGED <<line, done>>

\* token += passphraseLength
AddLength ==
  /\ ~done /\ read >= Len(LinuxPassphrase(line)) /\ read >= Len(WindowsPassphrase(line))
  /\ linux' = LinuxAdd(linux, Len(LinuxPassphrase(line)))
  /\ windows' = WindowsAdd(windows, Len(WindowsPassphrase(line)))
  /\ done' = TRUE /\ UNCHANGED <<line, read>>

Next == AddCharacter \/ AddLength
Spec == Init /\ [][Next]_vars

-----------------------------------------------------------------------------
(* Properties.                                                              *)

\* The type invariant: a token fits its platform's word.
TypeOK ==
  /\ line \in Lines /\ read \in 0 .. Len(line) /\ done \in BOOLEAN
  /\ linux \in Nat \X (0 .. Half - 1) /\ windows \in (0 .. 3) \X (0 .. Half - 1)

\* A client of one platform computes the token of a server of the other from the
\* same line: the mixed operation the README promises.
TokensAgree == done => linux = windows
=============================================================================
