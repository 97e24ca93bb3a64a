--------------------------- MODULE HandshakeProofs ---------------------------
(***************************************************************************)
(* What the handshake guarantees for tokens of any width and any set of    *)
(* random values.  The inductive invariant says which messages are in      *)
(* flight at each pair of control points, and that an AUTH in flight was   *)
(* computed from the challenge the server still holds: then the algebra of *)
(* xor (HonestReply) decides the verdict.                                  *)
(***************************************************************************)
EXTENDS Handshake, SequenceTheorems, TLAPS

\* The client's answer to the challenge c.
ReplyTo(c) == Auth((T_s_client ^^ (T_s_client ^^ c)) ^^ T_c_i, T_c_i ^^ (T_s_client ^^ c))

TokensInv ==
  T_s \in Token /\ T_s_client \in Token /\ T_c_i \in Token /\ challenge \in Token

\* Messages to the server: at most one is on its way.
ToServerInv ==
  /\ toServer \in {<<>>, <<Msg("HELO")>>, <<ReplyTo(challenge)>>}
  /\ toServer = <<Msg("HELO")>> => spc = "helo"
  /\ toServer = <<ReplyTo(challenge)>> => spc = "auth"

\* The two ends in step, as long as the client lives.
ControlInv ==
  /\ cpc = "helo" => spc = "helo" /\ toServer = <<>> /\ toClient = <<>>
  /\ cpc = "continue" =>
       \/ spc = "helo" /\ toServer = <<Msg("HELO")>> /\ toClient = <<>>
       \/ spc = "continue" /\ toServer = <<>> /\ toClient = <<>>
       \/ spc = "challenge" /\ toServer = <<>> /\ toClient = <<Msg("300")>>
       \/ spc = "auth" /\ toServer = <<>> /\ toClient = <<Msg("300"), Challenge(challenge)>>
  /\ cpc = "challenge" =>
       \/ spc = "challenge" /\ toServer = <<>> /\ toClient = <<>>
       \/ spc = "auth" /\ toServer = <<>> /\ toClient = <<Challenge(challenge)>>
  /\ cpc = "verdict" =>
       \/ spc = "auth" /\ toServer = <<ReplyTo(challenge)>> /\ toClient = <<>>
       \/ spc \in {"ok", "abort"} /\ toServer = <<>> /\ toClient = <<>>
       \/ spc = "accepted" /\ toServer = <<>> /\ toClient = <<Msg("200")>>
       \/ spc = "rejected" /\ toServer = <<>> /\ toClient = <<Msg("400")>>
  /\ cpc = "authenticated" => spc = "accepted" /\ toServer = <<>> /\ toClient = <<>>
  /\ cpc = "failed" => spc = "rejected" /\ toServer = <<>> /\ toClient = <<>>

\* A component of the honest answer is 0 and the server refuses a 0.
ZeroAnswer == RejectsZero /\ challenge \in {T_c_i, T_s_client ^^ T_c_i}

VerdictInv ==
  /\ spc \in {"ok", "accepted"} => T_s_client = T_s
  /\ spc \in {"abort", "rejected"} /\ cpc # "gone" => T_s_client # T_s \/ ZeroAnswer

HandshakeInv ==
  TokensInv /\ spc \in ServerPC /\ cpc \in ClientPC /\ ToServerInv /\ ControlInv /\ VerdictInv

-----------------------------------------------------------------------------
\* Xor stays within the tokens.
LEMMA XorToken ==
  ASSUME NEW a \in Token, NEW b \in Token
  PROVE  a ^^ b \in Token
BY SMT DEF Token, ^^

\* Two tokens are the same token when they have the same bits.
LEMMA TokenExtensional ==
  ASSUME NEW a \in Token, NEW b \in Token, \A i \in Bits : a[i] = b[i]
  PROVE  a = b
BY SMT DEF Token

\* Exclusive or of two bits.
X(a, b) == IF a = b THEN 0 ELSE 1

\* One bit of the server's check on an honest answer: s, c, t and r are the bits of
\* the server's token, the client's copy, the client's own token, the challenge.
LEMMA HonestBit ==
  ASSUME NEW s \in {0, 1}, NEW c \in {0, 1}, NEW t \in {0, 1}, NEW r \in {0, 1}
  PROVE  (X(X(X(s, r), X(X(c, X(c, r)), t)), X(t, X(c, r))) = r) <=> (s = c)
BY SMT DEF X

\* The check of authentication() passes on an honest answer exactly when the client
\* was given the server's passphrase; the two other tokens do not matter.
LEMMA HonestReply ==
  ASSUME TokensInv
  PROVE  Correct(ReplyTo(challenge).enc1, ReplyTo(challenge).enc2) <=> T_s_client = T_s
<1>. DEFINE e1 == (T_s_client ^^ (T_s_client ^^ challenge)) ^^ T_c_i
            e2 == T_c_i ^^ (T_s_client ^^ challenge)
            v  == ((T_s ^^ challenge) ^^ e1) ^^ e2
<1>1. v \in Token BY XorToken DEF TokensInv
<1>2. ASSUME NEW i \in Bits PROVE (v[i] = challenge[i]) <=> (T_s[i] = T_s_client[i])
  <2>1. T_s[i] \in {0, 1} /\ T_s_client[i] \in {0, 1} /\ T_c_i[i] \in {0, 1} /\ challenge[i] \in {0, 1}
    BY SMT DEF TokensInv, Token
  <2>2. v[i] = X(X(X(T_s[i], challenge[i]),
                   X(X(T_s_client[i], X(T_s_client[i], challenge[i])), T_c_i[i])),
                 X(T_c_i[i], X(T_s_client[i], challenge[i])))
    BY SMT DEF ^^, X
  <2>. QED BY <2>1, <2>2, HonestBit
<1>3. v = challenge <=> T_s_client = T_s
  <2>. HIDE DEF v
  <2>1. ASSUME v = challenge PROVE T_s_client = T_s
    BY <2>1, <1>2, TokenExtensional DEF TokensInv
  <2>2. ASSUME T_s_client = T_s PROVE v = challenge
    BY <2>2, <1>1, <1>2, TokenExtensional DEF TokensInv
  <2>. QED BY <2>1, <2>2
<1>. QED BY <1>3 DEF Correct, ReplyTo, Auth

\* The two values of an honest answer are 0 for one challenge each.
LEMMA ZeroReply ==
  ASSUME TokensInv
  PROVE  /\ ReplyTo(challenge).enc1 = Zero => challenge = T_c_i
         /\ ReplyTo(challenge).enc2 = Zero => challenge = T_s_client ^^ T_c_i
<1>. DEFINE e1 == (T_s_client ^^ (T_s_client ^^ challenge)) ^^ T_c_i
            e2 == T_c_i ^^ (T_s_client ^^ challenge)
            st == T_s_client ^^ T_c_i
<1>1. st \in Token BY XorToken DEF TokensInv
<1>2. ASSUME NEW i \in Bits
      PROVE  /\ e1[i] = 0 => challenge[i] = T_c_i[i]
             /\ e2[i] = 0 => challenge[i] = st[i]
  <2>1. T_s_client[i] \in {0, 1} /\ T_c_i[i] \in {0, 1} /\ challenge[i] \in {0, 1}
    BY SMT DEF TokensInv, Token
  <2>2. /\ e1[i] = X(X(T_s_client[i], X(T_s_client[i], challenge[i])), T_c_i[i])
        /\ e2[i] = X(T_c_i[i], X(T_s_client[i], challenge[i]))
        /\ st[i] = X(T_s_client[i], T_c_i[i])
    BY SMT DEF ^^, X
  <2>. HIDE DEF e1, e2, st
  <2>. QED BY <2>1, <2>2, SMT DEF X
<1>3. \A i \in Bits : Zero[i] = 0 BY DEF Zero
<1>. HIDE DEF e1, e2, st
<1>4. ASSUME e1 = Zero PROVE challenge = T_c_i
  BY <1>2, <1>3, <1>4, TokenExtensional DEF TokensInv
<1>5. ASSUME e2 = Zero PROVE challenge = st
  BY <1>1, <1>2, <1>3, <1>5, TokenExtensional DEF TokensInv
<1>. QED BY <1>4, <1>5 DEF e1, e2, st, ReplyTo, Auth

\* What Append, Head and Tail do to the short sequences that are in flight.
LEMMA ShortSequences ==
  ASSUME NEW S, NEW a \in S, NEW b \in S
  PROVE  /\ Append(<<>>, a) = <<a>> /\ Append(<<a>>, b) = <<a, b>>
         /\ Head(<<a>>) = a /\ Tail(<<a>>) = <<>>
         /\ Head(<<a, b>>) = a /\ Tail(<<a, b>>) = <<b>>
         /\ <<a>> # <<>> /\ <<a, b>> # <<>>
<1>1. Append(<<>>, a) = <<a>> /\ Append(<<a>>, b) = <<a, b>>
  <2>1. <<>> \in Seq(S) /\ <<a>> \in Seq(S) /\ <<a, b>> \in Seq(S) BY SMT
  <2>2. Append(<<>>, a) = <<a>> BY SMT
  <2>3. /\ Append(<<a>>, b) \in Seq(S) /\ Len(Append(<<a>>, b)) = 2
        /\ Append(<<a>>, b)[1] = a /\ Append(<<a>>, b)[2] = b
    BY <2>1, AppendProperties, SMT
  <2>4. Append(<<a>>, b) = <<a, b>>
    <3>. DEFINE l == Append(<<a>>, b)
                r == <<a, b>>
    <3>1. Len(r) = 2 /\ r[1] = a /\ r[2] = b BY SMT
    <3>2. \A i \in 1 .. Len(l) : l[i] = r[i] BY <2>3, <3>1, SMT
    <3>3. l \in Seq(S) /\ r \in Seq(S) /\ Len(l) = Len(r) BY <2>1, <2>3, <3>1
    <3>. HIDE DEF l, r
    <3>4. l = r BY <3>2, <3>3, SeqEqual
    <3>. QED BY <3>4 DEF l, r
  <2>. QED BY <2>2, <2>4
<1>2. Head(<<a>>) = a /\ Tail(<<a>>) = <<>>
  BY SMT
<1>3. Head(<<a, b>>) = a
  BY SMT
<1>4. Tail(<<a, b>>) = <<b>>
  BY SMT
<1>5. <<a>> # <<>> /\ <<a, b>> # <<>>
  BY SMT
<1>. QED BY <1>1, <1>2, <1>3, <1>4, <1>5

\* The messages differ in kind, whatever they carry.
LEMMA KindsDiffer ==
  /\ \A c : ReplyTo(c).kind = "AUTH" /\ ReplyTo(c) # Msg("HELO")
  /\ \A k : Msg(k).kind = k
  /\ \A c : Challenge(c).value = c /\ Challenge(c).kind = "challenge"
BY SMT DEF ReplyTo, Auth, Msg, Challenge

\* The invariant holds before the first message.
LEMMA HandshakeInit == Init => HandshakeInv
<1>. SUFFICES ASSUME Init PROVE HandshakeInv
  OBVIOUS
<1>1. Zero \in Token BY SMT DEF Zero, Token
<1>2. TokensInv BY <1>1, HandshakeAssumption, SMT DEF Init, TokensInv
<1>3. <<ReplyTo(challenge)>> # <<>> /\ <<Msg("HELO")>> # <<>> BY SMT
<1>4. ToServerInv /\ ControlInv /\ VerdictInv /\ spc \in ServerPC /\ cpc \in ClientPC
  <2>. HIDE DEF Init
  <2>1. toServer = <<>> /\ toClient = <<>> /\ spc = "helo" /\ cpc = "helo" BY DEF Init
  <2>. QED BY <1>3, <2>1, SMT DEF ToServerInv, ControlInv, VerdictInv, ServerPC, ClientPC
<1>. QED BY <1>2, <1>4 DEF HandshakeInv

\* The client's steps.
LEMMA ClientKeeps ==
  ASSUME HandshakeInv, Client \/ Die
  PROVE  HandshakeInv'
<1>. USE DEF HandshakeInv
<1>0. /\ TokensInv' /\ ReplyTo(challenge)' = ReplyTo(challenge) /\ UNCHANGED <<tokens, challenge>>
      /\ spc' = spc
  BY SMT DEF Client, SendHelo, ReadContinue, AnswerChallenge, ReadVerdict, Die, tokens,
       TokensInv, ReplyTo, ^^, Auth
<1>. DEFINE Reply == ReplyTo(challenge)
            Ch == Challenge(challenge)
<1>s. /\ Append(<<>>, Msg("HELO")) = <<Msg("HELO")>> /\ Append(<<>>, Reply) = <<Reply>>
      /\ <<Msg("HELO")>> # <<>> /\ <<Reply>> # <<>> /\ <<Reply>> # <<Msg("HELO")>>
      /\ \A m : Head(<<m>>) = m /\ Tail(<<m>>) = <<>> /\ <<m>> # <<>>
      /\ Head(<<Msg("300"), Ch>>) = Msg("300") /\ Tail(<<Msg("300"), Ch>>) = <<Ch>>
      /\ <<Msg("300"), Ch>> # <<>>
  BY ShortSequences, KindsDiffer, SMT
<1>1. CASE SendHelo
  <2>1. cpc = "helo" /\ cpc' = "continue" /\ spc = "helo" /\ toServer' = <<Msg("HELO")>> /\ toClient' = <<>>
    BY <1>1, <1>s DEF SendHelo, ControlInv
  <2>. QED BY <1>0, <2>1, <1>s, SMT DEF ToServerInv, ControlInv, VerdictInv, ClientPC, ServerPC
<1>2. CASE ReadContinue
  <2>1. /\ cpc = "continue" /\ toServer' = <<>> /\ cpc' = "challenge" /\ toServer = <<>>
        /\ \/ spc = "challenge" /\ toClient' = <<>>
           \/ spc = "auth" /\ toClient' = <<Ch>>
    <3>1. /\ cpc = "continue" /\ toServer = <<>> /\ toServer' = <<>>
          /\ \/ spc = "challenge" /\ toClient = <<Msg("300")>>
             \/ spc = "auth" /\ toClient = <<Msg("300"), Ch>>
      <4>. HIDE DEF Ch
      <4>. QED BY <1>2 DEF ReadContinue, ControlInv, Ch
    <3>2. Head(toClient).kind = "300" BY <3>1, <1>s, KindsDiffer
    <3>. QED BY <1>2, <3>1, <3>2, <1>s DEF ReadContinue
  <2>. HIDE DEF Reply, Ch
  <2>. QED BY <1>0, <2>1, <1>s, SMT DEF ToServerInv, ControlInv, VerdictInv, ClientPC, ServerPC, Ch, Reply
<1>3. CASE AnswerChallenge
  <2>1. toClient = <<Ch>> /\ spc = "auth" /\ toServer = <<>>
    BY <1>3, SMT DEF AnswerChallenge, ControlInv
  <2>2. Head(toClient).value = challenge BY <2>1, <1>s, KindsDiffer
  <2>3. toServer' = <<Reply>> /\ toClient' = <<>> /\ cpc' = "verdict"
    BY <1>3, <2>1, <2>2, <1>s DEF AnswerChallenge, ReplyTo
  <2>. QED BY <1>0, <2>1, <2>3, <1>s, SMT DEF ToServerInv, ControlInv, VerdictInv, ClientPC, ServerPC
<1>4. CASE ReadVerdict
  <2>1. /\ toServer = <<>> /\ toServer' = <<>> /\ toClient' = <<>>
        /\ \/ spc = "accepted" /\ cpc' = "authenticated"
           \/ spc = "rejected" /\ cpc' = "failed"
    <3>1. /\ toServer = <<>> /\ toServer' = <<>>
          /\ \/ spc = "accepted" /\ toClient = <<Msg("200")>>
             \/ spc = "rejected" /\ toClient = <<Msg("400")>>
      BY <1>4 DEF ReadVerdict, ControlInv
    <3>2. Head(<<Msg("200")>>).kind = "200" /\ Head(<<Msg("400")>>).kind = "400"
      BY <1>s, KindsDiffer
    <3>. QED BY <1>4, <3>1, <3>2, <1>s DEF ReadVerdict
  <2>2. cpc = "verdict" BY <1>4 DEF ReadVerdict
  <2>3. ToServerInv' BY <1>0, <2>1, <1>s DEF ToServerInv
  <2>4. ControlInv' BY <1>0, <2>1 DEF ControlInv
  <2>5. VerdictInv' BY <1>0, <2>1, <2>2 DEF VerdictInv, tokens, ZeroAnswer, ^^
  <2>. QED BY <1>0, <2>1, <2>3, <2>4, <2>5 DEF ClientPC, ServerPC
<1>5. CASE Die
  <2>1. cpc' = "gone" /\ toServer' = toServer BY <1>5 DEF Die
  <2>2. ToServerInv' BY <1>0, <2>1 DEF ToServerInv
  <2>3. ControlInv' BY <2>1 DEF ControlInv
  <2>4. VerdictInv' BY <1>0, <2>1 DEF VerdictInv, tokens
  <2>. QED BY <1>0, <2>1, <2>2, <2>3, <2>4 DEF ClientPC, ServerPC
<1>. QED BY <1>1, <1>2, <1>3, <1>4, <1>5 DEF Client

\* Where the server stands when it is about to read or write, with the client alive.
LEMMA ServerStands ==
  ASSUME ControlInv, cpc \in ClientPC, cpc # "gone"
  PROVE  /\ spc = "helo" => cpc \in {"helo", "continue"}
         /\ spc = "continue" => cpc = "continue" /\ toClient = <<>> /\ toServer = <<>>
         /\ spc = "challenge" => /\ toServer = <<>>
                                 /\ \/ cpc = "continue" /\ toClient = <<Msg("300")>>
                                    \/ cpc = "challenge" /\ toClient = <<>>
         /\ spc = "auth" /\ toServer # <<>> => cpc = "verdict" /\ toClient = <<>>
         /\ spc \in {"ok", "abort"} => cpc = "verdict" /\ toClient = <<>> /\ toServer = <<>>
BY DEF ControlInv, ClientPC

\* The server's steps.
LEMMA ServerKeeps ==
  ASSUME HandshakeInv, Server
  PROVE  HandshakeInv'
<1>. USE DEF HandshakeInv
<1>0. cpc' = cpc /\ UNCHANGED tokens
  BY DEF Server, ReadHelo, SendContinue, SendChallenge, ReadAuth, SendVerdict
<1>1. CASE ReadHelo
  <2>1. UNCHANGED <<tokens, challenge, toClient, cpc>> /\ spc = "helo" BY <1>1 DEF ReadHelo
  <2>2. TokensInv' BY <2>1 DEF TokensInv, tokens
  <2>3. CASE toServer # <<>>
    <3>1. toServer = <<Msg("HELO")>> BY <2>1, <2>3 DEF ToServerInv
    <3>2. Head(toServer).kind = "HELO" /\ Tail(toServer) = <<>>
      BY <3>1, ShortSequences, KindsDiffer
    <3>3. toServer' = <<>> /\ spc' = "continue" BY <1>1, <2>3, <3>2 DEF ReadHelo
    <3>4. ToServerInv' BY <3>3, SMT DEF ToServerInv
    <3>5. ControlInv' BY <2>1, <3>1, <3>3 DEF ControlInv
    <3>6. VerdictInv' BY <3>3 DEF VerdictInv
    <3>. QED BY <2>1, <2>2, <3>3, <3>4, <3>5, <3>6 DEF ServerPC
  <2>4. CASE toServer = <<>>
    <3>1. toServer' = <<>> /\ spc' = "abort" /\ cpc = "gone" BY <1>1, <2>4 DEF ReadHelo
    <3>2. ToServerInv' BY <3>1, SMT DEF ToServerInv
    <3>3. ControlInv' BY <2>1, <3>1 DEF ControlInv
    <3>4. VerdictInv' BY <2>1, <3>1 DEF VerdictInv
    <3>. QED BY <2>1, <2>2, <3>1, <3>2, <3>3, <3>4 DEF ServerPC
  <2>. QED BY <2>3, <2>4
<1>2. CASE SendContinue
  <2>1. UNCHANGED <<tokens, challenge, toServer, cpc>> /\ spc = "continue" BY <1>2 DEF SendContinue
  <2>2. TokensInv' BY <2>1 DEF TokensInv, tokens
  <2>3. spc' \in {"challenge", "killed"} BY <1>2 DEF SendContinue, ServerWrite
  <2>4. toServer = <<>> BY <2>1 DEF ToServerInv
  <2>5. ToServerInv' BY <2>1, <2>4, SMT DEF ToServerInv
  <2>6. ControlInv'
    <3>1. CASE cpc = "gone" BY <2>1, <3>1 DEF ControlInv
    <3>2. CASE cpc # "gone"
      <4>1. spc' = "challenge" /\ toClient' = Append(toClient, Msg("300"))
        BY <1>2, <3>2 DEF SendContinue, ServerWrite
      <4>2. cpc = "continue" /\ toClient = <<>> BY <2>1, <3>2, ServerStands
      <4>3. toClient' = <<Msg("300")>> BY <4>1, <4>2, ShortSequences
      <4>. QED BY <2>1, <2>4, <4>1, <4>2, <4>3 DEF ControlInv
    <3>. QED BY <3>1, <3>2
  <2>7. VerdictInv' BY <2>3 DEF VerdictInv
  <2>. QED BY <2>1, <2>2, <2>3, <2>5, <2>6, <2>7 DEF ServerPC
<1>3. CASE SendChallenge
  <2>1. UNCHANGED <<tokens, toServer, cpc>> /\ spc = "challenge" BY <1>3 DEF SendChallenge
  <2>2. PICK random \in Randoms :
          challenge' = T_s ^^ random /\ ServerWrite(Challenge(T_s ^^ random), "auth")
    BY <1>3 DEF SendChallenge
  <2>3. challenge' \in Token BY <2>2, XorToken, HandshakeAssumption DEF TokensInv
  <2>4. TokensInv' BY <2>1, <2>3 DEF TokensInv, tokens
  <2>5. spc' \in {"auth", "killed"} BY <2>2 DEF ServerWrite
  <2>6. toServer = <<>> BY <2>1 DEF ToServerInv
  <2>7. ToServerInv' BY <2>1, <2>6, SMT DEF ToServerInv
  <2>8. ControlInv'
    <3>1. CASE cpc = "gone" BY <2>1, <3>1 DEF ControlInv
    <3>2. CASE cpc # "gone"
      <4>1. spc' = "auth" /\ toClient' = Append(toClient, Challenge(challenge'))
        BY <2>2, <3>2 DEF ServerWrite
      <4>2. \/ cpc = "continue" /\ toClient = <<Msg("300")>>
            \/ cpc = "challenge" /\ toClient = <<>>
        BY <2>1, <3>2, ServerStands
      <4>3. \/ cpc = "continue" /\ toClient' = <<Msg("300"), Challenge(challenge')>>
            \/ cpc = "challenge" /\ toClient' = <<Challenge(challenge')>>
        <5>. DEFINE c == Challenge(challenge')
                    S == {Msg("300"), c}
        <5>1. Msg("300") \in S /\ c \in S OBVIOUS
        <5>. HIDE DEF c, S
        <5>2. Append(<<>>, c) = <<c>> /\ Append(<<Msg("300")>>, c) = <<Msg("300"), c>>
          BY <5>1, ShortSequences
        <5>. QED BY <4>1, <4>2, <5>2 DEF c
      <4>. QED BY <2>1, <2>6, <4>1, <4>3 DEF ControlInv, Challenge
    <3>. QED BY <3>1, <3>2
  <2>9. VerdictInv' BY <2>5 DEF VerdictInv
  <2>. QED BY <2>1, <2>4, <2>5, <2>7, <2>8, <2>9 DEF ServerPC
<1>4. CASE ReadAuth
  <2>1. UNCHANGED <<tokens, challenge, toClient, cpc>> /\ spc = "auth" BY <1>4 DEF ReadAuth
  <2>2. TokensInv' BY <2>1 DEF TokensInv, tokens
  <2>3. toServer' = <<>> /\ spc' \in {"ok", "abort"} /\ (spc' = "ok" => toServer # <<>>)
    <3>1. toServer \in {<<>>, <<ReplyTo(challenge)>>} BY <2>1 DEF ToServerInv
    <3>2. Tail(<<ReplyTo(challenge)>>) = <<>> BY ShortSequences
    <3>. QED BY <1>4, <3>1, <3>2 DEF ReadAuth
  <2>4. ToServerInv' BY <2>3, SMT DEF ToServerInv
  <2>5. ControlInv'
    <3>1. CASE cpc = "gone" BY <2>1, <3>1 DEF ControlInv
    <3>2. CASE cpc # "gone"
      <4>1. toServer # <<>> BY <1>4, <3>2 DEF ReadAuth
      <4>2. cpc = "verdict" /\ toClient = <<>> BY <2>1, <3>2, <4>1, ServerStands
      <4>. QED BY <2>1, <2>3, <4>2 DEF ControlInv
    <3>. QED BY <3>1, <3>2
  <2>6. VerdictInv'
    <3>1. CASE toServer = <<>>
      <4>1. spc' = "abort" /\ cpc = "gone" BY <1>4, <3>1 DEF ReadAuth
      <4>. QED BY <2>1, <4>1 DEF VerdictInv
    <3>2. CASE toServer # <<>>
      <4>1. toServer = <<ReplyTo(challenge)>> BY <2>1, <3>2 DEF ToServerInv
      <4>2. Head(toServer) = ReplyTo(challenge) /\ ReplyTo(challenge).kind = "AUTH"
        BY <4>1, ShortSequences, KindsDiffer
      <4>3. spc' = IF Verifies(ReplyTo(challenge)) THEN "ok" ELSE "abort"
        BY <1>4, <3>2, <4>2 DEF ReadAuth
      <4>4. Correct(ReplyTo(challenge).enc1, ReplyTo(challenge).enc2) <=> T_s_client = T_s
        BY HonestReply
      <4>5. /\ spc' = "ok" => T_s_client = T_s
            /\ spc' = "abort" => T_s_client # T_s \/ ZeroAnswer
        BY <4>3, <4>4, ZeroReply, HandshakeAssumption DEF Verifies, Readable, ZeroAnswer
      <4>6. ZeroAnswer' <=> ZeroAnswer BY <2>1 DEF ZeroAnswer, tokens, ^^
      <4>. QED BY <2>1, <2>3, <4>5, <4>6 DEF VerdictInv, tokens
    <3>. QED BY <3>1, <3>2
  <2>. QED BY <2>1, <2>2, <2>3, <2>4, <2>5, <2>6 DEF ServerPC
<1>5. CASE SendVerdict
  <2>1. UNCHANGED <<tokens, challenge, toServer, cpc>> /\ spc \in {"ok", "abort"} BY <1>5 DEF SendVerdict
  <2>2. TokensInv' BY <2>1 DEF TokensInv, tokens
  <2>3. /\ spc' \in {"accepted", "rejected", "killed"}
        /\ spc' = "accepted" => spc = "ok"
        /\ spc' = "rejected" => spc = "abort"
    BY <1>5 DEF SendVerdict, ServerWrite
  <2>4. toServer = <<>> BY <2>1 DEF ToServerInv
  <2>5. ToServerInv' BY <2>1, <2>4, SMT DEF ToServerInv
  <2>6. ControlInv'
    <3>1. CASE cpc = "gone" BY <2>1, <3>1 DEF ControlInv
    <3>2. CASE cpc # "gone"
      <4>1. cpc = "verdict" /\ toClient = <<>> BY <2>1, <3>2, ServerStands
      <4>2. \/ spc' = "accepted" /\ toClient' = Append(<<>>, Msg("200"))
            \/ spc' = "rejected" /\ toClient' = Append(<<>>, Msg("400"))
        BY <1>5, <3>2, <4>1 DEF SendVerdict, ServerWrite
      <4>3. \/ spc' = "accepted" /\ toClient' = <<Msg("200")>>
            \/ spc' = "rejected" /\ toClient' = <<Msg("400")>>
        BY <4>2, ShortSequences
      <4>. QED BY <2>1, <2>4, <4>1, <4>3 DEF ControlInv
    <3>. QED BY <3>1, <3>2
  <2>7. VerdictInv' BY <2>1, <2>3 DEF VerdictInv, tokens, ZeroAnswer, ^^
  <2>. QED BY <2>1, <2>2, <2>3, <2>5, <2>6, <2>7 DEF ServerPC
<1>. QED BY <1>1, <1>2, <1>3, <1>4, <1>5 DEF Server

\* The invariant is inductive: authentication() keeps the two ends in step.
THEOREM HandshakeInvariant == Spec => []HandshakeInv
<1>1. HandshakeInv /\ [Next]_vars => HandshakeInv'
  <2>. SUFFICES ASSUME HandshakeInv, [Next]_vars PROVE HandshakeInv'
    OBVIOUS
  <2>1. CASE Next BY <2>1, ClientKeeps, ServerKeeps DEF Next
  <2>2. CASE UNCHANGED vars
    <3>1. UNCHANGED <<T_s, T_s_client, T_c_i, challenge, toServer, toClient, spc, cpc>>
      BY <2>2 DEF vars, tokens
    <3>2. ReplyTo(challenge)' = ReplyTo(challenge) BY <3>1 DEF ReplyTo, Auth, ^^
    <3>3. TokensInv' /\ VerdictInv' BY <3>1 DEF HandshakeInv, TokensInv, VerdictInv, ZeroAnswer, ^^
    <3>4. ToServerInv' BY <3>1, <3>2 DEF HandshakeInv, ToServerInv
    <3>5. ControlInv' BY <3>1, <3>2 DEF HandshakeInv, ControlInv, Challenge
    <3>. QED BY <3>1, <3>3, <3>4, <3>5 DEF HandshakeInv
  <2>. QED BY <2>1, <2>2
<1>. QED BY <1>1, HandshakeInit, PTL DEF Spec

\* The server lets in nobody but the holder of its passphrase, for tokens of every
\* width, on Linux and on Windows.
THEOREM OnlyRightPassphrase == Spec => []AcceptsOnlyRightPassphrase
<1>1. HandshakeInv => AcceptsOnlyRightPassphrase
  BY DEF HandshakeInv, VerdictInv, AcceptsOnlyRightPassphrase
<1>. QED BY <1>1, HandshakeInvariant, PTL

\* The server turns away no client that holds its passphrase, but for an answer that
\* happens to be 0 on Linux: for tokens of every width, on Linux and on Windows.
THEOREM RightPassphraseAccepted == Spec => []RejectsOnlyWrongPassphrase
<1>1. HandshakeInv => RejectsOnlyWrongPassphrase
  BY DEF HandshakeInv, VerdictInv, ZeroAnswer, RejectsOnlyWrongPassphrase
<1>. QED BY <1>1, HandshakeInvariant, PTL

\* The two ends never disagree about the outcome.
THEOREM OutcomesAgree == Spec => []ClientAgrees
<1>1. HandshakeInv => ClientAgrees
  BY DEF HandshakeInv, ControlInv, ClientAgrees
<1>. QED BY <1>1, HandshakeInvariant, PTL
-----------------------------------------------------------------------------
\* What the two ends write is a message.
LEMMA WrittenIsMessage ==
  /\ \A k \in {"HELO", "300", "200", "400"} : Msg(k) \in Message
  /\ \A v \in Token : Challenge(v) \in Message
  /\ \A e1 \in Token, e2 \in Token : Auth(e1, e2) \in Message
BY SMT DEF Msg, Challenge, Auth, Message

\* A write by the server leaves a sequence of messages.
LEMMA ServerWriteTyped ==
  ASSUME toClient \in Seq(Message), reset \in BOOLEAN, NEW m \in Message, NEW next,
         ServerWrite(m, next)
  PROVE  toClient' \in Seq(Message) /\ reset' \in BOOLEAN
<1>1. Append(toClient, m) \in Seq(Message) BY AppendProperties
<1>. QED BY <1>1 DEF ServerWrite

\* What is on its way to the client are messages, also when the client is gone and
\* HandshakeInv says nothing of them.
LEMMA ToClientTyped ==
  ASSUME HandshakeInv, toClient \in Seq(Message), reset \in BOOLEAN, [Next]_vars
  PROVE  toClient' \in Seq(Message) /\ reset' \in BOOLEAN
<1>1. CASE SendContinue BY <1>1, ServerWriteTyped, WrittenIsMessage DEF SendContinue
<1>2. CASE SendChallenge
  <2>1. PICK random \in Randoms : ServerWrite(Challenge(T_s ^^ random), "auth")
    BY <1>2 DEF SendChallenge
  <2>2. T_s ^^ random \in Token BY XorToken, HandshakeAssumption DEF HandshakeInv, TokensInv
  <2>3. Challenge(T_s ^^ random) \in Message BY <2>2, WrittenIsMessage
  <2>. QED BY <2>1, <2>3, ServerWriteTyped
<1>3. CASE SendVerdict BY <1>3, ServerWriteTyped, WrittenIsMessage DEF SendVerdict
<1>4. CASE ReadContinue \/ AnswerChallenge \/ ReadVerdict
  <2>1. toClient # <<>> /\ toClient' = Tail(toClient) /\ reset' = reset
    BY <1>4 DEF ReadContinue, AnswerChallenge, ReadVerdict
  <2>2. Tail(toClient) \in Seq(Message) BY <2>1, HeadTailProperties
  <2>. QED BY <2>1, <2>2
<1>5. CASE ReadHelo \/ ReadAuth \/ SendHelo \/ Die \/ UNCHANGED vars
  BY <1>5 DEF ReadHelo, ReadAuth, SendHelo, Die, vars
<1>. QED BY <1>1, <1>2, <1>3, <1>4, <1>5 DEF Next, Server, Client

\* The type invariant, for tokens of every width: authentication() exchanges only the
\* messages of its grammar, in both directions and whenever the client dies.
THEOREM TypeCorrect == Spec => []TypeOK
<1>. DEFINE Typed == toClient \in Seq(Message) /\ reset \in BOOLEAN
<1>1. Init => Typed
  <2>1. <<>> \in Seq(Message) BY SMT
  <2>. QED BY <2>1 DEF Init
<1>2. HandshakeInv /\ Typed /\ [Next]_vars => Typed' BY ToClientTyped
<1>3. HandshakeInv /\ Typed => TypeOK
  <2>. SUFFICES ASSUME HandshakeInv, Typed PROVE TypeOK
    OBVIOUS
  <2>1. tokens \in Token \X Token \X Token /\ challenge \in Token
    BY DEF HandshakeInv, TokensInv, tokens
  <2>2. ReplyTo(challenge) \in Message /\ Msg("HELO") \in Message
    BY XorToken, WrittenIsMessage DEF HandshakeInv, TokensInv, ReplyTo
  <2>3. toServer \in Seq(Message)
    <3>1. \A m \in Message : <<m>> \in Seq(Message) BY SMT
    <3>2. <<>> \in Seq(Message) BY SMT
    <3>. QED BY <2>2, <3>1, <3>2 DEF HandshakeInv, ToServerInv
  <2>. QED BY <2>1, <2>3 DEF HandshakeInv, TypeOK
<1>. HIDE DEF Typed
<1>. QED BY <1>1, <1>2, <1>3, HandshakeInvariant, PTL DEF Spec
=============================================================================
