------------------------------ MODULE Handshake ------------------------------
(***************************************************************************)
(* The authentication of a client: authentication() of the server and of   *)
(* the client, in their Linux and Windows versions, over one TCP           *)
(* connection.  Tokens are words of |Bits| bits, so that ^ is exact.       *)
(*                                                                         *)
(* A message is delivered whole: what one Write sends, one Read returns    *)
(* (consecutive messages may be coalesced, the reader then takes its       *)
(* length).  The Linux client may die at any moment; a thread of the       *)
(* Windows server that loses its client ends inside Recv or Send           *)
(* (ConversationFails of WinPool), so MayDie is FALSE for that server.     *)
(***************************************************************************)
EXTENDS Integers, Sequences

CONSTANTS
  Bits,        \* the positions of a token's bits
  Generated,   \* what generateToken() may return
  Randoms,     \* what rand_r() / rand() may return
  RejectsZero, \* TRUE: the server refuses an enc1 or enc2 equal to 0 (Linux)
  MayDie       \* TRUE: the client may be killed

Token == [Bits -> {0, 1}]
Zero  == [i \in Bits |-> 0]
a ^^ b == [i \in Bits |-> IF a[i] = b[i] THEN 0 ELSE 1]

\* The tokens the run-time library may produce are tokens.
ASSUME HandshakeAssumption ==
  Generated \subseteq Token /\ Randoms \subseteq Token /\ RejectsZero \in BOOLEAN /\ MayDie \in BOOLEAN

VARIABLES
  T_s,                 \* the server's token
  T_s_client, T_c_i,   \* the client's: from the passphrase of the server, and its own
  challenge,           \* the server's; in the code T_s ^ random
  toServer, toClient,  \* the two directions of the connection
  spc, cpc,
  reset                \* the server wrote to a client that was gone

tokens == <<T_s, T_s_client, T_c_i>>
vars == <<tokens, challenge, toServer, toClient, spc, cpc, reset>>

ServerPC == {"helo", "continue", "challenge", "auth", "ok", "abort", "accepted", "rejected", "killed"}
ClientPC == {"helo", "continue", "challenge", "verdict", "authenticated", "failed", "gone"}

Msg(k)     == [kind |-> k]
Challenge(v) == [kind |-> "challenge", value |-> v]
\* Fault in Auth: the second token is never written.
AuthWithoutSecond(e1, e2) == [kind |-> "AUTH", enc1 |-> e1]
Auth(e1, e2) == [kind |-> "AUTH", enc1 |-> e1, enc2 |-> e2]
Message == [kind : {"HELO", "300", "200", "400"}] \cup [kind : {"challenge"}, value : Token]
           \cup [kind : {"AUTH"}, enc1 : Token, enc2 : Token]

Init ==
  /\ T_s \in Generated /\ T_s_client \in Generated /\ T_c_i \in Generated
  /\ challenge = Zero
  /\ toServer = <<>> /\ toClient = <<>>
  /\ spc = "helo" /\ cpc = "helo" /\ reset = FALSE

-----------------------------------------------------------------------------
(* What the server computes from AUTH.                                      *)

\* strtoul() == 0 is taken for a parse error on Linux.
Readable(e) == RejectsZero => e # Zero
\* Fault in Correct: enc2 is left out.
CorrectWithoutSecond(e1, e2) == (T_s ^^ challenge) ^^ e1 = challenge
Correct(e1, e2) == ((T_s ^^ challenge) ^^ e1) ^^ e2 = challenge
\* Fault in Verifies: enc1 and enc2 are only parsed.
VerifiesNothing(m) == Readable(m.enc1) /\ Readable(m.enc2)
Verifies(m) == Readable(m.enc1) /\ Readable(m.enc2) /\ Correct(m.enc1, m.enc2)

-----------------------------------------------------------------------------
(* The server.                                                              *)

\* Write: into the connection, or to a client that is gone.  The first such
\* write is lost, a later one raises SIGPIPE once the reset is back, and nothing
\* handles it.
ServerWrite(m, next) ==
  \/ /\ cpc # "gone"
     /\ toClient' = Append(toClient, m) /\ spc' = next
     /\ UNCHANGED reset
  \/ /\ cpc = "gone"
     /\ spc' = next \/ (reset /\ spc' = "killed")
     /\ reset' = TRUE
     /\ UNCHANGED toClient

-----------------------------------------------------------------------------
(* Faults: mistaken variants of the definitions they name.  No behaviour of *)
(* the specification uses them.                                             *)

\* SendVerdict: OK in both cases.
SendAlwaysOk ==
  /\ \/ spc = "ok" /\ ServerWrite(Msg("200"), "accepted")
     \/ spc = "abort" /\ ServerWrite(Msg("200"), "rejected")
  /\ UNCHANGED <<tokens, challenge, toServer, cpc>>
\* SendContinue: the server goes on to read AUTH.
SendContinueOnly ==
  /\ spc = "continue"
  /\ ServerWrite(Msg("300"), "auth")
  /\ UNCHANGED <<tokens, challenge, toServer, cpc>>

-----------------------------------------------------------------------------
\* Read: the next message, or 0 when the client is gone and sent no more.
ReadHelo ==
  /\ spc = "helo"
  /\ \/ /\ toServer # <<>>
        /\ spc' = IF Head(toServer).kind = "HELO" THEN "continue" ELSE "abort"
        /\ toServer' = Tail(toServer)
     \/ /\ toServer = <<>> /\ cpc = "gone"
        /\ spc' = "abort" /\ UNCHANGED toServer
  /\ UNCHANGED <<tokens, challenge, toClient, cpc, reset>>

SendContinue ==
  /\ spc = "continue"
  /\ ServerWrite(Msg("300"), "challenge")
  /\ UNCHANGED <<tokens, challenge, toServer, cpc>>

SendChallenge ==
  /\ spc = "challenge"
  /\ \E random \in Randoms :
       /\ challenge' = T_s ^^ random
       /\ ServerWrite(Challenge(T_s ^^ random), "auth")
  /\ UNCHANGED <<tokens, toServer, cpc>>

ReadAuth ==
  /\ spc = "auth"
  /\ \/ /\ toServer # <<>>
        /\ spc' = IF Head(toServer).kind = "AUTH" /\ Verifies(Head(toServer)) THEN "ok" ELSE "abort"
        /\ toServer' = Tail(toServer)
     \/ /\ toServer = <<>> /\ cpc = "gone"
        /\ spc' = "abort" /\ UNCHANGED toServer
  /\ UNCHANGED <<tokens, challenge, toClient, cpc, reset>>

\* protocol(): OK and on to the command, or ABORT and close.
SendVerdict ==
  /\ \/ spc = "ok" /\ ServerWrite(Msg("200"), "accepted")
     \/ spc = "abort" /\ ServerWrite(Msg("400"), "rejected")
  /\ UNCHANGED <<tokens, challenge, toServer, cpc>>

Server == ReadHelo \/ SendContinue \/ SendChallenge \/ ReadAuth \/ SendVerdict

-----------------------------------------------------------------------------
(* The client.                                                              *)

SendHelo ==
  /\ cpc = "helo" /\ cpc' = "continue"
  /\ toServer' = Append(toServer, Msg("HELO"))
  /\ UNCHANGED <<tokens, challenge, toClient, spc, reset>>

ReadContinue ==
  /\ cpc = "continue" /\ toClient # <<>>
  /\ cpc' = IF Head(toClient).kind = "300" THEN "challenge" ELSE "failed"
  /\ toClient' = Tail(toClient)
  /\ UNCHANGED <<tokens, challenge, toServer, spc, reset>>

\* challenge' = T_s ^ received; enc1 = T_s ^ challenge' ^ T_c_i; enc2 = T_c_i ^ challenge'
AnswerChallenge ==
  /\ cpc = "challenge" /\ toClient # <<>>
  /\ LET ch == T_s_client ^^ Head(toClient).value
     IN  toServer' = Append(toServer, Auth((T_s_client ^^ ch) ^^ T_c_i, T_c_i ^^ ch))
  /\ toClient' = Tail(toClient)
  /\ cpc' = "verdict"
  /\ UNCHANGED <<tokens, challenge, spc, reset>>

ReadVerdict ==
  /\ cpc = "verdict" /\ toClient # <<>>
  /\ cpc' = IF Head(toClient).kind = "200" THEN "authenticated" ELSE "failed"
  /\ toClient' = Tail(toClient)
  /\ UNCHANGED <<tokens, challenge, toServer, spc, reset>>

Client == SendHelo \/ ReadContinue \/ AnswerChallenge \/ ReadVerdict

Die ==
  /\ MayDie /\ cpc \notin {"gone", "failed"} /\ cpc' = "gone"
  /\ UNCHANGED <<tokens, challenge, toServer, toClient, spc, reset>>

Next == Server \/ Client \/ Die
Spec == Init /\ [][Next]_vars
FairSpec == Spec /\ WF_vars(Server) /\ WF_vars(Client)

-----------------------------------------------------------------------------
(* Properties.                                                              *)

\* The type invariant.
TypeOK ==
  /\ tokens \in Token \X Token \X Token /\ challenge \in Token
  /\ toServer \in Seq(Message) /\ toClient \in Seq(Message)
  /\ spc \in ServerPC /\ cpc \in ClientPC /\ reset \in BOOLEAN

\* authentication() of the server returns 0 only for a client that was given the
\* server's own passphrase, whatever the client's own token, the random value,
\* and the moment the client dies.
AcceptsOnlyRightPassphrase == spc \in {"ok", "accepted"} => T_s_client = T_s

\* It returns -1 only for a client that was given another passphrase, or that died,
\* but for one case: on Linux an honest enc1 or enc2 that happens to be 0 is taken
\* for a parse error.  The first is 0 when the challenge is the client's own token,
\* the second when it differs from it by the passphrase's token.
RejectsOnlyWrongPassphrase ==
  spc \in {"abort", "rejected"} /\ cpc # "gone" =>
    \/ T_s_client # T_s
    \/ RejectsZero /\ challenge \in {T_c_i, T_s_client ^^ T_c_i}

\* The two ends leave authentication() with the same result: the client goes on
\* to send its command only when the server goes on to read it.
ClientAgrees ==
  /\ cpc = "authenticated" => spc = "accepted"
  /\ cpc = "failed" => spc = "rejected"

\* Neither end waits in authentication() for ever, also when the client dies: no
\* order of the reads and writes leaves both waiting for each other.
HandshakeEnds ==
  <>(spc \in {"accepted", "rejected", "killed"} /\ cpc \in {"authenticated", "failed", "gone"})
=============================================================================
