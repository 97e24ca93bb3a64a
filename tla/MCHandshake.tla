----------------------------- MODULE MCHandshake -----------------------------
(* The handshake on two-bit tokens: every pair of passphrases, every token of  *)
(* the client and every random value.  A Linux token is at least 1.            *)
EXTENDS Handshake

MCBits == {1, 2}
MCRandoms == Token
LinuxTokens == Token \ {Zero}
=============================================================================
