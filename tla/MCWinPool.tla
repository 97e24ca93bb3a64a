------------------------------ MODULE MCWinPool ------------------------------
(* Two threads that serve two connections each, and one client more than that. *)
EXTENDS WinPool, TLC

CONSTANTS c1, c2, c3, c4, c5

MCConns == {c1, c2, c3, c4, c5}
Symmetry == Permutations(MCConns)
Prompt == {}
AnyTime == {"start", "tail"}
AtTail == {"tail"}
=============================================================================
