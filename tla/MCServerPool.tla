---------------------------- MODULE MCServerPool ----------------------------
(***************************************************************************)
(* Small instances of ServerPool for TLC: at most two worker slots and two *)
(* ports, a configuration file that may change either, both or nothing.    *)
(***************************************************************************)
EXTENDS ServerPool, TLC

CONSTANTS c1, c2, c3

MCConns == {c1, c2, c3}
Symmetry == Permutations(MCConns)

\* A configuration file names a value in range, a value out of range or nothing (0).
MCConfigFiles == [port : 0 .. MAX_PORT_NUMBER, threads : 0 .. MAX_THREADS_NUM + 1]

Nowhere    == {}
Everywhere == MainPC
SafeResize == MainPC \ ResizeUnsafe
SafeRebind == MainPC \ RebindUnsafe
=============================================================================
