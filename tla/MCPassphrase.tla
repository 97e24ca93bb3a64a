----------------------------- MODULE MCPassphrase -----------------------------
(* Lines of at most two runs of equal characters; the extremes of the printable *)
(* range and one between.                                                     *)
EXTENDS Passphrase

Run(c, n) == [i \in 1 .. n |-> c]
TwoRuns(chars, n) == {Run(c, i) \o Run(d, n - i) : c, d \in chars, i \in 0 .. n}
Shown == {33, 97, 126}

\* No token of 27 printable characters reaches 2^32.
ShortWords == UNION {TwoRuns(Shown, n) : n \in {1, 8, 27}}
\* A long passphrase.
LongWords == {Run(c, 60) : c \in Shown}
=============================================================================
