------------------------------ MODULE MCOutput ------------------------------
(* Outputs of no line to more than two buffers, with each kind of line.     *)
EXTENDS Output

AllPlatforms == OS \X OS
Both == {"LSF", "EXEC"}
Listings == {<<>>, <<1>>, <<1, 1>>, <<2, 1, 1>>}
Commands == {<<>>, <<1>>, <<3>>, <<2, 1>>, <<1, 2, 2>>, <<4, 4>>, <<Nul, 1>>, <<1, Nul>>,
             <<Inner, 1>>, <<1, Inner, 2, 2>>}
SomeOutputs == [r \in Both |-> IF r = "LSF" THEN Listings ELSE Commands]
=============================================================================
