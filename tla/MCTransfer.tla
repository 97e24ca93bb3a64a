----------------------------- MODULE MCTransfer -----------------------------
(* Files from nothing to more than two buffers, and missing ones; every pair of    *)
(* platforms.                                                                       *)
EXTENDS Transfer

Both == {"DOWNLOAD", "UPLOAD"}
Downloads == {"DOWNLOAD"}
Files == [r \in Both |-> (0 .. 5) \cup {Missing}]
DownloadFiles == [r \in Downloads |-> 0 .. 5]
AllPlatforms == OS \X OS
LinuxOnly == {<<"linux", "linux">>}
AllMishaps == Kinds \X Both
Merges == {<<"merge", "DOWNLOAD">>}
=============================================================================
