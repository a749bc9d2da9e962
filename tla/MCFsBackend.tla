------------------------------ MODULE MCFsBackend ------------------------------
(* The filesystem backends on small instances for TLC.                          *)
EXTENDS FsProperties, TLC

CONSTANTS p1, p2, t1, t2, v, w

OneProcess   == (t1 :> p1) @@ (t2 :> p1)
\* Nothing tells the threads of one process apart, nor the values.
Alike == Permutations({t1, t2}) \cup Permutations({v, w})

TwoProcesses == (t1 :> p1) @@ (t2 :> p2)
===============================================================================
