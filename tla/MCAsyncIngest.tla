------------------------------ MODULE MCAsyncIngest ------------------------------
(* AsyncIngest on small instances for TLC.                                      *)
EXTENDS AsyncProperties, TLC

CONSTANTS c1, c2, s1, s2

TwoStores == (c1 :> s1) @@ (c2 :> s2)
OneStore  == (c1 :> s1) @@ (c2 :> s1)

\* Streams that are empty, that have an empty block, and of more blocks than the
\* queue holds, which do not line up with reads and chunks.
MCSources == {<<>>, <<0, 1>>, <<2, 4, 6, 8, 10>>}
===============================================================================
