------------------------------- MODULE MCPgStore -------------------------------
(* PgStore on small instances for TLC.                                          *)
EXTENDS PgProperties, TLC

CONSTANTS a, b, f, g, n1, n2, t1, t2

MCNodeOf == (t1 :> n1) @@ (t2 :> n2)

MCContents == {<<>>, <<a>>, <<a, a>>, <<a, b>>}
===============================================================================
