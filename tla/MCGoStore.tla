------------------------------- MODULE MCGoStore -------------------------------
(* GoStore on small instances for TLC.                                          *)
EXTENDS GoProperties

CONSTANTS b1, b2, f1, f2, g1, g2

\* With HalfInt = 2: a length that fits in C.int and one that is 0 there; that of
\* the first reader is negative. With ChunkSize = 2 they are less than a chunk, two
\* chunks, and a chunk and a half.
SomeContents == {<<b1>>, <<b1, b2, b1, b2>>}
SomeReaders  == {[blocks |-> <<b1, b2, b1>>, end |-> "eof_with_data"],
                 [blocks |-> <<b1>>, end |-> "error"], [blocks |-> <<Pause, b1>>, end |-> "eof"]}

\* Goroutines are interchangeable.
Symmetric == Permutations(Goroutines)
===============================================================================
