------------------------------ MODULE MCScore -------------------------------
(***************************************************************************)
(* Up to two runs with three results between them, over two suites.  The   *)
(* bar is one that a tally of two out of three misses by a little.         *)
(***************************************************************************)
EXTENDS Score

CONSTANTS s1, s2

MCSuites == {s1, s2}

=============================================================================
