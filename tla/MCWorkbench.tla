---------------------------- MODULE MCWorkbench ----------------------------
(* Workbench on a small instance: two tables, a buffer with each of their  *)
(* reads, and one with both.                                               *)
EXTENDS Workbench

CONSTANTS q1, q2

MCQueries == {q1, q2}
MCScripts == {<<q1>>, <<q2>>, <<q1, q2>>}
=============================================================================
