--------------------------- MODULE MCContentCache ---------------------------
(* ContentCache with two processes and two files, for TLC. *)
EXTENDS ContentCache

CONSTANTS p1, p2, f1, f2

TwoProcesses == {p1, p2}
TwoFiles == {f1, f2}
OneOrTwo == {1, 2}
=============================================================================
