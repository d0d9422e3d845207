--------------------------- MODULE MCFileHandler ---------------------------
(* Instances of FileHandler for TLC. *)
EXTENDS FileHandler

CONSTANTS p1, p2, d1, d2

TwoProducers == {p1, p2}
Blocks == {d1, d2}
BlocksOrEmpty == {d1, d2, Empty}
=============================================================================
