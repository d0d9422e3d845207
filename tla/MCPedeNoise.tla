---------------------------- MODULE MCPedeNoise ----------------------------
(* Instances of PedeNoise for TLC. *)
EXTENDS PedeNoise

OneBoard == [c \in Cbc |-> "be0"]
ByParity == [ch \in Channel |-> ch % 2]
SomePoints == {-2, 1, 7}
=============================================================================
