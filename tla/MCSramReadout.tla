--------------------------- MODULE MCSramReadout ---------------------------
(* Instances of SramReadout for TLC. *)
EXTENDS SramReadout

BothBoards == {"GLIB", "CTA"}
OneOrTwo == {1, 2}
=============================================================================
