-------------------------- MODULE MCPacketReadout --------------------------
(* Instances of PacketI2c for TLC: two chips, on a module each for a CBC3  *)
(* board.                                                                  *)
EXTENDS PacketI2c

AllBoards == {"ICFC7", "ICGLIB", "CBC3FC7"}
EachOnItsOwn == <<0, 1>>
ShortAndLong == {<<2, 1, 3>>, <<1, 2, 3, 1>>}
FairSpec == BoardSpec /\ FairBoard
=============================================================================
