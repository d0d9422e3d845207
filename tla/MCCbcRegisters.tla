--------------------------- MODULE MCCbcRegisters ---------------------------
(* CbcRegisters on two chips with two registers, one of them a fuse.       *)
EXTENDS CbcRegisters

CONSTANTS c1, c2

MCCbc == {c1, c2}
MCCbcOrder == <<c1, c2>>
MCReg == {"Fuse", "VCth"}
MCRegOrder == <<"Fuse", "VCth">>
MCFuses == {"Fuse"}
MCVal == {0, 1}

\* A register named twice, so that the words of one request disagree.
MCRequests == {<< <<"VCth", 1>>, <<"VCth", 0>> >>}
MCReadings == {<<"VCth">>}
=============================================================================
