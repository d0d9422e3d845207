---------------------------- MODULE MCEventData ----------------------------
(* Instances of EventData for TLC. *)
EXTENDS EventData

(* A board with zero-suppressed events and one with events of one size. *)
TwoBoards == <<"zs", "vr">>
Types == [b \in {"zs", "vr"} |-> IF b = "zs" THEN "ZS" ELSE "VR"]
ZSSizes == {2, 3}
=============================================================================
