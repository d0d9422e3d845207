--------------------------- MODULE MCD19cReadout ---------------------------
(* D19cReadout with events of two words and packages of one or two events. *)
EXTENDS D19cReadout

AllOps == Reads \cup Starts \cup Stops
MCNEvents == {1, 2}

\* Firmware that shows parts of events and goes on building.
FreeRunning == [type |-> "VR", packetNbr |-> 0, handshake |-> TRUE,
                streamed |-> TRUE, holds |-> FALSE]
\* Firmware that writes whole events.
WholeEvent == [FreeRunning EXCEPT !.streamed = FALSE, !.packetNbr = 1]
\* A zero-suppressed board whose firmware waits for the handshake.
Sparsified == [type |-> "ZS", packetNbr |-> 1, handshake |-> TRUE,
               streamed |-> FALSE, holds |-> TRUE]

\* The same, configured without the handshake.
Unasked == [Sparsified EXCEPT !.handshake = FALSE, !.holds = FALSE]

AllBoards  == {FreeRunning, WholeEvent, Sparsified, Unasked}
=============================================================================
