------------------------------- MODULE PsChips -------------------------------
(***************************************************************************)
(* The interface board of the MPA and SSA, from PSInterfaceBoard_* of      *)
(* D19cFWInterface.cc, driven by d19c_mpa_power_utility and SSA_test.      *)
(*                                                                         *)
(* One I2C master serves the chips and, when it is turned over, the slaves *)
(* of the interface board: a multiplexer, a DAC for the supplies, and two  *)
(* ports, one with the switch of the board and one with the reset line of  *)
(* the chips.  A command goes into a FIFO and its reply comes out of       *)
(* another one; a command of the board is two words, taken as one here.    *)
(* A user may stop a utility at any step and start another one.            *)
(*                                                                         *)
(* External: the firmware's FIFOs and the slaves, of which the code shows  *)
(* the addresses and the values it writes.                                 *)
(***************************************************************************)
EXTENDS Integers, Sequences, FiniteSets, SequencesExt, TLC

CONSTANT MaxRuns      \* bound: utilities a user starts

VARIABLES
  utility, left,      \* the utility that runs and its steps that are left
  waiting,            \* SendI2CCommand() waits for its reply
  master,             \* who has the I2C master: "chip" or "board"
  mapped,             \* the slave map has been written
  commands, replies,  \* the FIFOs
  mux, dac, port,     \* slaves: the route, the channels and the two ports
  runs, answered      \* utilities started; the last command and the reply read for it

psVars == <<utility, left, waiting, master, mapped, commands, replies, mux, dac, port, runs, answered>>

NoUtility == "none"
i2cmux  == "i2cmux"
pcf8574 == "pcf8574"          \* the reset line of the chips
dac7678 == "dac7678"
powerenable == "powerenable"  \* 0 switches the board on
Supplies == {"0x33", "0x31", "0x35", "0x36"}
\* The route of the multiplexer on which a slave is seen.
SeenOn(slave) == CASE slave = dac7678 -> 1 [] slave \in {pcf8574, powerenable} -> 2 [] OTHER -> 0

-----------------------------------------------------------------------------
(* The functions, as sequences of steps.                                   *)
Map         == [op |-> "map"]
Master(who) == [op |-> "wait", who |-> who]
Send(slave, reg, data) == [op |-> "send", slave |-> slave, reg |-> reg, data |-> data]

\* PSInterfaceBoard_PowerOn() and _PowerOff(): the switch of the board.
PSInterfaceBoard_Power(value) ==
  <<Map, Master("board"), Send(i2cmux, "", 2), Send(powerenable, "", value), Master("chip")>>

\* _PowerOn_MPA() and _PowerOn_SSA(): the supplies, then the reset line, then
\* the route to the chip.
PSInterfaceBoard_PowerOn_MPA ==
  <<Map, Master("board"),
    Send(i2cmux, "", 1), Send(dac7678, "0x33", 1),
    Send(i2cmux, "", 1), Send(dac7678, "0x31", 1),
    Send(i2cmux, "", 1), Send(dac7678, "0x35", 1),
    Send(i2cmux, "", 1), Send(dac7678, "0x36", 1),
    Send(i2cmux, "", 2), Send(pcf8574, "", 1),
    Send(i2cmux, "", 4), Master("chip")>>

\* _PowerOff_MPA() and _PowerOff_SSA(): the reset line, then four channels, of
\* which only the first is one that was switched on; the master is not given back.
PSInterfaceBoard_PowerOff_MPA ==
  <<Map, Master("board"),
    Send(i2cmux, "", 2), Send(pcf8574, "", 0),
    Send(i2cmux, "", 1), Send(dac7678, "0x36", 0),
    Send(i2cmux, "", 1), Send(dac7678, "0x32", 0),
    Send(i2cmux, "", 1), Send(dac7678, "0x30", 0),
    Send(i2cmux, "", 1), Send(dac7678, "0x34", 0)>>

Program(u) ==
  IF u = "power_on" THEN PSInterfaceBoard_Power(0) \o PSInterfaceBoard_PowerOn_MPA
  ELSE PSInterfaceBoard_PowerOff_MPA \o PSInterfaceBoard_Power(1)

InitPs ==
  /\ utility = NoUtility /\ left = <<>> /\ waiting = FALSE
  /\ master = "chip" /\ mapped = FALSE /\ commands = <<>> /\ replies = <<>>
  /\ mux = 0 /\ dac = [c \in Supplies |-> 0] /\ port = [powerenable |-> 1, pcf8574 |-> 0]
  /\ runs = 0 /\ answered = <<>>

StartUtility(u) ==
  /\ utility = NoUtility /\ runs < MaxRuns
  /\ utility' = u /\ left' = Program(u) /\ runs' = runs + 1 /\ answered' = <<>>
  /\ UNCHANGED <<waiting, master, mapped, commands, replies, mux, dac, port>>

AtOp(op) == utility # NoUtility /\ left # <<>> /\ Head(left).op = op

SetSlaveMap ==
  /\ AtOp("map") /\ mapped' = TRUE /\ left' = Tail(left)
  /\ UNCHANGED <<utility, waiting, master, commands, replies, mux, dac, port, runs, answered>>

Idle == commands = <<>>
\* Faulty variant: the replies of earlier commands stay.
Emptied_KeepReplies(out) == out
Emptied(out) == <<>>
\* PSInterfaceBoard_ConfigureI2CMaster(): it waits for the commands to be done,
\* hands the master over, and then resets it and its FIFOs.
ConfigureI2CMaster ==
  /\ AtOp("wait") /\ Idle
  /\ master' = Head(left).who
  /\ left' = <<[op |-> "reset"]>> \o Tail(left)
  /\ UNCHANGED <<utility, waiting, mapped, commands, replies, mux, dac, port, runs, answered>>
ResetMaster ==
  /\ AtOp("reset") /\ commands' = <<>> /\ replies' = Emptied(replies) /\ left' = Tail(left)
  /\ UNCHANGED <<utility, waiting, master, mapped, mux, dac, port, runs, answered>>

\* PSInterfaceBoard_SendI2CCommand(): the command, then a wait without limit.
SendI2CCommand ==
  /\ AtOp("send") /\ ~waiting
  /\ commands' = Append(commands, Head(left)) /\ waiting' = TRUE
  /\ UNCHANGED <<utility, left, master, mapped, replies, mux, dac, port, runs, answered>>
ReadReply ==
  /\ AtOp("send") /\ waiting /\ replies # <<>>
  /\ answered' = <<Head(left), Head(replies)>>
  /\ replies' = Tail(replies) /\ waiting' = FALSE /\ left' = Tail(left)
  /\ UNCHANGED <<utility, master, mapped, commands, mux, dac, port, runs>>
Finish ==
  /\ utility # NoUtility /\ left = <<>> /\ utility' = NoUtility
  /\ UNCHANGED <<left, waiting, master, mapped, commands, replies, mux, dac, port, runs, answered>>

\* The firmware carries out a command of the board's map.
Execute ==
  /\ commands # <<>> /\ Head(commands).op = "send" /\ master = "board" /\ mapped
  /\ LET c == Head(commands)
         seen == c.slave = i2cmux \/ SeenOn(c.slave) = mux
     IN  /\ mux' = IF c.slave = i2cmux THEN c.data ELSE mux
         /\ dac' = IF seen /\ c.slave = dac7678 /\ c.reg \in Supplies
                   THEN [dac EXCEPT ![c.reg] = c.data] ELSE dac
         /\ port' = IF seen /\ c.slave \in DOMAIN port
                    THEN [port EXCEPT ![c.slave] = c.data] ELSE port
         /\ replies' = Append(replies, c)
  /\ commands' = Tail(commands)
  /\ UNCHANGED <<utility, left, waiting, master, mapped, runs, answered>>

\* The user stops the utility; what it has put in the FIFOs stays there.
Kill ==
  /\ utility # NoUtility /\ runs < MaxRuns
  /\ utility' = NoUtility /\ left' = <<>> /\ waiting' = FALSE
  /\ UNCHANGED <<master, mapped, commands, replies, mux, dac, port, runs, answered>>

Utility == SetSlaveMap \/ ConfigureI2CMaster \/ ResetMaster \/ SendI2CCommand \/ ReadReply \/ Finish
PsNext == Utility \/ Execute \/ Kill \/ \E u \in {"power_on", "power_off"} : StartUtility(u)

=============================================================================
