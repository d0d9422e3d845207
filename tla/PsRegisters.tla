----------------------------- MODULE PsRegisters -----------------------------
(***************************************************************************)
(* The registers of the MPA and SSA: MPAInterface and SSAInterface over    *)
(* the I2C functions of D19cFWInterface.cc.  They use the I2C block of the *)
(* utilities of PsChips: its FIFOs, and its master when it has been given  *)
(* back to the chips.                                                      *)
(*                                                                         *)
(* The I2C master is of version 1 or later, as ConfigureBoard() asks for   *)
(* before it writes the table of addresses: a read is one word of the FIFO *)
(* and a write two, taken as one command here.                             *)
(*                                                                         *)
(* External: the firmware takes a command out of the FIFO, carries it out  *)
(* and answers a read or a write that is to be read back in one go; the    *)
(* answer to a chip that is off, or not in the table of addresses, never   *)
(* comes.                                                                  *)
(***************************************************************************)
EXTENDS PsChips, FiniteSetsExt

CONSTANTS PsIds,          \* the chips
          fFWNChips,      \* the chips the firmware was built for
          fFirwmareChipType, fChipEmulator,  \* their type, and whether they are emulated
          Addr,           \* the addresses in the register file, by name
          InOrder,        \* its names, in the order of the map
          Pixels,         \* the pixels in use, rows and columns
          Operations,     \* what a program asks for: a set of sequences of calls
          Junk            \* bound: what memory that was not read may hold

\* A call for registers of a chip: where, and what is written.
Calls == [op : {"write", "pixel", "read", "readall"}, chip : PsIds, verify : BOOLEAN,
          at : Seq(Nat), value : Seq(Nat)]
ASSUME RegistersAssumption ==
  /\ PsIds \subseteq Nat /\ fFWNChips \in Nat /\ fChipEmulator \in BOOLEAN
  /\ fFirwmareChipType \in {"CBC2", "CBC3", "MPA", "SSA"}
  /\ \A name \in DOMAIN Addr : Addr[name] \in 0..65535
  /\ {"ENFLAGS", "ModeSel"} \subseteq DOMAIN Addr
  /\ ToSet(InOrder) = DOMAIN Addr /\ IsInjective(InOrder)
  /\ Operations \subseteq Seq(Calls)

VARIABLES
  cells,     \* the registers of the chips, by address
  copy,      \* the register map of the description
  asked,     \* the calls that are left
  transfer,  \* of the call at the head of asked: "idle", "wait" for replies, "decode"
  answers    \* pVecReg after the I2C transaction

registerVars == <<cells, copy, asked, transfer, answers>>

\* Pix_write_MPA(): the row, four bits of the register, and the pixel.
PixelAddress(name, row, pixel) ==
  ((row % 32) * 2048) + ((Addr[name] % 16) * 128) + pixel
PixelAddresses == {PixelAddress(n, p[1], p[2]) : n \in {"ENFLAGS", "ModeSel"}, p \in Pixels}
Addresses == {Addr[n] : n \in DOMAIN Addr} \cup PixelAddresses

\* SetI2CAddressTable(): for as many MPAs or SSAs as the firmware was built for,
\* the address on the bus, seven bits of the item, and the bytes of a register
\* address, of which an emulated MPA has one.  For CBCs it writes nothing.
SetI2CAddressTable ==
  [id \in IF fFirwmareChipType \in {"MPA", "SSA"} THEN 0..(fFWNChips - 1) ELSE {} |->
     IF fFirwmareChipType = "MPA"
     THEN [address |-> (64 + id) % 128, register |-> IF fChipEmulator THEN 1 ELSE 2]
     ELSE [address |-> (32 + id) % 128, register |-> 2]]
\* The chips on the bus (external): where they are and what they take, which
\* the table has to give for each of them.
OnBus == [id \in PsIds |->
  [address |-> (IF fFirwmareChipType = "MPA" THEN 64 ELSE 32) + id,
   register |-> IF fFirwmareChipType = "MPA" /\ fChipEmulator THEN 1 ELSE 2]]

-----------------------------------------------------------------------------
(* Calls and what they are made of.  A program writes with verification    *)
(* (pVerifLoop) unless it says otherwise.                                  *)
WriteMPAMultReg(id, writes, pVerifLoop) ==
  [op |-> "write", chip |-> id, verify |-> pVerifLoop,
   at |-> [i \in DOMAIN writes |-> Addr[writes[i][1]]], value |-> [i \in DOMAIN writes |-> writes[i][2]]]
WriteMPAReg(id, name, v) == WriteMPAMultReg(id, <<<<name, v>>>>, TRUE)
Reads(op, id, names) ==
  [op |-> op, chip |-> id, verify |-> TRUE,
   at |-> [i \in DOMAIN names |-> Addr[names[i]]], value |-> [i \in DOMAIN names |-> 0]]
ReadMPAReg(id, name)      == Reads("read", id, <<name>>)
ReadMPAMultReg(id, names) == Reads("read", id, names)
ReadMPA(id)               == Reads("readall", id, InOrder)
WriteSSAReg(id, name, v) == WriteMPAReg(id, name, v)
ReadSSAReg(id, name)     == ReadMPAReg(id, name)
Pix_write(id, name, pixel, v) ==
  [op |-> "pixel", chip |-> id, verify |-> FALSE,
   at |-> <<PixelAddress(name, pixel[1], pixel[2])>>, value |-> <<v>>]

Activate_async(id) == <<WriteMPAReg(id, "ReadoutMode", 1)>>
Activate_sync(id)  == <<WriteMPAReg(id, "ReadoutMode", 0)>>
Activate_pp(id)    == <<WriteMPAReg(id, "ECM", 129)>>
Activate_ss(id)    == <<WriteMPAReg(id, "ECM", 65)>>
Activate_ps(id)    == <<WriteMPAReg(id, "ECM", 8)>>
Dacs(id, names, v) == [i \in DOMAIN names |-> WriteMPAReg(id, names[i], v)]
Set_threshold(id, th) ==
  Dacs(id, <<"ThDAC0", "ThDAC1", "ThDAC2", "ThDAC3", "ThDAC4", "ThDAC5", "ThDAC6">>, th)
Set_calibration(id, cal) ==
  Dacs(id, <<"CalDAC0", "CalDAC1", "CalDAC2", "CalDAC3", "CalDAC4", "CalDAC5", "CalDAC6">>, cal)

\* The enable flags of a pixel and their bits.
Bits == [PixelMask |-> 1, Polarity |-> 2, EnEdgeBR |-> 4, EnLevelBR |-> 8,
         Encount |-> 16, DigCal |-> 32, AnCal |-> 64, BRclk |-> 128]
Pix_Set_enable(id, pixel, flags) ==
  <<Pix_write(id, "ENFLAGS", pixel, MapThenSumSet(LAMBDA f : Bits[f], flags))>>
Enable_pix_counter(id, pixel) ==
  Pix_Set_enable(id, pixel, {"PixelMask", "Polarity", "Encount", "AnCal"})
Enable_pix_sync(id, pixel) == Enable_pix_counter(id, pixel)
Enable_pix_digi(id, pixel) == Pix_Set_enable(id, pixel, {"DigCal"})
Disable_pixel(id, pixel)   == Pix_Set_enable(id, pixel, {})
\* Whatever the mode, it is 0 that is written: the other values are locals.
Pix_Smode(id, pixel) == <<Pix_write(id, "ModeSel", pixel, 0)>>
Enable_pix_BRcal(id, pixel, polarity, smode) ==
  IF polarity \notin {"rise", "fall"} \/ smode \notin {"level", "edge"} THEN <<>>
  ELSE Pix_Smode(id, pixel) \o
       Pix_Set_enable(id, pixel, {"PixelMask", "Encount", "AnCal"}
         \cup (IF polarity = "rise" THEN {"Polarity"} ELSE {})
         \cup (IF smode = "level" THEN {"EnLevelBR"} ELSE {"EnEdgeBR"}))

-----------------------------------------------------------------------------
InitRegisters ==
  /\ InitPs
  /\ cells = [c \in PsIds |-> [a \in Addresses |-> 0]]
  /\ copy = [c \in PsIds |-> [a \in {Addr[n] : n \in DOMAIN Addr} |-> 0]]
  /\ asked = <<>> /\ transfer = "idle" /\ answers = <<>>

StartCalls == \E calls \in Operations :
  /\ utility = NoUtility /\ transfer = "idle" /\ asked = <<>> /\ runs < MaxRuns
  /\ asked' = calls /\ runs' = runs + 1
  /\ UNCHANGED <<utility, left, waiting, master, mapped, commands, replies, mux, dac, port,
                 answered, cells, copy, transfer, answers>>

call == Head(asked)
\* EncodeReg(): the command for one register.
EncodeReg(i) == [op |-> "chip", chip |-> call.chip, at |-> call.at[i],
                 value |-> call.value[i], read |-> call.op \in {"read", "readall"}, back |-> call.verify]
Requests == [i \in DOMAIN call.at |-> EncodeReg(i)]

\* WriteI2C(): the FIFOs are emptied before the commands are written.
WriteI2C ==
  /\ asked # <<>> /\ transfer = "idle"
  /\ commands' = Requests /\ replies' = Emptied(replies)
  /\ transfer' = "wait"
  /\ UNCHANGED <<utility, left, waiting, master, mapped, mux, dac, port, runs, answered,
                 cells, copy, asked, answers>>

\* A reply is expected to a read and to a write that is to be read back, as all
\* the commands of a call are, or none.
Expected == IF call.op \in {"read", "readall"} \/ call.verify THEN Requests ELSE <<>>
\* ReadI2C() takes what is in the FIFO, be it what is expected or less.
TakeReplies ==
  /\ answers' = replies /\ replies' = <<>> /\ transfer' = "decode"
  /\ answered' = <<[i \in 1..Min({Len(replies), Len(Expected)}) |->
                      <<"chip", Expected[i].chip, Expected[i].at>>],
                   [i \in DOMAIN replies |-> IF replies[i].op = "chip"
                                             THEN <<"chip", replies[i].chip, replies[i].at>>
                                             ELSE <<replies[i].op>>]>>
  /\ UNCHANGED <<utility, left, waiting, master, mapped, commands, mux, dac, port, runs,
                 cells, copy, asked>>
\* It polls until there are as many replies as are expected, or gives up.
ReadI2C    == transfer = "wait" /\ Len(replies) = Len(Expected) /\ TakeReplies
ReadI2CFailed == transfer = "wait" /\ Len(replies) # Len(Expected) /\ TakeReplies

Done == /\ asked' = Tail(asked) /\ transfer' = "idle" /\ answers' = <<>>
        /\ UNCHANGED <<psVars, cells>>
\* WriteCbcBlockReg(): that ReadI2C() failed is forgotten, and cmd_reply_comp(),
\* which compares what was written with the replies, is always true, so a write
\* always succeeds, and goes to the map; the write of a pixel does not.
WriteCbcBlockReg ==
  /\ transfer = "decode" /\ call.op = "write"
  /\ copy' = [copy EXCEPT ![call.chip] = [a \in DOMAIN @ |->
       IF a \in ToSet(call.at) THEN call.value[Max({i \in DOMAIN call.at : call.at[i] = a})] ELSE @[a]]]
  /\ Done
Pix_write_MPA == transfer = "decode" /\ call.op = "pixel" /\ UNCHANGED copy /\ Done

\* The replies in order go to the registers named: without a reply, a read of
\* all registers stops and another one reads past the end of the vector.
ReadCbcBlockReg ==
  /\ transfer = "decode" /\ call.op \in {"read", "readall"}
  /\ \E beyond \in Junk :
       copy' = [copy EXCEPT ![call.chip] = [a \in DOMAIN @ |->
         LET i == Max({0} \cup {k \in DOMAIN call.at : call.at[k] = a})
         IN  CASE i \in DOMAIN answers -> answers[i].value
               [] i > Len(answers) /\ call.op = "read" -> beyond
               [] OTHER -> @[a]]]
  /\ Done

\* The firmware carries out a command for a chip.
ExecuteChip ==
  /\ commands # <<>> /\ Head(commands).op = "chip"
  /\ LET c == Head(commands)
         there == /\ master = "chip" /\ port[powerenable] = 0 /\ port[pcf8574] = 1
                  /\ c.chip \in DOMAIN SetI2CAddressTable
                  /\ SetI2CAddressTable[c.chip] = OnBus[c.chip]
         now == IF c.read THEN cells[c.chip][c.at] ELSE c.value
     IN  /\ cells' = IF there THEN [cells EXCEPT ![c.chip][c.at] = now] ELSE cells
         /\ replies' = IF there /\ (c.read \/ c.back) THEN Append(replies, [c EXCEPT !.value = now])
                       ELSE replies
  /\ commands' = Tail(commands)
  /\ UNCHANGED <<utility, left, waiting, master, mapped, mux, dac, port, runs, answered,
                 copy, asked, transfer, answers>>

\* The user stops the program; its register map goes with it.
KillCalls ==
  /\ asked # <<>> /\ runs < MaxRuns
  /\ asked' = <<>> /\ transfer' = "idle" /\ answers' = <<>>
  /\ copy' = [c \in PsIds |-> [a \in DOMAIN copy[c] |-> 0]]
  /\ UNCHANGED <<psVars, cells>>

OneProgram == asked # <<>> => utility' = utility
PsBoard == PsNext /\ OneProgram /\ UNCHANGED registerVars
RegisterNext == \/ PsBoard \/ StartCalls \/ WriteI2C \/ ReadI2C \/ ReadI2CFailed
                \/ WriteCbcBlockReg \/ Pix_write_MPA \/ ReadCbcBlockReg \/ ExecuteChip \/ KillCalls

-----------------------------------------------------------------------------
\* The replies that are read are those to the first of the commands just sent,
\* in their order: of the interface board and of the chips, whatever a program
\* that was stopped or a chip that answered after the last poll has left in the
\* FIFOs they share.
RepliesAreTheirs == answered # <<>> => answered[1] = answered[2]
=============================================================================
