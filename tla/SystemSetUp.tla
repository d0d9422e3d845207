----------------------------- MODULE SystemSetUp -----------------------------
(***************************************************************************)
(* SystemController from InitializeHw() to Destroy(): the description is   *)
(* parsed, the firmware objects and raw files are made, ConfigureHw() goes *)
(* through the boards and their chips, and a tool then changes registers,  *)
(* saves them, configures again or closes.  A later session of the program *)
(* is given the description with the saved files.                          *)
(*                                                                         *)
(* ConfigureHw() is a list of steps computed when it is called and carried *)
(* out one at a time, board after board.  D19C boards are modelled step by *)
(* step (D19cFWInterface::ConfigureBoard); another board writes the        *)
(* registers of its description, and its chips are hard reset.             *)
(***************************************************************************)
EXTENDS DescriptionParser, TLC

CONSTANTS
  Documents,        \* the descriptions the program may be given
  Disk,             \* the register files there are at the beginning
  FirmwareChip,     \* uri -> the chip type the firmware was compiled for
  Present,          \* uri -> the <<FE, chip>> that are connected
  Default,          \* type of chip -> its registers after a hard reset
  Changes,          \* <<register, value>> a tool may write to a chip
  BoardChanges,     \* <<register, value>> a tool may write to a board
  Mezzanines,       \* uri -> the slots of the board that hold a DIO5 card
  MaxAttempts,      \* Align_out(): cMaxAttempts
  max_attempts,     \* PowerOnDIO5(): polls of the I2C master, 1000
  MaxChanges, MaxConfigures, MaxSessions    \* bounds

VARIABLES
  doc,              \* the description of this session
  files,            \* register files: <<directory, name>> -> lines
  session, state,   \* number of the session, and where it stands
  todo,             \* the steps of ConfigureHw() that are left
  fBoardVector, fBeBoardFWMap, fSettingsMap,
  fCbcInterface,    \* the firmware object the chip interfaces point to
  hw,               \* uri -> registers of the board and of its chips
  raw,              \* raw files that are open: name, board and header
  attempts,         \* Align_out(): cCounter; PowerOnDIO5(): attempts
  configures, changes,
  ignored,          \* the last ConfigureHw() left the chips alone
  dumped            \* the chips' registers when they were saved (history)

setUpVars == <<doc, files, session, state, todo, fBoardVector, fBeBoardFWMap, fSettingsMap,
          fCbcInterface, hw, raw, attempts, configures, changes, ignored, dumped>>

Fuses  == {"BandgapFuse", "ChipIDFuse"}       \* never written by ConfigureCbc()
Hybrids == 0..1                               \* 16 in the code
None   == "none"
NoBoardYet == 0 - 1
Boards == DOMAIN fBoardVector
SetSum(S, f(_)) == FoldFunctionOnSet(LAMBDA a, b : a + b, 0, [x \in S |-> f(x)], S)
KindOf(type)    == CASE type = "MPA" -> "mpa" [] type = "SSA" -> "ssa" [] OTHER -> "cbc"
IdsOf(chips)    == {chips[i].id : i \in DOMAIN chips}
Where(board)    == fBeBoardFWMap[board.id].uri

-----------------------------------------------------------------------------
(* The hardware.                                                           *)
Reset(uri, h) == [h EXCEPT ![uri].chips = [c \in Present[uri] |-> Default[FirmwareChip[uri]]]]
\* A chip that is not there does not answer, and the write is lost.
WriteChip(h, uri, fe, id, new) ==
  IF <<fe, id>> \notin Present[uri] THEN h
  ELSE [h EXCEPT ![uri].chips[<<fe, id>>] =
          [r \in DOMAIN @ |-> IF r \in DOMAIN new THEN new[r] ELSE @[r]]]
WriteBoard(h, uri, new) == [h EXCEPT ![uri].regs = new @@ @]

-----------------------------------------------------------------------------
(* InitializeHw(), InitializeSettings() and initializeFileHandler().       *)
InitSetUp ==
  /\ doc \in Documents
  /\ files = Disk
  /\ session = 1 /\ state = "start" /\ todo = <<>>
  /\ fBoardVector = <<>> /\ fBeBoardFWMap = <<>> /\ fSettingsMap = <<>>
  /\ fCbcInterface = NoBoardYet
  /\ hw = [u \in {doc.boards[i].uri : i \in DOMAIN doc.boards} |->
             [regs |-> <<>>, chips |-> [c \in Present[u] |-> Default[FirmwareChip[u]]], ddr3 |-> FALSE]]
  /\ raw = {} /\ attempts = 0 /\ configures = 0 /\ changes = 0
  /\ ignored = FALSE /\ dumped = <<>>

\* One BeBoard node at a time; of two boards with one identifier the second
\* has the entry of the firmware map.
ParseBoard ==
  /\ state = "start" /\ doc.kind = "xml" /\ Len(fBoardVector) < Len(doc.boards)
  /\ LET node == doc.boards[Len(fBoardVector) + 1]
     IN  IF BoardExits(files, node)
         THEN state' = "exit" /\ UNCHANGED <<fBoardVector, fBeBoardFWMap>>
         ELSE IF BoardThrows(files, node)
         THEN state' = "thrown" /\ UNCHANGED <<fBoardVector, fBeBoardFWMap>>
         ELSE LET board == parseBeBoard(files, node)
              IN  /\ fBoardVector' = Append(fBoardVector, board)
                  /\ fBeBoardFWMap' = (board.id :> [uri |-> board.uri, type |-> board.type,
                                                    fNCbc |-> 0, fNMPA |-> 0]) @@ fBeBoardFWMap
                  /\ UNCHANGED state
  /\ UNCHANGED <<doc, files, session, todo, fSettingsMap, fCbcInterface, hw, raw, attempts,
                 configures, changes, ignored, dumped>>

\* A file that is not .xml is only reported; one that does not parse throws.
ParseFails ==
  /\ state = "start" /\ doc.kind = "broken" /\ state' = "thrown"
  /\ UNCHANGED <<doc, files, session, todo, fBoardVector, fBeBoardFWMap, fSettingsMap,
                 fCbcInterface, hw, raw, attempts, configures, changes, ignored, dumped>>

\* The number of words of an event, in the header of the raw file.  A D19C
\* board with CBCs and MPAs ends the program; the test of the MPAs is made for
\* every type of board.
CountOf(board, kind) == SetSum(DOMAIN board.modules, LAMBDA i : Len(board.modules[i][kind]))
computeEventSize32(board) ==
  LET nCbc == CountOf(board, "cbc")
      nMpa == CountOf(board, "mpa")
      nFe  == Len(board.modules)
      Glib == CASE nCbc <= 4  -> 6 + 4 * 9
                [] nCbc \in 5..8  -> 6 + 8 * 9
                [] nCbc \in 9..16 -> 5 + 16 * 9
                [] OTHER -> 0
      size == CASE board.type \in {"GLIB", "CTA"}     -> Glib
                [] board.type = "MPAlightGLIB"        -> 4099 + 6 * 240
                [] board.type \in {"ICGLIB", "ICFC7"} -> 6 + nCbc * 9
                [] board.type = "CBC3FC7"             -> 3 + nCbc * 11
                [] OTHER -> IF nCbc > 0 THEN 5 + nFe + nCbc * 11 ELSE 0
  IN  IF nMpa > 0 THEN 5 + nFe + nMpa * 32 ELSE size
SizeExits(board) == CountOf(board, "cbc") > 0 /\ CountOf(board, "mpa") > 0

\* The names differ by the board's identifier only if the name ends in .raw.
RawFile(board) ==
  [name |-> IF doc.raw = "run.raw" THEN <<doc.raw, board.id>> ELSE <<doc.raw>>,
   board |-> board.id, type |-> board.type, nCbc |-> CountOf(board, "cbc"),
   size |-> computeEventSize32(board), event |-> board.event]

Parsed ==
  /\ state = "start"
  /\ doc.kind = "other" \/ (doc.kind = "xml" /\ Len(fBoardVector) = Len(doc.boards))
  /\ IF doc.raw # None /\ \E b \in Boards : SizeExits(fBoardVector[b])
     THEN state' = "exit" /\ UNCHANGED <<raw, fSettingsMap>>
     ELSE /\ state' = "initialized"
          /\ raw' = IF doc.raw = None THEN {} ELSE {RawFile(fBoardVector[b]) : b \in Boards}
          /\ fSettingsMap' = IF doc.kind = "xml" THEN parseSettings(doc) ELSE <<>>
  /\ UNCHANGED <<doc, files, session, todo, fBoardVector, fBeBoardFWMap, fCbcInterface, hw,
                 attempts, configures, changes, ignored, dumped>>

-----------------------------------------------------------------------------
(* ConfigureHw().                                                          *)
Step(op, b)       == [op |-> op, b |-> b]
\* The CBCs, MPAs and SSAs of one module after the other.
ChipSteps(b) ==
  LET Of(i, kind) == [k \in 1..Len(fBoardVector[b].modules[i][kind]) |->
                        [op |-> "Configure", b |-> b, i |-> i, kind |-> kind, k |-> k]]
      Module(s, i) == ((s \o Of(i, "cbc")) \o Of(i, "mpa")) \o Of(i, "ssa")
  IN  FoldLeft(Module, <<>>, [i \in 1..Len(fBoardVector[b].modules) |-> i])

Dio5(board) == <<"dio5_en">> \in DOMAIN board.regs /\ board.regs[<<"dio5_en">>] # 0
\* PowerOnDIO5() for each slot, L12 first; without a card it only complains.
PowerOnDIO5(b) ==
  LET Of(slot) == IF slot \notin Mezzanines[Where(fBoardVector[b])] THEN <<>>
        ELSE [k \in 1..3 |-> [op |-> (<<"SlotOff", "SetValue", "SlotOn">>)[k], b |-> b, slot |-> slot]]
  IN  (Of("l12") \o Of("l8")) \o <<Step("LoadConfig", b)>>
D19cSteps(b) ==
  <<Step("HardReset", b), Step("CommandReset", b), Step("WriteStackReg", b)>>
    \o (IF Dio5(fBoardVector[b]) THEN PowerOnDIO5(b) ELSE <<>>)
    \o <<Step("EventType", b), Step("HardReset", b), Step("Ping", b), Step("TuneBegin", b),
         Step("Align", b), Step("TuneEnd", b), Step("ResetReadout", b)>>
OtherSteps(b) == <<Step("WriteStackReg", b), Step("HardReset", b)>>
HoleSteps(b) == IF fBoardVector[b].type = "GLIB" /\ fSettingsMap # <<>>
                THEN <<Step("HoleMode", b)>> ELSE <<>>

BoardSteps(b, ignore) ==
  ((IF fBoardVector[b].type = "D19C" THEN D19cSteps(b) ELSE OtherSteps(b)) \o HoleSteps(b))
    \o (IF ignore THEN <<>> ELSE ChipSteps(b))
    \o <<Step("FastReset", b)>>

ConfigureHw(ignore) ==
  /\ state \in {"initialized", "ready"} /\ configures < MaxConfigures
  /\ state' = "configuring" /\ configures' = configures + 1 /\ ignored' = ignore
  /\ todo' = FoldLeft(LAMBDA s, b : s \o BoardSteps(b, ignore), <<>>,
                      [b \in 1..Len(fBoardVector) |-> b])
  /\ UNCHANGED <<doc, files, session, fBoardVector, fBeBoardFWMap, fSettingsMap, fCbcInterface,
                 hw, raw, attempts, changes, dumped>>

At(op) == state = "configuring" /\ todo # <<>> /\ Head(todo).op = op
Board  == fBoardVector[Head(todo).b]
Goes   == /\ todo' = Tail(todo)
          /\ UNCHANGED <<doc, files, session, state, fBoardVector, fSettingsMap, raw, configures,
                         changes, ignored, dumped>>

HardReset ==
  /\ At("HardReset") /\ Goes /\ hw' = Reset(Where(Board), hw)
  /\ UNCHANGED <<fBeBoardFWMap, fCbcInterface, attempts>>
\* A fast reset leaves the registers of the chips as they are.
FastReset ==
  /\ At("FastReset") /\ Goes /\ UNCHANGED <<hw, fBeBoardFWMap, fCbcInterface, attempts>>

\* The counters of the chips: that of the CBCs starts anew, that of the MPAs does not.
CommandReset ==
  /\ At("CommandReset") /\ Goes
  /\ LET type == FirmwareChip[Where(Board)]
     IN  fBeBoardFWMap' = [fBeBoardFWMap EXCEPT
           ![Board.id].fNCbc = IF type \in {"CBC2", "CBC3"} THEN CountOf(Board, "cbc") ELSE 0,
           ![Board.id].fNMPA = IF type = "MPA" THEN @ + CountOf(Board, "mpa") ELSE @]
  /\ UNCHANGED <<hw, fCbcInterface, attempts>>

\* The words that enable the hybrids and chips of the description ...
Enables(board) ==
  LET Fes    == {board.modules[i].fe : i \in DOMAIN board.modules}
      Ids(h) == UNION {IdsOf(board.modules[i][KindOf(FirmwareChip[Where(board)])]) :
                         i \in {k \in DOMAIN board.modules : board.modules[k].fe = h}}
  IN  (<<"hybrid_enable">> :> SetSum(Fes, LAMBDA f : 2^f)) @@
      [n \in {<<"chips_enable", ToString(h)>> : h \in Hybrids} |->
         LET h == CHOOSE k \in Hybrids : n[2] = ToString(k) IN SetSum(Ids(h), LAMBDA c : 2^c)]
\* ... and then the registers of the description, which may say otherwise.
WriteStackReg ==
  /\ At("WriteStackReg") /\ Goes
  /\ hw' = WriteBoard(hw, Where(Board),
             Board.regs @@ (IF Board.type = "D19C" THEN Enables(Board) ELSE <<>>))
  /\ UNCHANGED <<fBeBoardFWMap, fCbcInterface, attempts>>

\* The slot is switched off and the I2C master of the board on.
SlotOff ==
  /\ At("SlotOff") /\ Goes
  /\ hw' = WriteBoard(hw, Where(Board),
             (<<Head(todo).slot, "pwr_en">> :> 0) @@ (<<"i2c_enable">> :> 1))
  /\ attempts' = 0
  /\ UNCHANGED <<fBeBoardFWMap, fCbcInterface>>
\* The supply of the slot goes to 2.5 V; the master is polled until it is done
\* or has failed, or there were too many polls.
SetValue ==
  /\ At("SetValue") /\ attempts' = attempts + 1
  /\ \/ /\ todo' = IF attempts' < max_attempts THEN todo ELSE Tail(todo)     \* busy
        /\ UNCHANGED hw
     \/ todo' = Tail(todo) /\ UNCHANGED hw                                   \* error
     \/ /\ todo' = Tail(todo)                                                \* done
        /\ hw' = WriteBoard(hw, Where(Board), <<Head(todo).slot, "supply">> :> 255 - 43)
  /\ UNCHANGED <<doc, files, session, state, fBoardVector, fBeBoardFWMap, fSettingsMap,
                 fCbcInterface, raw, configures, changes, ignored, dumped>>
\* The slot is switched on again, whatever the master said.
SlotOn ==
  /\ At("SlotOn") /\ Goes
  /\ hw' = WriteBoard(hw, Where(Board),
             (<<Head(todo).slot, "pwr_en">> :> 1) @@ (<<"i2c_enable">> :> 0))
  /\ UNCHANGED <<fBeBoardFWMap, fCbcInterface, attempts>>
LoadConfig ==
  /\ At("LoadConfig") /\ Goes /\ UNCHANGED <<hw, fBeBoardFWMap, fCbcInterface, attempts>>
EventType ==
  /\ At("EventType") /\ Goes
  /\ hw' = WriteBoard(hw, Where(Board), <<"zero_suppression_enable">> :> IF Board.event = "ZS" THEN 1 ELSE 0)
  /\ UNCHANGED <<fBeBoardFWMap, fCbcInterface, attempts>>
\* The replies to the pings are only reported on.
Ping ==
  /\ At("Ping") /\ Goes /\ UNCHANGED <<hw, fBeBoardFWMap, fCbcInterface, attempts>>

-----------------------------------------------------------------------------
(* PhaseTuning(): the chips send a known pattern while the lines align.    *)
(* The values that go back are those of the copies, and the input of the   *)
(* stub logic of a CBC3 is not put back.                                   *)
Tuned(type) == CASE type = "CBC3" -> "cbc" [] type = "MPA" -> "mpa" [] OTHER -> None
OverChips(board, kind, h, new(_)) ==
  LET Chips(i) == board.modules[i][kind]
      One(x, i) == FoldLeft(LAMBDA y, c : WriteChip(y, Where(board), board.modules[i].fe, c.id, new(c.map)),
                            x, Chips(i))
  IN  FoldLeft(One, h, [i \in 1..Len(board.modules) |-> i])

Pattern(kind, map) ==
  IF kind = "mpa" THEN [ReadoutMode |-> 0, ECM |-> 8]
  ELSE [Pipe_StubInpSel_Ptwidth |-> Field(getReg(map, "Pipe_StubInpSel_Ptwidth"), 6, 2) + 32
                                      + (getReg(map, "Pipe_StubInpSel_Ptwidth") % 16),
        HIP_TestMode |-> getReg(map, "HIP_TestMode") - (Bit(getReg(map, "HIP_TestMode"), 4) * 16)]
PutBack(kind, map) ==
  IF kind = "mpa" THEN [ReadoutMode |-> getReg(map, "ReadoutMode"), ECM |-> getReg(map, "ECM")]
  ELSE [HIP_TestMode |-> getReg(map, "HIP_TestMode")]

TuneBegin ==
  /\ At("TuneBegin") /\ Goes
  /\ LET kind == Tuned(FirmwareChip[Where(Board)])
     IN  hw' = IF kind = None THEN hw ELSE OverChips(Board, kind, hw, LAMBDA m : Pattern(kind, m))
  /\ attempts' = 0
  /\ UNCHANGED <<fBeBoardFWMap, fCbcInterface>>

Counted(n) == n + 1
\* Align_out(): one more attempt, or the end of the program after cMaxAttempts.
Align ==
  /\ At("Align") /\ attempts <= MaxAttempts
  /\ Tuned(FirmwareChip[Where(Board)]) # None
  /\ attempts' = Counted(attempts)
  /\ \/ todo' = Tail(todo)              \* hardware_ready
     \/ todo' = todo
  /\ UNCHANGED <<doc, files, session, state, fBoardVector, fBeBoardFWMap, fSettingsMap,
                 fCbcInterface, hw, raw, configures, changes, ignored, dumped>>
NothingToAlign ==
  /\ At("Align") /\ Tuned(FirmwareChip[Where(Board)]) = None /\ Goes
  /\ UNCHANGED <<hw, fBeBoardFWMap, fCbcInterface, attempts>>
AlignExits ==
  /\ At("Align") /\ attempts > MaxAttempts
  /\ state' = "exit"
  /\ UNCHANGED <<doc, files, session, todo, fBoardVector, fBeBoardFWMap, fSettingsMap,
                 fCbcInterface, hw, raw, attempts, configures, changes, ignored, dumped>>
TuneEnd ==
  /\ At("TuneEnd") /\ Goes
  /\ LET kind == Tuned(FirmwareChip[Where(Board)])
     IN  hw' = IF kind = None THEN hw ELSE OverChips(Board, kind, hw, LAMBDA m : PutBack(kind, m))
  /\ UNCHANGED <<fBeBoardFWMap, fCbcInterface, attempts>>

\* ResetReadout() waits, without limit, for the calibration of the DDR3 memory.
ResetReadout ==
  /\ At("ResetReadout") /\ hw[Where(Board)].ddr3 /\ Goes
  /\ UNCHANGED <<hw, fBeBoardFWMap, fCbcInterface, attempts>>
Calibrated(u) ==
  /\ ~hw[u].ddr3 /\ hw' = [hw EXCEPT ![u].ddr3 = TRUE]
  /\ UNCHANGED <<doc, files, session, state, todo, fBoardVector, fBeBoardFWMap, fSettingsMap,
                 fCbcInterface, raw, attempts, configures, changes, ignored, dumped>>

HoleMode ==
  /\ At("HoleMode") /\ Goes
  /\ hw' = WriteBoard(hw, Where(Board), <<"negative_logic_CBC">> :>
             (IF "HoleMode" \in DOMAIN fSettingsMap /\ fSettingsMap["HoleMode"] # 0 THEN 0 ELSE 1))
  /\ UNCHANGED <<fBeBoardFWMap, fCbcInterface, attempts>>

-----------------------------------------------------------------------------
(* ConfigureCbc(), ConfigureMPA(), ConfigureSSA(): the registers of the    *)
(* copy, through the board the chip says it is on (setBoard()): if there   *)
(* is none with that identifier the last one is kept, and if there was no  *)
(* last one the program crashes.                                           *)
RouteOf(be) == IF be \in DOMAIN fBeBoardFWMap THEN be ELSE fCbcInterface

\* Faulty variant: the registers the chip had in its file, not the copy.
Written_Defaults(kind, map) ==
  [r \in {n \in DOMAIN map : kind # "cbc" \/ n \notin Fuses} |-> map[r].def]
Written(kind, map) ==
  [r \in {n \in DOMAIN map : kind # "cbc" \/ n \notin Fuses} |-> map[r].value]

Configure ==
  /\ At("Configure") /\ RouteOf(Board.modules[Head(todo).i].be) # NoBoardYet /\ Goes
  /\ LET module == Board.modules[Head(todo).i]
         chip   == module[Head(todo).kind][Head(todo).k]
         to     == RouteOf(module.be)
     IN  /\ fCbcInterface' = to
         /\ hw' = WriteChip(hw, fBeBoardFWMap[to].uri, module.fe, chip.id,
                            Written(Head(todo).kind, chip.map))
  /\ UNCHANGED <<fBeBoardFWMap, attempts>>
NoBoard ==
  /\ At("Configure") /\ RouteOf(Board.modules[Head(todo).i].be) = NoBoardYet
  /\ state' = "crashed"
  /\ UNCHANGED <<doc, files, session, todo, fBoardVector, fBeBoardFWMap, fSettingsMap,
                 fCbcInterface, hw, raw, attempts, configures, changes, ignored, dumped>>
Configured ==
  /\ state = "configuring" /\ todo = <<>> /\ state' = "ready"
  /\ UNCHANGED <<doc, files, session, todo, fBoardVector, fBeBoardFWMap, fSettingsMap,
                 fCbcInterface, hw, raw, attempts, configures, changes, ignored, dumped>>

-----------------------------------------------------------------------------
(* A tool at work.                                                         *)
ChipOf(b, i, k) == fBoardVector[b].modules[i].cbc[k]

\* Bound: registers are changed in the sessions before the last.
Tooling == state = "ready" /\ changes < MaxChanges /\ session < MaxSessions
\* WriteCbcReg(), verified: the chip and then the copy.
ChangeChip(b, i, k, r, v) ==
  /\ Tooling
  /\ LET module == fBoardVector[b].modules[i]
         to     == RouteOf(module.be)
     IN  /\ to # NoBoardYet /\ <<module.fe, ChipOf(b, i, k).id>> \in Present[fBeBoardFWMap[to].uri]
         /\ fCbcInterface' = to
         /\ hw' = WriteChip(hw, fBeBoardFWMap[to].uri, module.fe, ChipOf(b, i, k).id, r :> v)
         /\ fBoardVector' = [fBoardVector EXCEPT ![b].modules[i].cbc[k].map = setReg(@, r, v)]
  /\ changes' = changes + 1
  /\ UNCHANGED <<doc, files, session, state, todo, fBeBoardFWMap, fSettingsMap, raw, attempts,
                 configures, ignored, dumped>>

CopyBoard(board, r, v) == [board EXCEPT !.regs = (r :> v) @@ @]
\* WriteBoardReg(): the board, and its register map, from which ConfigureHw() writes.
ChangeBoard(b, r, v) ==
  /\ Tooling
  /\ hw' = WriteBoard(hw, Where(fBoardVector[b]), r :> v)
  /\ fBoardVector' = [fBoardVector EXCEPT ![b] = CopyBoard(@, r, v)]
  /\ changes' = changes + 1
  /\ UNCHANGED <<doc, files, session, state, todo, fBeBoardFWMap, fSettingsMap, fCbcInterface,
                 raw, attempts, configures, ignored, dumped>>

\* An event is read: the condition data are brought up to date with it.
Event(b, tdc) ==
  /\ Tooling /\ fBoardVector[b].cond # <<>>
  /\ fBoardVector' = [fBoardVector EXCEPT ![b].cond = updateCondData(fBoardVector[b].modules, @, tdc)]
  /\ changes' = changes + 1
  /\ UNCHANGED <<doc, files, session, state, todo, fBeBoardFWMap, fSettingsMap, fCbcInterface,
                 hw, raw, attempts, configures, ignored, dumped>>

\* dumpConfigFiles(): the name of a file is made of the FE and the chip, not of
\* the board, so of two chips with one name the later one stays.
NameOf(fe, id) == (("FE" \o ToString(fe)) \o "CBC") \o ToString(id)
dumpConfigFiles ==
  /\ state = "ready" /\ dumped = <<>> /\ ~ignored /\ session < MaxSessions
  /\ \E b \in Boards : CountOf(fBoardVector[b], "cbc") > 0
  /\ LET cbcs == FoldLeft(LAMBDA s, board :
                   s \o FoldLeft(LAMBDA t, m : t \o [k \in DOMAIN m.cbc |-> <<m.fe, m.cbc[k]>>],
                                 <<>>, board.modules), <<>>, fBoardVector)
         Save(f, c) == (<<"results", NameOf(c[1], c[2].id)>> :> saveRegMap(c[2].map, c[2].comments)) @@ f
     IN  files' = FoldLeft(Save, files, cbcs)
  /\ dumped' = [u \in DOMAIN hw |-> hw[u].chips]
  /\ UNCHANGED <<doc, session, state, todo, fBoardVector, fBeBoardFWMap, fSettingsMap,
                 fCbcInterface, hw, raw, attempts, configures, changes, ignored>>

\* Destroy() closes the only file handler the controller knows of; those of the
\* boards stay with the firmware objects, which are not deleted either.
Destroy ==
  /\ state \in {"initialized", "ready"}
  /\ state' = "destroyed" /\ fBoardVector' = <<>> /\ fBeBoardFWMap' = <<>> /\ fSettingsMap' = <<>>
  /\ fCbcInterface' = NoBoardYet
  /\ UNCHANGED <<doc, files, session, todo, hw, raw, attempts, configures, changes, ignored, dumped>>

\* The next session: the user gives each CBC the file that was saved for it,
\* and takes the settings out of the description.
SavedNodes(module) ==
  LET cbcs == SelectSeq(module.nodes, LAMBDA n : n.tag = "CBC")
  IN  <<[tag |-> "CBC_Files", path |-> "results"]>> \o
        [k \in DOMAIN cbcs |-> [tag |-> "CBC", id |-> Id(cbcs[k]),
                                file |-> NameOf(module.fe, Id(cbcs[k]))]]
Edited(node) ==
  [node EXCEPT !.modules = [i \in DOMAIN node.modules |->
     [node.modules[i] EXCEPT !.nodes = SavedNodes(node.modules[i])]]]
NextSession ==
  /\ state \in {"destroyed", "exit"} /\ dumped # <<>> /\ session < MaxSessions
  /\ session' = session + 1 /\ state' = "start" /\ todo' = <<>>
  /\ doc' = [doc EXCEPT !.boards = [b \in DOMAIN @ |-> Edited(@[b])]]
  /\ fBoardVector' = <<>> /\ fBeBoardFWMap' = <<>> /\ fSettingsMap' = <<>> /\ fCbcInterface' = NoBoardYet
  /\ raw' = {} /\ attempts' = 0 /\ configures' = 0 /\ changes' = 0 /\ ignored' = FALSE
  /\ UNCHANGED <<files, hw, dumped>>

Work ==
  \/ ParseBoard \/ ParseFails \/ Parsed
  \/ HardReset \/ FastReset \/ CommandReset \/ WriteStackReg
  \/ SlotOff \/ SetValue \/ SlotOn \/ LoadConfig \/ EventType \/ Ping
  \/ TuneBegin \/ Align \/ NothingToAlign \/ AlignExits \/ TuneEnd \/ ResetReadout \/ HoleMode
  \/ Configure \/ NoBoard \/ Configured
User ==
  \/ \E ignore \in BOOLEAN : ConfigureHw(ignore)
  \/ \E b \in Boards : \E i \in DOMAIN fBoardVector[b].modules :
       \E k \in DOMAIN fBoardVector[b].modules[i].cbc : \E c \in Changes : ChangeChip(b, i, k, c[1], c[2])
  \/ \E b \in Boards : \E c \in BoardChanges : ChangeBoard(b, c[1], c[2])
  \/ \E b \in Boards : \E tdc \in 0..1 : Event(b, tdc)
  \/ dumpConfigFiles \/ Destroy \/ NextSession
SetUpNext == Work \/ User \/ \E u \in DOMAIN hw : Calibrated(u)
=============================================================================
