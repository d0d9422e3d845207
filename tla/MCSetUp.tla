------------------------------- MODULE MCSetUp -------------------------------
(***************************************************************************)
(* Instances for TLC of the set-up of a system from its description, of    *)
(* the power utility of the MPA and SSA, and of the S-curve of the MPA.    *)
(***************************************************************************)
EXTENDS SystemSetUp, PsRegisters, MpaCounters, MpaLight

CONSTANT Docs           \* the descriptions of this run
VARIABLE program
ps == <<psVars, registerVars>>
vars == <<program, setUpVars, ps, countersVars>>

-----------------------------------------------------------------------------
(* Descriptions: boards, files, chips.                                     *)
Cbc3(vth) ==
  <<Comment("* CBC3"),
    Register("FrontEndControl", 0, 0, 60, 60),
    Register("TriggerLatency1", 0, 1, 200, 201),
    Register("FeCtrl_TrgLat2", 0, 2, 60, 77),
    Comment("* pulse and stubs"),
    Register("TestPulsePotNodeSel", 0, 3, 0, 7),
    Register("TestPulseDel_ChanGroup", 0, 4, 0, 8),
    Register("MiscTestPulseCtrl_AnalogMux", 0, 5, 0, 83),
    Register("Pipe_StubInpSel_Ptwidth", 0, 6, 3, 19),
    Register("LayerSwap_CluWidth", 0, 7, 4, 4),
    Register("CoincWind_Offset34", 0, 8, 0, 17),
    Register("CoincWind_Offset12", 0, 9, 0, 18),
    Register("Clk40_Or254", 0, 10, 0, 64),
    Register("HIP_TestMode", 0, 11, 0, 24),
    Register("MaskA", 0, 12, 255, 255),
    Register("MaskB", 0, 13, 255, 127),
    Register("BandgapFuse", 0, 14, 0, 9),
    Register("VCth1", 0, 15, 0, vth),
    Register("VCth2", 0, 16, 0, 2),
    Comment("* offsets"),
    Register("Channel001", 1, 1, 128, 120),
    Register("Channel002", 1, 2, 128, 121)>>
Cbc2 ==
  <<Register("TriggerLatency", 0, 1, 1, 2), Register("VCth", 0, 2, 120, 110),
    Register("TestPulsePot", 0, 3, 0, 1), Register("SelTestPulseDel_ChanGroup", 0, 4, 0, 2),
    Register("MiscTestPulseCtrl_AnalogMux", 0, 5, 0, 5), Register("CwdWindow_Coincid", 0, 6, 0, 3),
    Register("MiscStubLogic", 0, 7, 0, 21), Register("MaskA", 0, 8, 255, 255),
    Register("MaskB", 0, 9, 255, 255), Register("Channel001", 1, 1, 128, 99)>>
Ps == <<Comment("* pixels"), Register("ReadoutMode", 0, 1, 0, 1), Register("ECM", 0, 2, 8, 129),
        Register("ThDAC0", 0, 3, 0, 90)>>
AllDisk == [f \in {<<"dir", n>> : n \in {"a", "b", "c2", "ps"}} |->
  CASE f[2] = "a" -> Cbc3(100) [] f[2] = "b" -> Cbc3(140) [] f[2] = "c2" -> Cbc2 [] f[2] = "ps" -> Ps]
AllMasks == [t \in {"CBC2", "CBC3"} |-> <<"MaskA", "MaskB", "MaskC", "MaskD", "MaskE", "MaskF">>]

Chips == [uri \in {"cbc3", "cbc2", "mpa", "ssa"} |->
            CASE uri = "cbc3" -> {<<0, 0>>, <<1, 0>>, <<1, 1>>}
              [] uri = "cbc2" -> {<<0, 0>>} [] OTHER -> {<<0, 0>>, <<0, 1>>}]
Firmware == [uri \in DOMAIN Chips |-> CASE uri = "cbc3" -> "CBC3" [] uri = "cbc2" -> "CBC2"
                                        [] uri = "mpa" -> "MPA" [] OTHER -> "SSA"]
Dio5Cards == [uri \in DOMAIN Chips |-> IF uri = "cbc3" THEN {"l8", "l12"} ELSE {}]
Defaults(lines) == [r \in DOMAIN fRegMap(lines) |-> fRegMap(lines)[r].def]
AllDefaults == [t \in {"CBC3", "CBC2", "MPA", "SSA"} |->
  CASE t = "CBC3" -> Defaults(Cbc3(0)) [] t = "CBC2" -> Defaults(Cbc2) [] OTHER -> Defaults(Ps)]

Dir(tag)     == [tag |-> tag, path |-> "dir"]
Chip(tag, id, file) == [tag |-> tag, id |-> id, file |-> file]
Module(fe, nodes)   == [status |-> TRUE, fe |-> fe, nodes |-> nodes]
Conf == [Settings |-> [threshold |-> 300, latency |-> 267],
         TestPulse |-> [enable |-> 1, polarity |-> 0, groundothers |-> 1, amplitude |-> 90,
                        channelgroup |-> 3, delay |-> 11],
         ClusterStub |-> [clusterwidth |-> 3, ptwidth |-> 9, layerswap |-> 1, off1 |-> 1,
                          off2 |-> 2, off3 |-> 3, off4 |-> 4],
         Misc |-> [analogmux |-> 6, pipelogic |-> 1, stublogic |-> 2, or254 |-> 1,
                   tpgclock |-> 1, testclock |-> 0, dll |-> 5],
         ChannelMask |-> [disable |-> <<3, 12, 255, 0, 256 + 4>>]]
Global(conf)    == [tag |-> "Global", conf |-> conf]
GlobalReg(r, v) == [tag |-> "Global_CBC_Register", name |-> r, value |-> v]
Glob == [Settings |-> [threshold |-> 500, latency |-> 20],
         ChannelMask |-> [disable |-> <<1, 9>>]]

Value(name, v) == [name |-> name, value |-> v]
Regs(dio5) == <<[name |-> "fast", nodes |-> <<Value("rate", 10), Value("mux", 2), Value("rate", 4)>>],
                Value("dio5_en", dio5)>>
Board3(id, modules, dio5) ==
  [id |-> id, boardType |-> "D19C", uri |-> "cbc3", regs |-> Regs(dio5), modules |-> modules]
Cond(type, fe, cbc, reg, uid, v) ==
  [type |-> type, fe |-> fe, cbc |-> cbc, reg |-> reg, uid |-> uid, value |-> v]
Conditions == <<Cond("I2C", 0, 0, "VCth1", 0, 0), Cond("TDC", 0, 0, "", 0, 0),
                Cond("HV", 0, 0, "", 0, 250), Cond("User", 1, 0, "", 130, 6),
                Cond("I2C", 1, 1, "TriggerLatency1", 0, 0)>>

Own    == [tag |-> "CBC", id |-> 0, file |-> "a", conf |-> Conf,
           regs |-> <<<<"VCth1", 33>>, <<"HIP_TestMode", 8>>, <<"Unknown", 1>>>>]
OwnTwo == [tag |-> "CBC", id |-> 0, file |-> "a", conf |-> [Settings |-> Conf.Settings]]
AsGlobal == <<Global(Glob), GlobalReg("VCth2", 1), GlobalReg("VCth2", 3)>>
Doc(boards, out) == [kind |-> "xml", boards |-> boards, raw |-> out,
                     settings |-> <<<<"HoleMode", 0>>, <<"Nevents", 9>>, <<"HoleMode", 1>>>>]
First0 == Module(0, <<Dir("CBC_Files"), Own>>)
Second == Module(1, AsGlobal \o <<Dir("CBC_Files"), Chip("CBC", 0, "a"), Chip("CBC", 1, "b")>>)
Off    == [Second EXCEPT !.status = FALSE]
Good == {
  Doc(<<Board3(0, <<First0, Off, Second>>, 1) @@ [slink |-> Conditions]>>, "run.raw"),
  Doc(<<Board3(0, <<Second, First0>>, 0) @@ [eventType |-> "ZS"]>>, "none"),
  Doc(<<[Board3(0, <<Module(0, <<Dir("MPA_Files"), Chip("MPA", 0, "ps"), Chip("MPA", 1, "ps")>>)>>, 0)
         EXCEPT !.uri = "mpa"]>>, "run"),
  Doc(<<[Board3(0, <<Module(0, <<Dir("SSA_Files"), Chip("SSA", 0, "ps"), Chip("SSA", 5, "ps")>>)>>, 0)
         EXCEPT !.uri = "ssa"]>>, "run.raw"),
  Doc(<<[Board3(0, <<Module(0, <<Dir("CBC_Files"), [Own EXCEPT !.file = "c2", !.regs = <<<<"VCth", 50>>>>]>>)>>, 0)
         EXCEPT !.uri = "cbc2", !.boardType = "GLIB"]>>, "run")}
-----------------------------------------------------------------------------
\* Descriptions with which the program does not get to the end.
Bad == {
  [kind |-> "broken", boards |-> <<>>, raw |-> "none", settings |-> <<>>],
  [kind |-> "other", boards |-> <<>>, raw |-> "none", settings |-> <<>>],
  Doc(<<Board3(0, <<Module(0, <<Dir("CBC_Files"), Chip("CBC", 0, "missing")>>)>>, 0)>>, "none"),
  Doc(<<[Board3(0, <<First0>>, 0) EXCEPT !.boardType = "FC8"]>>, "none"),
  Doc(<<[id |-> 0, uri |-> "cbc3", regs |-> <<>>, modules |-> <<First0>>]>>, "none"),
  Doc(<<Board3(3, <<First0>>, 0)>>, "none"),
  Doc(<<Board3(0, <<First0>>, 0) @@ [slink |-> <<Cond("I2C", 0, 0, "Vcth9", 0, 0)>>]>>, "none"),
  \* a global register after the chips is taken for a chip
  Doc(<<Board3(0, <<Module(0, <<Dir("CBC_Files"), Own, GlobalReg("VCth2", 1)>>)>>, 0)>>, "none"),
  Doc(<<Board3(0, <<First0, Module(1, <<Dir("MPA_Files"), Chip("MPA", 0, "ps")>>)>>, 0)>>, "run")}
Both == Good \cup Bad
\* Two chips of a module, the first with settings of its own.
TwoChips == {Doc(<<Board3(0, <<Module(1, <<Dir("CBC_Files"), OwnTwo, Chip("CBC", 1, "b")>>)>>, 0)>>, "none")}

ToolWrites  == {<<"VCth1", 12>>}
BoardWrites == {<<<<"fast", "rate">>, 77>>}
Rates == [t \in 0..4 |-> (<<80, 70, 60, 3, 0>>)[t + 1]]

(* The MPA's registers: addresses of settings/MPAFiles/MPA_default.txt.    *)
AllAddr == [ENFLAGS |-> 0, ModeSel |-> 1, ReadoutMode |-> 34816, ECM |-> 34817,
  CalDAC0 |-> 34880, CalDAC1 |-> 34881, CalDAC2 |-> 34882, CalDAC3 |-> 34883,
  CalDAC4 |-> 34884, CalDAC5 |-> 34885, CalDAC6 |-> 34886,
  ThDAC0 |-> 34887, ThDAC1 |-> 34888, ThDAC2 |-> 34889, ThDAC3 |-> 34890,
  ThDAC4 |-> 34891, ThDAC5 |-> 34892, ThDAC6 |-> 34893]
NamesSorted == <<"CalDAC0", "CalDAC1", "CalDAC2", "CalDAC3", "CalDAC4", "CalDAC5", "CalDAC6",
            "ECM", "ENFLAGS", "ModeSel", "ReadoutMode",
            "ThDAC0", "ThDAC1", "ThDAC2", "ThDAC3", "ThDAC4", "ThDAC5", "ThDAC6">>
OnePixel == {<<16, 119>>}
AllOperations == {
  Set_threshold(0, 90), Set_calibration(1, 50) \o Enable_pix_sync(1, <<16, 119>>),
  Activate_async(0) \o Activate_ps(0), Activate_sync(1) \o Activate_pp(0),
  Enable_pix_counter(0, <<16, 119>>) \o Disable_pixel(0, <<16, 119>>) \o Enable_pix_digi(0, <<16, 119>>),
  Enable_pix_BRcal(0, <<16, 119>>, "fall", "level") \o <<ReadMPAMultReg(0, <<"ECM", "ReadoutMode">>)>>,
  Activate_ss(0) \o <<ReadMPAReg(0, "ECM"), ReadMPA(0)>>,
  <<WriteMPAMultReg(0, <<<<"ECM", 8>>, <<"ThDAC0", 7>>>>, TRUE), WriteMPAMultReg(0, <<<<"ECM", 1>>>>, FALSE), WriteSSAReg(1, "ECM", 8), ReadSSAReg(0, "ECM")>>}
\* Of the pixels of the chip, no two registers share an address, and none has
\* that of a register of the periphery.
ASSUME PixelsApart ==
  LET all == {<<n, r, p>> : n \in {"ENFLAGS", "ModeSel"}, r \in 0..16, p \in 0..119}
      used == {PixelAddress(x[1], x[2], x[3]) : x \in all}
  IN  Cardinality(used) = Cardinality(all) /\ \A a \in used : a < Addr["ReadoutMode"]

-----------------------------------------------------------------------------
(* The MPA light, which the runs check as assumptions.                     *)
BitsOf(n) == {b \in 0..30 : (n \div 2^b) % 2 = 1}
FileNodes == <<<<"OM", BitsOf(3)>>, <<"RT", BitsOf(2)>>, <<"THDAC", BitsOf(130)>>>>
ColumnNodes == <<<<"PML", BitsOf(1)>>, <<"TRIMDACL", BitsOf(21)>>, <<"CW", BitsOf(2)>>, <<"SR", BitsOf(1)>>>>
LightConf == ReadConfig(FileNodes, <<<<1, ColumnNodes>>, <<9, ColumnNodes>>>>)
\* To modify a configuration with what its file says of a word changes nothing,
\* whatever the order of the list.
ASSUME LightConfigurations ==
  /\ LightConf[0] = {0, 1} \cup {3} \cup {25, 31}
  /\ \A m \in SetToAllKPermutations(ToSet(FileNodes)) : ModifyPerif(m, LightConf) = LightConf
  /\ \A n \in {1, 9} : \A m \in SetToAllKPermutations(ToSet(ColumnNodes)) :
       ModifyPix(m, LightConf, n) = LightConf
\* Hits that a chip has stored, from the top of its memory, are read back, up to
\* the first place without a header.
LightHits == [x \in 0..95 |-> [up |-> x # 40, bx |-> BitsOf((x * 689) % 65536),
                               hits |-> {(7 * x) % 48, (11 * x + 5) % 48, 47}]]
LightMemory ==
  [w \in 0..215 |-> {k \in 0..31 :
    LET g == (32 * w) + k  e == LightHits[95 - (g \div 72)]  q == g % 72
    IN  IF q < 48 THEN q \in e.hits ELSE IF q < 64 THEN q - 48 \in e.bx ELSE e.up}]
ASSUME LightMemories ==
  LET read == ReadMemory(Pieces(LightMemory), 3)
  IN  \A x \in 0..95 : /\ read.BX[x] = (IF x < 40 THEN LightHits[x].bx ELSE {})
                       /\ read.data[x] = (IF x < 40 THEN LightHits[x].hits ELSE {})
ASSUME LightCounters ==
  LET two(n) == BitsOf(n) \cup {b + 16 : b \in BitsOf(n + 1)}
      read == Counters([i \in 0..24 |-> two(2 * (i - 1))])
  IN  \A i \in 0..47 : read[i] = BitsOf(i)
\* Every chip of an event has its own data if the modules have as many chips.
\* The offsets are read in pages of the beam and of the MPAs by turns, and the
\* event takes the first half of the pages for the beam's.
ASSUME LightEvents ==
  LET event == SetEvent(<<6, 6>>, TakeBuffer(<<6, 6>>))
  IN  /\ \A c \in DOMAIN event.fEventDataMap : event.fEventDataMap[c] = ReadMPAlightData(c[1], c[2])
      /\ event.ftrigger_offset_BEAM =
           [i \in 1..2048 |-> <<IF ((i - 1) \div 256) % 2 = 0 THEN "BEAM" ELSE "MPA",
                                ((i - 1) \div 512) + 1, ((i - 1) % 256) + 1>>]
-----------------------------------------------------------------------------
\* The other programs have no part in the set-up.
NoSetUp ==
  /\ doc = None /\ state = None /\ fCbcInterface = NoBoardYet /\ ignored = FALSE
  /\ files = <<>> /\ todo = <<>> /\ raw = <<>> /\ hw = <<>> /\ dumped = <<>>
  /\ fBoardVector = <<>> /\ fBeBoardFWMap = <<>> /\ fSettingsMap = <<>>
  /\ session = 0 /\ attempts = 0 /\ configures = 0 /\ changes = 0
Init == /\ \/ program = "setup" /\ InitSetUp
           \/ program \in {"power", "counters"} /\ NoSetUp
        /\ InitRegisters /\ InitCounters
InSetUp(A)    == program = "setup" /\ A /\ UNCHANGED <<program, ps, countersVars>>
InPower(A)    == program = "power" /\ A /\ UNCHANGED <<program, setUpVars, countersVars>>
InCounters(A) == program = "counters" /\ A /\ UNCHANGED <<program, setUpVars, ps>>
Next == InSetUp(SetUpNext) \/ InPower(RegisterNext) \/ InCounters(CountersNext)
Spec == Init /\ [][Next]_vars
-----------------------------------------------------------------------------
(* What a description says of a register, bit by bit: claims of the chip's *)
(* own settings, its registers, the global settings and the global         *)
(* registers, each of which goes before those named earlier.               *)
Rev(v, n) == FoldFunctionOnSet(LAMBDA a, b : a + b, 0, [k \in 0..(n - 1) |-> Bit(v, k) * 2^(n - 1 - k)], 0..(n - 1))
Said(level, i, reg, lo, n, v) == [level |-> level, i |-> i, reg |-> reg, lo |-> lo, n |-> n, v |-> v]
SaidBySettings(level, type, conf) ==
  LET S(reg, lo, n, v) == Said(level, 0, reg, lo, n, v)
      Of(kind) == kind \in DOMAIN conf
      s == conf.Settings  t == conf.TestPulse  c == conf.ClusterStub  m == conf.Misc
      amux == "MiscTestPulseCtrl_AnalogMux"
      Masked == {x \in {conf.ChannelMask.disable[k] % 256 : k \in DOMAIN conf.ChannelMask.disable} : x \in 1..254}
      pulse(pot, del) == {S(pot, 0, 8, t.amplitude), S(del, 0, 3, Rev(t.channelgroup, 3)), S(del, 3, 5, Rev(t.delay, 5)),
                          S(amux, 7, 1, t.polarity), S(amux, 6, 1, t.enable), S(amux, 5, 1, t.groundothers)}
      mask == {S(ChannelMaskMap[type][((x - 1) \div 8) + 1], (x - 1) % 8, 1, 0) : x \in Masked}
  IN  UNION {
        IF ~Of("Settings") THEN {}
        ELSE IF type = "CBC2" THEN {S("VCth", 0, 8, s.threshold), S("TriggerLatency", 0, 8, s.latency)}
        ELSE {S("VCth1", 0, 8, s.threshold % 256), S("VCth2", 0, 8, s.threshold \div 256),
              S("TriggerLatency1", 0, 8, s.latency % 256), S("FeCtrl_TrgLat2", 0, 1, s.latency \div 256)},
        IF ~Of("TestPulse") THEN {}
        ELSE IF type = "CBC2" THEN pulse("TestPulsePot", "SelTestPulseDel_ChanGroup")
        ELSE pulse("TestPulsePotNodeSel", "TestPulseDel_ChanGroup"),
        IF ~Of("ClusterStub") THEN {}
        ELSE IF type = "CBC2"
        THEN {S("CwdWindow_Coincid", 0, 6, c.off1), S("CwdWindow_Coincid", 6, 2, c.clusterwidth),
              S("MiscStubLogic", 4, 4, c.ptwidth)}
        ELSE {S("Pipe_StubInpSel_Ptwidth", 0, 4, c.ptwidth), S("LayerSwap_CluWidth", 0, 3, c.clusterwidth),
              S("LayerSwap_CluWidth", 3, 5, c.layerswap), S("CoincWind_Offset34", 0, 4, c.off3),
              S("CoincWind_Offset34", 4, 4, c.off4), S("CoincWind_Offset12", 0, 4, c.off1),
              S("CoincWind_Offset12", 4, 4, c.off2)},
        IF ~Of("Misc") THEN {} ELSE {S(amux, 0, 5, m.analogmux)} \cup
          (IF type = "CBC2" THEN {}
           ELSE {S("Clk40_Or254", 7, 1, m.tpgclock), S("Clk40_Or254", 6, 1, m.or254), S("Clk40_Or254", 5, 1, m.testclock),
                 S("Clk40_Or254", 0, 5, Rev(m.dll, 5)), S("Pipe_StubInpSel_Ptwidth", 6, 2, m.pipelogic),
                 S("Pipe_StubInpSel_Ptwidth", 4, 2, m.stublogic)}),
        IF ~Of("ChannelMask") THEN {} ELSE mask}

SaidOf(nodes, node, type) ==
  LET globals == SelectSeq(nodes, LAMBDA n : n.tag = "Global_CBC_Register")
  IN  (IF "conf" \in DOMAIN node THEN SaidBySettings(1, type, node.conf) ELSE {})
        \cup {Said(2, i, node.regs[i][1], 0, 8, node.regs[i][2]) :
                 i \in IF "regs" \in DOMAIN node THEN DOMAIN node.regs ELSE {}}
        \cup UNION {SaidBySettings(3, type, nodes[i].conf) : i \in Tagged(nodes, "Global")}
        \cup {Said(4, i, globals[i].name, 0, 8, globals[i].value) : i \in DOMAIN globals}
Described(nodes, node, type, reg, file) ==
  LET claims == {c \in SaidOf(nodes, node, type) : c.reg = reg}
      Value8(k) == LET over == {c \in claims : k \in c.lo..(c.lo + c.n - 1)}
                   IN  IF over = {} THEN Bit(file, k)
                       ELSE LET top == CHOOSE c \in over : \A d \in over :
                                         c.level > d.level \/ (c.level = d.level /\ c.i >= d.i)
                            IN  Bit(top.v, k - top.lo)
  IN  FoldFunctionOnSet(LAMBDA a, b : a + b, 0, [k \in 0..7 |-> Value8(k) * 2^k], 0..7)

\* The chips that board b of the description says there are, with their nodes.
ChipNodes(b) ==
  UNION {{<<b.modules[i], k>> : k \in {j \in DOMAIN b.modules[i].nodes : b.modules[i].nodes[j].tag \in {"CBC", "MPA", "SSA"}}} :
            i \in {j \in DOMAIN b.modules : b.modules[j].status}}

\* When ConfigureHw() has configured the chips, a register of a chip has the
\* bits the description gives it (chip settings before the file, the chip's
\* registers before those, then the global settings, then the global registers;
\* CHANGELOG of v1-10), or what a tool has written since; the fuses excepted.
ChipsAsDescribed ==
  (program = "setup" /\ state = "ready" /\ ~ignored /\ session = 1) =>
    \A i \in DOMAIN doc.boards : \A c \in ChipNodes(doc.boards[i]) :
      LET b == doc.boards[i]
          nodes == c[1].nodes
          node == nodes[c[2]]
          at == <<c[1].fe, node.id>>
          lines == SelectSeq(AllDisk[<<"dir", node.file>>], LAMBDA l : ~l.comment)
      IN  at \in Present[b.uri] => \A k \in DOMAIN lines : lines[k].name \notin Fuses =>
            LET v == hw[b.uri].chips[at][lines[k].name]
            IN  \/ v = Described(nodes, node, FirmwareChip[b.uri], lines[k].name, lines[k].value)
                \/ changes > 0 /\ <<lines[k].name, v>> \in Changes

\* A session that is given the files of an earlier one configures every chip to
\* what it was when the files were saved.
Reproduced ==
  (program = "setup" /\ state = "ready" /\ ~ignored /\ session = 2)
    => \A u \in DOMAIN hw : hw[u].chips = dumped[u]

\* The condition data that go out with an event are those of the chips at that time.
ConditionsCurrent ==
  [][\A b \in Boards : (~ignored /\ \E tdc \in 0..1 : Event(b, tdc)) =>
       \A i \in DOMAIN fBoardVector[b].cond :
         LET c == fBoardVector'[b].cond[i]
         IN  (c.uid = 1 /\ <<c.fe, c.cbc>> \in Present[Where(fBoardVector[b])]) =>
                c.value = hw[Where(fBoardVector[b])].chips[<<c.fe, c.cbc>>][c.reg]]_vars

=============================================================================
