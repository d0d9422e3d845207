-------------------------- MODULE DescriptionParser --------------------------
(***************************************************************************)
(* FileParser: from the xml description of a set-up to the boards, modules *)
(* and chips of the hardware description.                                  *)
(*                                                                         *)
(* A document is a record: its kind ("xml", "broken" or "other"), the      *)
(* BeBoard nodes and the settings.  The children of a Module node are a    *)
(* sequence, because the parser looks for the first child with a tag and   *)
(* then walks over ALL the siblings that follow it.  A child carries the   *)
(* attributes of its tag; its settings (Settings, TestPulse, ClusterStub,  *)
(* Misc, ChannelMask) are records of attributes, and an attribute that is  *)
(* not there converts to 0.                                                *)
(***************************************************************************)
EXTENDS Integers, Sequences, FiniteSets, RegisterFile

CONSTANT ChannelMaskMap      \* type of chip -> its mask registers, in order

BoardTypes == {"GLIB", "CTA", "ICGLIB", "ICFC7", "CBC3FC7", "D19C", "MPAlightGLIB"}

Attr(node, name) == IF name \in DOMAIN node THEN node[name] ELSE 0
Bit(v, k)        == (v \div 2^k) % 2
Field(v, lo, n)  == ((v \div 2^lo) % 2^n) * 2^lo
reverseBits(v)   == FoldFunctionOnSet(LAMBDA a, b : a + b, 0,
                                      [k \in 0..7 |-> Bit(v, k) * 2^(7 - k)], 0..7)

-----------------------------------------------------------------------------
(* parseCbcSettings(): each settings node gives values to registers, some  *)
(* of which keep the bits the node does not speak of.                      *)

ThresholdRegs(type, a, map) ==
  LET vth == Attr(a, "threshold") % 65536
      lat == Attr(a, "latency") % 65536
  IN  IF type = "CBC2" THEN [VCth |-> vth, TriggerLatency |-> lat]
      ELSE [VCth1 |-> vth % 256, VCth2 |-> Field(vth, 8, 2) \div 256,
            TriggerLatency1 |-> lat % 256,
            FeCtrl_TrgLat2 |-> Field(getReg(map, "FeCtrl_TrgLat2"), 1, 7) + Bit(lat, 8)]

PulseRegs(type, a, map) ==
  LET group == reverseBits((Attr(a, "channelgroup") % 8) * 32 + (Attr(a, "delay") % 32))
      mux   == Bit(Attr(a, "polarity"), 0) * 128 + Bit(Attr(a, "enable"), 0) * 64
                 + Bit(Attr(a, "groundothers"), 0) * 32
                 + (getReg(map, "MiscTestPulseCtrl_AnalogMux") % 32)
  IN  IF type = "CBC2"
      THEN [TestPulsePot |-> Attr(a, "amplitude"), SelTestPulseDel_ChanGroup |-> group,
            MiscTestPulseCtrl_AnalogMux |-> mux]
      ELSE [TestPulsePotNodeSel |-> Attr(a, "amplitude"), TestPulseDel_ChanGroup |-> group,
            MiscTestPulseCtrl_AnalogMux |-> mux]

StubRegs(type, a, map) ==
  IF type = "CBC2"
  THEN [CwdWindow_Coincid |-> (Attr(a, "clusterwidth") % 4) * 64 + (Attr(a, "off1") % 64),
        MiscStubLogic |-> (Attr(a, "ptwidth") % 16) * 16 + (getReg(map, "MiscStubLogic") % 16)]
  ELSE [Pipe_StubInpSel_Ptwidth |-> Field(getReg(map, "Pipe_StubInpSel_Ptwidth"), 4, 4)
                                      + (Attr(a, "ptwidth") % 16),
        LayerSwap_CluWidth |-> Bit(Attr(a, "layerswap"), 0) * 8 + (Attr(a, "clusterwidth") % 8),
        CoincWind_Offset34 |-> (Attr(a, "off4") % 16) * 16 + (Attr(a, "off3") % 16),
        CoincWind_Offset12 |-> (Attr(a, "off2") % 16) * 16 + (Attr(a, "off1") % 16)]

MiscRegs(type, a, map) ==
  LET mux == Field(getReg(map, "MiscTestPulseCtrl_AnalogMux"), 5, 3) + (Attr(a, "analogmux") % 32)
      dll == reverseBits(Attr(a, "dll") % 32) \div 8
  IN  IF type = "CBC2" THEN [MiscTestPulseCtrl_AnalogMux |-> mux]
      ELSE [Clk40_Or254 |-> Bit(Attr(a, "tpgclock"), 0) * 128 + Bit(Attr(a, "or254"), 0) * 64
                              + Bit(Attr(a, "testclock"), 0) * 32 + dll,
            Pipe_StubInpSel_Ptwidth |-> (Attr(a, "pipelogic") % 4) * 64
                              + (Attr(a, "stublogic") % 4) * 16
                              + (getReg(map, "Pipe_StubInpSel_Ptwidth") % 16),
            MiscTestPulseCtrl_AnalogMux |-> mux]

\* ChannelMask: channels 1 to 254 clear their bit in their register.
MaskRegs(type, a, map) ==
  LET channels == {c \in {a.disable[i] % 256 : i \in DOMAIN a.disable} : c \in 1..254}
      Of(r)    == {c \in channels : ChannelMaskMap[type][((c - 1) \div 8) + 1] = r}
      Off(r)   == FoldFunctionOnSet(LAMBDA x, y : x + y, 0,
                    [c \in Of(r) |-> Bit(getReg(map, r), (c - 1) % 8) * 2^((c - 1) % 8)], Of(r))
  IN  [r \in {ChannelMaskMap[type][((c - 1) \div 8) + 1] : c \in channels}
         |-> getReg(map, r) - Off(r)]

Settings(kind, type, a, map) ==
  CASE kind = "Settings"    -> ThresholdRegs(type, a, map)
    [] kind = "TestPulse"   -> PulseRegs(type, a, map)
    [] kind = "ClusterStub" -> StubRegs(type, a, map)
    [] kind = "Misc"        -> MiscRegs(type, a, map)
    [] kind = "ChannelMask" -> MaskRegs(type, a, map)

parseCbcSettings(conf, type, map) ==
  FoldLeft(LAMBDA m, kind : IF kind \in DOMAIN conf
                            THEN SetRegs(m, Settings(kind, type, conf[kind], m)) ELSE m,
           map, <<"Settings", "TestPulse", "ClusterStub", "Misc", "ChannelMask">>)

-----------------------------------------------------------------------------
(* The chips of a Module node.                                             *)

Tagged(nodes, tag) == {i \in DOMAIN nodes : nodes[i].tag = tag}
First(nodes, tag)  == IF Tagged(nodes, tag) = {} THEN Len(nodes) + 1
                      ELSE CHOOSE i \in Tagged(nodes, tag) : \A j \in Tagged(nodes, tag) : i <= j
\* child(tag), then next_sibling() to the end
From(nodes, tag)   == SubSeq(nodes, First(nodes, tag), Len(nodes))
Prefix(nodes, tag) == IF Tagged(nodes, tag) = {} THEN "" ELSE nodes[First(nodes, tag)].path

\* The file of a chip: without a name it is the directory itself, which opens
\* and gives no line, or, without a directory, a file that does not exist.
Exists(files, path) == (path[1] # "" /\ path[2] = "") \/ path \in DOMAIN files
Lines(files, path)  == IF path[2] = "" THEN <<>> ELSE files[path]
File(node)          == IF "file" \in DOMAIN node THEN node.file ELSE ""
Id(node)            == IF "id" \in DOMAIN node THEN node.id ELSE 0
ChipTypeOf(map)     == IF "VCth2" \in DOMAIN map THEN "CBC3" ELSE "CBC2"
Nodes(node, name)   == IF name \in DOMAIN node THEN node[name] ELSE <<>>

\* Faulty variant: the registers of a chip are set before its settings.
CbcMap_RegistersFirst(nodes, node, map) ==
  LET first == nodes[First(nodes, "CBC")]
      conf  == IF "conf" \in DOMAIN first THEN first.conf ELSE <<>>
  IN  parseCbcSettings(conf, ChipTypeOf(map),
        FoldLeft(LAMBDA m, r : setReg(m, r[1], r[2]), map, Nodes(node, "regs")))

\* The settings are those of the module's FIRST CBC node, whichever chip it is.
CbcMap(nodes, node, map) ==
  LET first == nodes[First(nodes, "CBC")]
      conf  == IF "conf" \in DOMAIN first THEN first.conf ELSE <<>>
  IN  FoldLeft(LAMBDA m, r : setReg(m, r[1], r[2]),
               parseCbcSettings(conf, ChipTypeOf(map), map), Nodes(node, "regs"))

Cbc(files, nodes, node) ==
  LET path  == <<Prefix(nodes, "CBC_Files"), File(node)>>
      lines == Lines(files, path)
      map   == fRegMap(lines)
  IN  [id |-> Id(node), type |-> ChipTypeOf(map), path |-> path,
       map |-> CbcMap(nodes, node, map), comments |-> fCommentMap(lines)]

\* parseMPA() and parseSSA(): the file, and no settings.
PsChip(files, nodes, node, tag, prefix) ==
  LET path  == <<Prefix(nodes, prefix), File(node)>>
      lines == Lines(files, path)
  IN  [id |-> Id(node), type |-> tag, path |-> path,
       map |-> fRegMap(lines), comments |-> fCommentMap(lines)]

\* The Global_CBC_Register nodes end at the first CBC or CBC_Files node.
GlobalRegs(nodes) ==
  LET first == First(nodes, "Global_CBC_Register")
      stops == {i \in {First(nodes, "CBC"), First(nodes, "CBC_Files")} : i >= first}
      last  == IF stops = {} THEN Len(nodes) ELSE (CHOOSE i \in stops : \A j \in stops : i <= j) - 1
  IN  SubSeq(nodes, first, last)

parseGlobalCbcSettings(nodes, cbcs) ==
  LET Glob(c) == IF Tagged(nodes, "Global") = {} THEN c.map
                 ELSE parseCbcSettings(nodes[First(nodes, "Global")].conf, c.type, c.map)
      Set(m)  == FoldLeft(LAMBDA x, r : IF "name" \in DOMAIN r THEN setReg(x, r.name, r.value) ELSE x,
                          m, GlobalRegs(nodes))
  IN  [i \in DOMAIN cbcs |-> [cbcs[i] EXCEPT !.map = Set(Glob(cbcs[i]))]]

parseCbc(files, nodes) ==
  LET children == From(nodes, "CBC")
  IN  parseGlobalCbcSettings(nodes, [i \in DOMAIN children |-> Cbc(files, nodes, children[i])])
parseMPA(files, nodes) ==
  LET children == From(nodes, "MPA")
  IN  [i \in DOMAIN children |-> PsChip(files, nodes, children[i], "MPA", "MPA_Files")]
parseSSA(files, nodes) ==
  LET children == From(nodes, "SSA")
  IN  [i \in DOMAIN children |-> PsChip(files, nodes, children[i], "SSA", "SSA_Files")]

\* Loading a file that does not exist, and a module with chips of two types
\* (addCbc), end the program.
ModuleExits(files, node) ==
  LET nodes == node.nodes
      cbcs  == parseCbc(files, nodes)
      Missing(tag, prefix) ==
        \E i \in DOMAIN From(nodes, tag) :
           ~Exists(files, <<Prefix(nodes, prefix), File(From(nodes, tag)[i])>>)
  IN  \/ Missing("CBC", "CBC_Files") \/ Missing("MPA", "MPA_Files") \/ Missing("SSA", "SSA_Files")
      \/ \E i, j \in DOMAIN cbcs : cbcs[i].type # cbcs[j].type

\* Every chip gets the module's board identifier, and that is always 0: parseHWxml()
\* never gives cBeId the identifier of the board.
ModuleOf(files, node) ==
  [be |-> 0, fe |-> node.fe, cbc |-> parseCbc(files, node.nodes),
   mpa |-> parseMPA(files, node.nodes), ssa |-> parseSSA(files, node.nodes)]

-----------------------------------------------------------------------------
(* The registers of a board: a Register node with no value is a container. *)
RECURSIVE parseRegister(_, _)
parseRegister(prefix, node) ==
  LET name == Append(prefix, node.name)
  IN  IF "value" \in DOMAIN node THEN <<<<name, node.value>>>>
      ELSE FoldLeft(LAMBDA s, n : s \o parseRegister(name, n), <<>>, node.nodes)

BoardRegs(board) ==
  LET leaves == FoldLeft(LAMBDA s, n : s \o parseRegister(<<>>, n), <<>>, board.regs)
      LastOf(n) == CHOOSE i \in DOMAIN leaves :
                   leaves[i][1] = n /\ \A j \in DOMAIN leaves : leaves[j][1] = n => j <= i
  IN  [n \in {leaves[i][1] : i \in DOMAIN leaves} |-> leaves[LastOf(n)][2]]

\* parseSLink(): the condition data, with the value an I2C item has now.
ChipsAt(modules, fe, cbc) ==
  {<<i, k>> \in UNION {{i} \X DOMAIN modules[i].cbc : i \in DOMAIN modules} :
     modules[i].fe = fe /\ modules[i].cbc[k].id = cbc}
ChipValue(modules, c, old) ==
  IF ChipsAt(modules, c.fe, c.cbc) = {} THEN old
  ELSE LET at == CHOOSE p \in ChipsAt(modules, c.fe, c.cbc) :
                   \A q \in ChipsAt(modules, c.fe, c.cbc) :
                      q[1] < p[1] \/ (q[1] = p[1] /\ q[2] <= p[2])
       IN  getReg(modules[at[1]].cbc[at[2]].map, c.reg)
CondItem(modules, c) ==
  CASE c.type = "HV"   -> [uid |-> 5, fe |-> c.fe, cbc |-> c.cbc, reg |-> "", value |-> c.value]
    [] c.type = "TDC"  -> [uid |-> 3, fe |-> 255, cbc |-> 0, reg |-> "", value |-> 0]
    [] c.type = "User" -> [uid |-> c.uid, fe |-> c.fe, cbc |-> c.cbc, reg |-> "", value |-> c.value]
    [] c.type = "I2C"  -> [uid |-> 1, fe |-> c.fe, cbc |-> c.cbc, reg |-> c.reg,
                           value |-> ChipValue(modules, c, 0)]
parseSLink(board, modules) ==
  IF "slink" \notin DOMAIN board THEN <<>>
  ELSE [i \in DOMAIN board.slink |-> CondItem(modules, board.slink[i])]
\* getRegItem() throws for a register the chip does not have.
SLinkThrows(modules, items) ==
  \E i \in DOMAIN items : items[i].uid = 1 /\
     \E p \in ChipsAt(modules, items[i].fe, items[i].cbc) :
        items[i].reg \notin DOMAIN modules[p[1]].cbc[p[2]].map

\* updateCondData(): the items are brought up to date with an event, when one
\* of them is a TDC item or an I2C item (testEffort).
testEffort(items) == \E i \in DOMAIN items : items[i].uid \in {1, 3}
updateCondData(modules, items, tdc) ==
  IF ~testEffort(items) THEN items
  ELSE [i \in DOMAIN items |->
          CASE items[i].uid = 3 -> [items[i] EXCEPT !.value = tdc]
            [] items[i].uid = 1 -> [items[i] EXCEPT !.value = ChipValue(modules, items[i], @)]
            [] OTHER            -> items[i]]

-----------------------------------------------------------------------------
(* One BeBoard node.                                                       *)
Active(board) == SelectSeq(board.modules, LAMBDA m : m.status)
parseBeBoard(files, board) ==
  LET active  == Active(board)
      modules == [i \in DOMAIN active |-> ModuleOf(files, active[i])]
  IN  [id |-> board.id, type |-> board.boardType, uri |-> board.uri,
       event |-> IF "eventType" \in DOMAIN board /\ board.eventType = "ZS" THEN "ZS" ELSE "VR",
       regs |-> BoardRegs(board), modules |-> modules,
       cond |-> parseSLink(board, modules)]
BoardExits(files, board) ==
  \/ "boardType" \notin DOMAIN board
  \/ \E i \in DOMAIN Active(board) : ModuleExits(files, Active(board)[i])
BoardThrows(files, board) ==
  \/ board.boardType \notin BoardTypes
  \/ SLinkThrows(parseBeBoard(files, board).modules, parseBeBoard(files, board).cond)

\* parseSettingsxml(): of two settings with one name the later one stays.
parseSettings(doc) ==
  LET names == {doc.settings[i][1] : i \in DOMAIN doc.settings}
      LastOf(n) == CHOOSE i \in DOMAIN doc.settings :
                   doc.settings[i][1] = n /\ \A j \in DOMAIN doc.settings : doc.settings[j][1] = n => j <= i
  IN  [n \in names |-> doc.settings[LastOf(n)][2]]
=============================================================================
