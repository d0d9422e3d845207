------------------------------ MODULE MpaLight ------------------------------
(***************************************************************************)
(* The MPA light on the GLIB: MPAlightInterface and                        *)
(* MPAlightGlibFWInterface as MuModdaqtest uses them, and MPAlightEvent.   *)
(* What they compute, not the registers they write: the words of a         *)
(* configuration, the words of a read-out and what is made of them.        *)
(*                                                                         *)
(* A word is the set of its bits that are up, in 0..31.                    *)
(***************************************************************************)
EXTENDS Integers, Sequences, SequencesExt

AllUp == 0..31

(* The fields of a configuration word: where a field is, the bits of a new *)
(* value it has room for, and those that are taken of it.  The first field *)
(* of a word takes the whole value.                                        *)
LightField(at, bits) == [at |-> at, room |-> bits, taken |-> bits]
FirstField(bits) == [at |-> 0, room |-> bits, taken |-> AllUp]
PerifFields == [
  OM |-> FirstField(0..1), RT |-> LightField(2, 0..1), SCW |-> LightField(4, 0..3),
  SH2 |-> LightField(8, 0..3), SH1 |-> LightField(12, 0..3),
  CALDAC |-> LightField(16, 0..7), THDAC |-> LightField(24, 0..7)]
\* The columns 9 to 16 run the other way; of their CW there is one bit, the second.
MiddleFields == [
  PMR |-> FirstField({0}), ARR |-> LightField(1, {0}), TRIMDACL |-> LightField(2, 0..4),
  CER |-> LightField(7, {0}), SP |-> LightField(8, {0}), SR |-> LightField(9, {0}),
  PML |-> LightField(10, {0}), ARL |-> LightField(11, {0}), TRIMDACR |-> LightField(12, 0..4),
  CEL |-> LightField(17, {0}), CW |-> LightField(18, {1})]
OuterFields == [
  PML |-> FirstField({0}), ARL |-> LightField(1, {0}), TRIMDACL |-> LightField(2, 0..4),
  CEL |-> LightField(7, {0}), CW |-> LightField(8, 0..1), PMR |-> LightField(10, {0}),
  ARR |-> LightField(11, {0}), TRIMDACR |-> LightField(12, 0..4), CER |-> LightField(17, {0}),
  SP |-> LightField(18, {0}), SR |-> LightField(19, {0})]
PixFields(pixnum) == IF pixnum \in 9..16 THEN MiddleFields
                     ELSE IF pixnum \in 1..24 THEN OuterFields ELSE <<>>

Placed(f, v)  == {f.at + b : b \in v \cap f.taken}
Cleared(f, w) == w \ {f.at + b : b \in f.room}

\* ModifyPerif() and ModifyPix(): a list of names and values, in its order; a
\* name the word has not is passed over.
ModifyField(fields, w, name, v) ==
  IF name \in DOMAIN fields THEN Cleared(fields[name], w) \cup Placed(fields[name], v) ELSE w
ModifyWord(fields, mod, w) ==
  FoldLeft(LAMBDA now, m : ModifyField(fields, now, m[1], m[2]), w, mod)
ModifyPerif(mod, conf) == [conf EXCEPT ![0] = ModifyWord(PerifFields, mod, @)]
ModifyPix(mod, conf, pixnum) ==
  [conf EXCEPT ![pixnum] = ModifyWord(PixFields(pixnum), mod, @)]

\* ReadConfig(): the nodes of the file are laid one over the other, from zero
\* for a column and from -1 for the periphery, where the node of OM starts anew.
ReadColumn(pixnum, nodes) ==
  FoldLeft(LAMBDA w, m : IF m[1] \in DOMAIN PixFields(pixnum)
                         THEN w \cup Placed(PixFields(pixnum)[m[1]], m[2]) ELSE w, {}, nodes)
ReadPeriphery(nodes) ==
  FoldLeft(LAMBDA w, m : IF m[1] = "OM" THEN m[2]
                         ELSE IF m[1] \in DOMAIN PerifFields
                         THEN w \cup Placed(PerifFields[m[1]], m[2]) ELSE w, AllUp, nodes)
ReadConfig(periphery, columns) ==
  FoldLeft(LAMBDA conf, c : [conf EXCEPT ![c[1]] = ReadColumn(c[1], c[2])],
           [[n \in 0..24 |-> {}] EXCEPT ![0] = ReadPeriphery(periphery)], columns)

-----------------------------------------------------------------------------
(* The read-out of a chip: 25 words of counters, of which the first is a   *)
(* header, and 216 of memory.                                              *)

\* FormatData(): two counters a word, of fifty; the memory from its last word,
\* from the top bit, in 96 pieces of 72 bits.
Counters(counter_data) ==
  [i \in 0..49 |-> IF i > 47 THEN {}
                   ELSE {b \in 0..15 : b + (16 * (i % 2)) \in counter_data[(i \div 2) + 1]}]
TopDown(memory_data, p) == 31 - (p % 32) \in memory_data[215 - (p \div 32)]
Pieces(memory_data) ==
  [x \in 0..95 |-> [p \in 0..71 |-> TopDown(memory_data, (72 * x) + p)]]
\* ReadMemory(): of a piece the header, the bunch crossing and the hits; from
\* the first piece with another header on there is nothing.  Only mode 3 is read.
Number(piece, from, bits) == {b \in 0..(bits - 1) : piece[from + (bits - 1) - b]}
ReadMemory(intmemory, mode) ==
  LET good == {x \in 0..95 : \A p \in 0..7 : intmemory[x][p]}
      read(x) == mode = 3 /\ 0..x \subseteq good
  IN  [BX   |-> [x \in 0..95 |-> IF read(x) THEN Number(intmemory[x], 8, 16) ELSE {}],
       data |-> [x \in 0..95 |-> IF read(x) THEN Number(intmemory[x], 24, 48) ELSE {}]]

-----------------------------------------------------------------------------
(* The data of a buffer, as words with names: those of the triggers, with  *)
(* eight pages of offsets of the beam and of the MPAs, and of the chips.   *)
ReadTrig ==
  LET Page(kind, p) == [i \in 1..256 |-> <<kind, p, i>>]
  IN  FoldLeft(LAMBDA curData, p : curData \o Page("BEAM", p) \o Page("MPA", p),
               <<<<"total_triggers">>, <<"trigger_total_counter">>, <<"trigger_counter">>>>,
               [p \in 1..8 |-> p])
\* ReadMPAlightData(): the header of the counters is left out.
ReadMPAlightData(fe, mpa) ==
  [i \in 1..24 |-> <<fe, mpa, "counter", i>>] \o [i \in 1..216 |-> <<fe, mpa, "memory", i - 1>>]
\* The loop of MuModdaqtest: the triggers, then the chips of the left and of
\* the right, which are the first and the second module of the board.
TakeBuffer(chips) ==
  FoldLeft(LAMBDA curData, c : curData \o ReadMPAlightData(c[1], c[2]), ReadTrig,
           [i \in 1..chips[1] |-> <<0, i - 1>>] \o [i \in 1..chips[2] |-> <<1, i - 1>>])

\* MPAlightEvent::SetEvent(): the data of a chip are found with the number of
\* chips of its own module.
SetEvent(chips, list) ==
  LET ids == UNION {{<<fe - 1, id>> : id \in 0..(chips[fe] - 1)} : fe \in DOMAIN chips}
      begin(c) == 4099 + (c[1] * 240 * chips[c[1] + 1]) + (c[2] * 240)
  IN  [triggers |-> SubSeq(list, 1, 3),
       ftrigger_offset_BEAM |-> SubSeq(list, 4, 3 + 2048),
       ftrigger_offset_MPAlight |-> SubSeq(list, 4 + 2048, 3 + 4096),
       fEventDataMap |-> [c \in ids |-> SubSeq(list, begin(c) + 1, begin(c) + 240)]]
=============================================================================
