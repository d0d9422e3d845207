---------------------------- MODULE Calibration ----------------------------
(***************************************************************************)
(* tools/Calibration: the search, bit by bit from the highest, for the     *)
(* Vplus (CBC2) or VCth (CBC3) at which half of the events of a chip have  *)
(* hits, then for the offset of every channel, one test group after the    *)
(* other with all other channels off.                                      *)
(*                                                                         *)
(* The chip is external: a channel fires in all events, in half of them or *)
(* in none, as its level lies above, at or below a point of its own.  The  *)
(* level rises with VCth and falls with the offset on a CBC3, rises with   *)
(* Vplus and the offset on a CBC2 read out in hole mode and falls with     *)
(* them in electron mode.  Writes reach the chip (CbcRegisters has what    *)
(* happens when they do not).                                              *)
(***************************************************************************)
EXTENDS Integers, FiniteSetsExt

CONSTANTS Board, Cbc, Channel,
          BoardOf,       (* the board of each chip                         *)
          GroupOf,       (* the test group of each channel                 *)
          Nbits,         (* bits of an offset and of Vplus, 8 in the code  *)
          VcthBits,      (* bits of VCth, 10 in the code                   *)
          TargetOffset,  (* the setting, and 0x80 on a CBC3                *)
          TargetVcth,    (* the setting, for a CBC2                        *)
          Points         (* the points a channel may have                  *)

ASSUME CalibrationAssumption ==
    /\ Nbits \in Nat \ {0} /\ VcthBits \in Nat \ {0}
    /\ TargetOffset \in 0 .. 2^Nbits - 1 /\ TargetVcth \in Nat /\ Points \subseteq Int
    /\ BoardOf \in [Cbc -> Board] /\ GroupOf \in [Channel -> Nat]

VARIABLES
    type,      (* fType, the same throughout                               *)
    holes,     (* fHoleMode                                                *)
    all,       (* fAllChan                                                 *)
    point,     (* the chips' points, the same throughout                   *)
    vcth, vplus, (* the chips' thresholds; Vplus on a CBC2 only            *)
    offset,    (* the chips' offsets                                       *)
    stub,      (* the chips' stub logic and HIP registers: "user" or "off" *)
    fVplusMap, (* the tool's values, of VCth or Vplus                      *)
    Offsets, Occupancy, (* the tool's histograms                           *)
    pc, iBit, cTGroup,
    passes     (* boards left in the loop of bitwiseOffset()               *)

chipVars == <<type, holes, all, point, vcth, vplus, offset, stub>>
vars  == <<chipVars, fVplusMap, Offsets, Occupancy, pc, iBit, cTGroup, passes>>

Groups == IF all THEN {-1} ELSE {-1} \cup {GroupOf[ch] : ch \in Channel}
TestGroupChannelMap(g) == {ch \in Channel : g = -1 \/ GroupOf[ch] = g}
Later(g) == {h \in Groups : h > g}
Off      == IF holes THEN 0 ELSE 2^Nbits - 1
TopBit   == IF type = "CBC3" THEN VcthBits - 1 ELSE Nbits - 1

toggleRegBit(v, i) == IF (v \div 2^i) % 2 = 1 THEN v - 2^i ELSE v + 2^i

(* Hits of a channel at a threshold and an offset, in half events (the     *)
(* chip, external).                                                        *)
Level(t, v, o) == CASE type = "CBC3" -> t - o
                    [] type = "CBC2" /\ holes -> v + o - t
                    [] type = "CBC2" /\ ~holes -> t - v - o
Hits(c, ch, t, v, o) ==
    CASE Level(t, v, o) > point[c][ch] -> 2
      [] Level(t, v, o) = point[c][ch] -> 1
      [] OTHER -> 0

Init ==
    /\ type \in {"CBC2", "CBC3"} /\ holes \in BOOLEAN /\ all \in BOOLEAN
    /\ type = "CBC3" => ~holes
    /\ point \in [Cbc -> [Channel -> Points]]
    /\ vcth = [c \in Cbc |-> 0] /\ vplus = [c \in Cbc |-> 0]
    /\ offset = [c \in Cbc |-> [ch \in Channel |-> TargetOffset]]
    /\ stub = [c \in Cbc |-> "user"]
    /\ fVplusMap = [c \in Cbc |-> 0]
    /\ Offsets = [c \in Cbc |-> [ch \in Channel |-> Off]]
    /\ Occupancy = [c \in Cbc |-> [ch \in Channel |-> 0]]
    /\ pc = "initialise" /\ iBit = 0 /\ cTGroup = -1 /\ passes = {}

(* Initialise(): the stub logic of a CBC3 is switched off. *)
Initialise ==
    /\ pc = "initialise"
    /\ stub' = [c \in Cbc |-> IF type = "CBC3" THEN "off" ELSE "user"]
    /\ pc' = "find"
    /\ UNCHANGED <<type, holes, all, point, vcth, vplus, offset, fVplusMap, Offsets,
                   Occupancy, iBit, cTGroup, passes>>
-----------------------------------------------------------------------------
(* setOffset(): the offset of every channel of a group. *)
setOffset(value, g, alsoHist) ==
    LET set(o) == [c \in Cbc |-> [ch \in Channel |->
                      IF ch \in TestGroupChannelMap(g) THEN value ELSE o[c][ch]]] IN
    /\ offset' = set(offset)
    /\ Offsets' = IF alsoHist THEN set(Offsets) ELSE Offsets

(* measureOccupancy() with fillOccupancyHist(): the hits of a group. *)
fillOccupancyHist(multiple) ==
    Occupancy' = [c \in Cbc |-> [ch \in Channel |-> Occupancy[c][ch] +
                    IF ch \in TestGroupChannelMap(cTGroup)
                    THEN multiple * Hits(c, ch, vcth[c], vplus[c], offset[c][ch]) ELSE 0]]

clearOccupancyHists == Occupancy' = [c \in Cbc |-> [ch \in Channel |-> 0]]

(* 100 times the occupancy, over 2 * events: findCbcOccupancy(). *)
findCbcOccupancy(c) == 100 * MapThenSumSet(LAMBDA ch : Occupancy[c][ch], Channel)
Scale == 2 * Cardinality(TestGroupChannelMap(cTGroup))
-----------------------------------------------------------------------------
(* FindVplus(): all channels are switched off, then enabled together.      *)
FindVplus ==
    /\ pc = "find"
    /\ vcth' = [c \in Cbc |-> IF type = "CBC2" THEN TargetVcth ELSE 0]
    /\ fVplusMap' = [c \in Cbc |-> 0]
    /\ setOffset(TargetOffset, -1, TRUE)
    /\ cTGroup' = -1 /\ iBit' = TopBit
    /\ pc' = "flip"
    /\ UNCHANGED <<type, holes, all, point, vplus, stub, Occupancy, passes>>

(* The tool's values go to the chips. *)
WriteThreshold == IF type = "CBC3" THEN vcth' = fVplusMap' /\ UNCHANGED vplus
                                   ELSE vplus' = fVplusMap' /\ UNCHANGED vcth

(* Each chip's value gets the bit, then events are taken. *)
FlipThreshold ==
    /\ pc = "flip"
    /\ fVplusMap' = [c \in Cbc |-> toggleRegBit(fVplusMap[c], iBit)]
    /\ WriteThreshold
    /\ pc' = "take"
    /\ UNCHANGED <<type, holes, all, point, offset, stub, Offsets, Occupancy,
                   iBit, cTGroup, passes>>

TakeThreshold ==
    /\ pc = "take"
    /\ fillOccupancyHist(1)
    /\ pc' = "judge"
    /\ UNCHANGED <<chipVars, fVplusMap, Offsets, iBit, cTGroup, passes>>

Judged(keep(_)) ==
    /\ pc = "judge"
    /\ fVplusMap' = [c \in Cbc |-> IF keep(c) THEN fVplusMap[c]
                                   ELSE toggleRegBit(fVplusMap[c], iBit)]
    /\ WriteThreshold
    /\ clearOccupancyHists
    /\ IF iBit > 0 THEN iBit' = iBit - 1 /\ pc' = "flip"
                   ELSE pc' = "mean" /\ UNCHANGED iBit
    /\ UNCHANGED <<type, holes, all, point, offset, stub, Offsets, cTGroup,
                   passes>>

(* bitwiseVCth(): the bit goes back when the occupancy is too high. *)
bitwiseVCth ==
    type = "CBC3" /\ Judged(LAMBDA c : findCbcOccupancy(c) <= 56 * Scale)

(* bitwiseVplus(): too high in hole mode, too low in electron mode. *)
bitwiseVplus ==
    type = "CBC2" /\ Judged(LAMBDA c : IF holes THEN findCbcOccupancy(c) <= 56 * Scale
                                                ELSE findCbcOccupancy(c) >= 45 * Scale)

(* The channels go off again.  A CBC3 gets the mean of all chips as its    *)
(* VCth, a CBC2 keeps its own Vplus.  FindOffsets() writes them again.     *)
FindOffsets ==
    LET mean == MapThenSumSet(LAMBDA c : fVplusMap[c], Cbc) \div Cardinality(Cbc) IN
    /\ pc = "mean"
    /\ setOffset(Off, -1, TRUE)
    /\ vcth' = [c \in Cbc |-> IF type = "CBC3" THEN mean ELSE TargetVcth]
    /\ cTGroup' = IF all THEN -1 ELSE Min(Groups \ {-1})
    /\ pc' = "offsets" /\ iBit' = Nbits - 1 /\ passes' = Board
    /\ UNCHANGED <<type, holes, all, point, vplus, stub, fVplusMap, Occupancy>>
-----------------------------------------------------------------------------
(* toggleOffset() with pBegin: the bit of every channel of the group. *)
toggleOffset_Begin ==
    /\ pc = "offsets"
    /\ Offsets' = [c \in Cbc |-> [ch \in Channel |->
                      IF ch \in TestGroupChannelMap(cTGroup)
                      THEN toggleRegBit(Offsets[c][ch], iBit) ELSE Offsets[c][ch]]]
    /\ offset' = [c \in Cbc |-> [ch \in Channel |->
                      IF ch \in TestGroupChannelMap(cTGroup)
                      THEN Offsets'[c][ch] ELSE offset[c][ch]]]
    /\ pc' = "occupancy"
    /\ UNCHANGED <<type, holes, all, point, vcth, vplus, stub, fVplusMap, Occupancy,
                   iBit, cTGroup, passes>>

(* measureOccupancy() of all boards. *)
measureOccupancy ==
    /\ pc = "occupancy"
    /\ fillOccupancyHist(1)
    /\ pc' = "back"
    /\ UNCHANGED <<chipVars, fVplusMap, Offsets, iBit, cTGroup, passes>>

(* Faulty variant: the hits of this bit are still there for the next. *)
toggleOffset_KeepHits ==
    LET high(c, ch) == ch \in TestGroupChannelMap(cTGroup) /\ 100 * Occupancy[c][ch] > 114
        back(c, ch) == IF high(c, ch) THEN toggleRegBit(Offsets[c][ch], iBit)
                       ELSE Offsets[c][ch] IN
    /\ Offsets' = [c \in Cbc |-> [ch \in Channel |-> back(c, ch)]]
    /\ offset' = [c \in Cbc |-> [ch \in Channel |->
                      IF high(c, ch) THEN back(c, ch) ELSE offset[c][ch]]]
    /\ UNCHANGED Occupancy

(* toggleOffset() without pBegin: the bit goes back where the occupancy of *)
(* the channel is above 0.57, and the hits of the group are cleared.       *)
toggleOffset ==
    LET high(c, ch) == ch \in TestGroupChannelMap(cTGroup) /\ 100 * Occupancy[c][ch] > 114
        back(c, ch) == IF high(c, ch) THEN toggleRegBit(Offsets[c][ch], iBit)
                       ELSE Offsets[c][ch] IN
    /\ Offsets' = [c \in Cbc |-> [ch \in Channel |-> back(c, ch)]]
    /\ offset' = [c \in Cbc |-> [ch \in Channel |->
                      IF high(c, ch) THEN back(c, ch) ELSE offset[c][ch]]]
    /\ Occupancy' = [c \in Cbc |-> [ch \in Channel |->
                      IF ch \in TestGroupChannelMap(cTGroup) THEN 0 ELSE Occupancy[c][ch]]]

(* bitwiseOffset(): the loop over the bits runs once per board, each time  *)
(* for the channels of all of them.                                        *)
bitwiseOffset ==
    /\ pc = "back"
    /\ toggleOffset
    /\ IF iBit > 0 THEN iBit' = iBit - 1 /\ pc' = "offsets" /\ UNCHANGED passes
       ELSE \E b \in passes :
               /\ passes' = passes \ {b}
               /\ IF passes' # {} THEN iBit' = Nbits - 1 /\ pc' = "offsets"
                                  ELSE pc' = "verify" /\ UNCHANGED iBit
    /\ UNCHANGED <<type, holes, all, point, vcth, vplus, stub, fVplusMap, cTGroup>>

(* The verification, if asked for, takes three times the events, and its   *)
(* hits stay in the histogram; then the group is switched off on the chips.*)
GroupDone ==
    /\ pc = "verify"
    /\ \E multiple \in {0, 3} : fillOccupancyHist(multiple)
    /\ setOffset(Off, cTGroup, FALSE)
    /\ IF Later(cTGroup) # {} /\ ~all
       THEN cTGroup' = Min(Later(cTGroup)) /\ iBit' = Nbits - 1 /\ passes' = Board /\ pc' = "offsets"
       ELSE pc' = "write" /\ UNCHANGED <<cTGroup, iBit, passes>>
    /\ UNCHANGED <<type, holes, all, point, vcth, vplus, stub, fVplusMap>>

(* setRegValues(): the offsets found, and the stub logic as it was. *)
setRegValues ==
    /\ pc = "write"
    /\ offset' = Offsets
    /\ stub' = [c \in Cbc |-> "user"]
    /\ pc' = "done"
    /\ UNCHANGED <<type, holes, all, point, vcth, vplus, fVplusMap, Offsets, Occupancy,
                   iBit, cTGroup, passes>>

Next == \/ Initialise \/ FindVplus \/ FlipThreshold \/ TakeThreshold
        \/ bitwiseVCth \/ bitwiseVplus \/ FindOffsets
        \/ toggleOffset_Begin \/ measureOccupancy \/ bitwiseOffset
        \/ GroupDone \/ setRegValues

Spec == Init /\ [][Next]_vars
-----------------------------------------------------------------------------
(* The search is exact, against the reference.  The threshold is the last   *)
(* one, from 0, at which a chip has no more than half of its hits (for a   *)
(* CBC2 in electron mode, at least half); the offset of a channel is the   *)
(* one nearest to its firing point at which it fires in no more than half  *)
(* of the events, or off if there is none; and the chips hold what the     *)
(* histograms say and have their stub logic back.                          *)
ChipHits(c, v) ==
    100 * MapThenSumSet(LAMBDA ch : IF type = "CBC3" THEN Hits(c, ch, v, 0, TargetOffset)
                                    ELSE Hits(c, ch, TargetVcth, v, TargetOffset), Channel)
Keeps(c, v) == IF type = "CBC3" \/ holes THEN ChipHits(c, v) <= 56 * Scale
                                        ELSE ChipHits(c, v) >= 45 * Scale
Quiet(c, ch) == {o \in 0 .. 2^Nbits - 1 : Hits(c, ch, vcth[c], vplus[c], o) # 2}

SearchIsExact ==
    /\ pc = "mean" =>
         \A c \in Cbc : fVplusMap[c] = Max({0} \cup {v \in 1 .. 2^(TopBit + 1) - 1 : Keeps(c, v)})
    /\ pc = "done" =>
         /\ stub = [c \in Cbc |-> "user"]
         /\ \A c \in Cbc, ch \in Channel :
              offset[c][ch] = IF holes THEN Max({Off} \cup Quiet(c, ch))
                                       ELSE Min({Off} \cup Quiet(c, ch))
=============================================================================
