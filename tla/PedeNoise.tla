----------------------------- MODULE PedeNoise -----------------------------
(***************************************************************************)
(* tools/PedeNoise, run after Calibration on the same chips as calibrate,  *)
(* cmtest and cbc3irrad do: for one test group after the other it looks    *)
(* for the threshold at which half of the channels fire, sweeps the        *)
(* threshold up and down from there to record the S-curves, puts the       *)
(* offsets back, and masks the channels that are noisy at a raised         *)
(* threshold.                                                              *)
(***************************************************************************)
EXTENDS Calibration

CONSTANTS MinBreakCount, (* cMinBreakCount: points that end one direction  *)
          Amplitudes,    (* test pulse amplitudes, 0 for no test pulse     *)
          Raise          (* 5 sigma of the noise, in VCth units            *)

ASSUME PedeNoiseAssumption ==
    /\ MinBreakCount \in Nat \ {0} /\ Amplitudes \subseteq Nat /\ Raise \in Nat

VARIABLES
    fThresholdMap, fHitCountMap,
    Cbc_Offsets,  (* the offsets saved by saveInitialOffsets()             *)
    SCurve,       (* how often a chip was measured at each threshold for   *)
                  (* the group                                             *)
    amplitude,    (* pTPAmplitude of the sweep                             *)
    fTestPulse,
    pulsed,       (* the group the chips send test pulses to, -2: none     *)
    cStartValue,  (* the pedestal of all channels, 0 for one per group     *)
    pedestal,     (* the pedestal extractPedeNoise() finds                 *)
    pStartValue, cValue, cSign, cIncrement,
    cAllZero, cAllOne, cAllZeroCounter, cAllOneCounter,
    cHitCounter, boards  (* hits and boards left in this turn of the loop  *)

mode  == <<type, holes, all, point>>
calib == <<fVplusMap, Offsets, Occupancy, passes>>
found == <<fThresholdMap, fHitCountMap>>
loopVars == <<cValue, cSign, cIncrement, cAllZero, cAllOne, cAllZeroCounter,
           cAllOneCounter, cHitCounter, boards>>
pulseVars == <<amplitude, fTestPulse, pulsed>>
noiseState == <<found, Cbc_Offsets, SCurve, pulseVars, cStartValue, pedestal,
           pStartValue, loopVars>>
noiseVars == <<vars, noiseState>>

cMaxValue == 2^VcthBits - 1
Zeros   == [c \in Cbc |-> 0]
NoCurve == [c \in Cbc |-> [v \in 0 .. cMaxValue |-> 0]]

InitNoise ==
    /\ Init
    /\ fThresholdMap = Zeros /\ fHitCountMap = Zeros
    /\ Cbc_Offsets = [c \in Cbc |-> [ch \in Channel |-> 0]]
    /\ SCurve = NoCurve
    /\ amplitude \in Amplitudes /\ fTestPulse = FALSE /\ pulsed = -2
    /\ cStartValue = 0 /\ pedestal = 0 /\ pStartValue = 0
    /\ cValue = 0 /\ cSign = 1 /\ cIncrement = 0
    /\ cAllZero = FALSE /\ cAllOne = FALSE
    /\ cAllZeroCounter = 0 /\ cAllOneCounter = 0
    /\ cHitCounter = 0 /\ boards = {}

(* The hits of the channels of the group on a chip, in half events. *)
GroupHits(c, t) == MapThenSumSet(LAMBDA ch : Hits(c, ch, t, vplus[c], offset[c][ch]),
                                 TestGroupChannelMap(cTGroup))

(* Initialise(): the stub logic goes off, the threshold to 0; then         *)
(* sweepSCurves() looks for the pedestal of all channels together unless   *)
(* there is to be a test pulse.                                            *)
InitialiseNoise ==
    /\ pc = "done"
    /\ stub' = [c \in Cbc |-> IF type = "CBC3" THEN "off" ELSE stub[c]]
    /\ vcth' = Zeros
    /\ fTestPulse' = (amplitude # 0)
    /\ cTGroup' = -1 /\ iBit' = VcthBits - 1
    /\ pc' = IF amplitude = 0 THEN "pedestal" ELSE "save"
    /\ UNCHANGED <<mode, vplus, offset, calib, found, Cbc_Offsets, SCurve,
                   amplitude, pulsed, cStartValue, pedestal, pStartValue, loopVars>>
-----------------------------------------------------------------------------
(* findPedestal(): the bit of every chip is set and the hits are counted.  *)
measureOccupancy_Noise ==
    /\ pc \in {"pedestal", "group pedestal"}
    /\ fThresholdMap' = [c \in Cbc |-> toggleRegBit(fThresholdMap[c], iBit)]
    /\ vcth' = fThresholdMap'
    /\ fHitCountMap' = [c \in Cbc |-> GroupHits(c, fThresholdMap'[c])]
    /\ pc' = IF pc = "pedestal" THEN "decide" ELSE "group decide"
    /\ UNCHANGED <<mode, vplus, offset, stub, calib, iBit, cTGroup, Cbc_Offsets,
                   SCurve, pulseVars, cStartValue, pedestal, pStartValue, loopVars>>

(* The occupancy is within 0.06 of a half; the bit has to go back. *)
Close(c)  == 44 * Scale < 100 * fHitCountMap[c] /\ 100 * fHitCountMap[c] < 56 * Scale
Return(c) == IF holes THEN 100 * fHitCountMap[c] < 45 * Scale
                      ELSE 100 * fHitCountMap[c] > 56 * Scale

(* The first chip that is close enough, in the order of their addresses,   *)
(* ends the search for all: those after it keep the bit as it is.          *)
findPedestal ==
    /\ pc \in {"decide", "group decide"}
    /\ \E seen \in SUBSET {c \in Cbc : ~Close(c)} :
          LET final == [c \in Cbc |-> IF c \in seen /\ Return(c)
                           THEN toggleRegBit(fThresholdMap[c], iBit) ELSE fThresholdMap[c]]
              mean  == MapThenSumSet(LAMBDA c : final[c], Cbc) \div Cardinality(Cbc)
              on    == iBit > 0 /\ seen = Cbc IN
          /\ (\A c \in Cbc : ~Close(c)) => seen = Cbc
          /\ vcth' = final
          /\ fThresholdMap' = IF on THEN final ELSE Zeros
          /\ iBit' = IF on THEN iBit - 1 ELSE iBit
          /\ IF pc = "decide"
             THEN /\ cStartValue' = IF on THEN cStartValue ELSE mean
                  /\ pc' = IF on THEN "pedestal" ELSE "save"
                  /\ UNCHANGED <<pStartValue, cValue>>
             ELSE /\ pStartValue' = IF on THEN pStartValue ELSE mean
                  /\ cValue' = pStartValue'
                  /\ pc' = IF on THEN "group pedestal" ELSE "curve"
                  /\ UNCHANGED cStartValue
    /\ UNCHANGED <<mode, vplus, offset, stub, calib, cTGroup, fHitCountMap,
                   Cbc_Offsets, SCurve, pulseVars, pedestal, cSign, cIncrement,
                   cAllZero, cAllOne, cAllZeroCounter, cAllOneCounter,
                   cHitCounter, boards>>
-----------------------------------------------------------------------------
(* sweepSCurves() *)

(* saveInitialOffsets(), from the software's copy of the chips. *)
saveInitialOffsets ==
    /\ pc = "save"
    /\ Cbc_Offsets' = offset
    /\ cTGroup' = -1
    /\ pc' = "group"
    /\ UNCHANGED <<mode, vcth, vplus, offset, stub, calib, iBit, found, SCurve,
                   pulseVars, cStartValue, pedestal, pStartValue, loopVars>>

(* setSystemTestPulse() turns the pulse of the group on.  Group -1 is the  *)
(* first in the map: it turns the test pulse off for all groups.           *)
setSystemTestPulse ==
    IF fTestPulse /\ cTGroup # -1
    THEN pulsed' = cTGroup /\ UNCHANGED fTestPulse
    ELSE fTestPulse' = FALSE /\ UNCHANGED pulsed

(* Faulty variant: the other groups keep their offsets. *)
enableTestGroupforNoise_OthersOn == offset' = Cbc_Offsets

(* enableTestGroupforNoise(): the channels of the other groups go off. *)
enableTestGroupforNoise ==
    offset' = [c \in Cbc |-> [ch \in Channel |->
                  IF all THEN offset[c][ch]
                  ELSE IF GroupOf[ch] = cTGroup THEN Cbc_Offsets[c][ch] ELSE Off]]

(* The sweep of a group begins at the common pedestal, or finds its own.   *)
BeginGroup ==
    /\ pc = "group" /\ (cTGroup # -1 \/ all)
    /\ setSystemTestPulse
    /\ enableTestGroupforNoise
    /\ SCurve' = NoCurve
    /\ pStartValue' = cStartValue /\ cValue' = cStartValue
    /\ cSign' = 1 /\ cIncrement' = 0
    /\ cAllZero' = FALSE /\ cAllOne' = FALSE
    /\ cAllZeroCounter' = 0 /\ cAllOneCounter' = 0
    /\ boards' = {} /\ cHitCounter' = 0
    /\ iBit' = VcthBits - 1
    /\ pc' = IF cStartValue = 0 THEN "group pedestal" ELSE "curve"
    /\ UNCHANGED <<mode, vcth, vplus, stub, calib, cTGroup, found, Cbc_Offsets,
                   amplitude, cStartValue, pedestal>>

(* Group -1 is not measured when there are others. *)
SkipGroup ==
    /\ pc = "group" /\ cTGroup = -1 /\ ~all
    /\ setSystemTestPulse
    /\ cTGroup' = Min(Later(-1))
    /\ UNCHANGED <<mode, vcth, vplus, offset, stub, calib, pc, iBit, found,
                   Cbc_Offsets, SCurve, amplitude, cStartValue, pedestal,
                   pStartValue, loopVars>>

(* Faulty variant: the loop ends at the first end of the curve. *)
NextTurn_OneEnd ==
    /\ pc = "curve" /\ boards = {}
    /\ IF cAllZero \/ cAllOne
       THEN pc' = "group end" /\ UNCHANGED <<boards, cHitCounter>>
       ELSE boards' = Board /\ cHitCounter' = 0 /\ UNCHANGED pc
    /\ UNCHANGED <<mode, vcth, vplus, offset, stub, calib, iBit, cTGroup, found,
                   Cbc_Offsets, SCurve, pulseVars, cStartValue, pedestal,
                   pStartValue, cValue, cSign, cIncrement, cAllZero, cAllOne,
                   cAllZeroCounter, cAllOneCounter>>

(* The loop of measureSCurves() ends when both ends of the curve were seen. *)
NextTurn ==
    /\ pc = "curve" /\ boards = {}
    /\ IF cAllZero /\ cAllOne
       THEN pc' = "group end" /\ UNCHANGED <<boards, cHitCounter>>
       ELSE boards' = Board /\ cHitCounter' = 0 /\ UNCHANGED pc
    /\ UNCHANGED <<mode, vcth, vplus, offset, stub, calib, iBit, cTGroup, found,
                   Cbc_Offsets, SCurve, pulseVars, cStartValue, pedestal,
                   pStartValue, cValue, cSign, cIncrement, cAllZero, cAllOne,
                   cAllZeroCounter, cAllOneCounter>>

Above(sign, inc) == sign = 1 /\ pStartValue + inc > cMaxValue
Below(sign, inc) == sign = -1 /\ pStartValue - inc < 0

(* An end of the range counts as an end of the curve. *)
BeyondRange(sign, inc) ==
    [allOne  |-> IF holes THEN Below(sign, inc) ELSE Above(sign, inc),
     allZero |-> IF holes THEN Above(sign, inc) ELSE Below(sign, inc)]

(* One board at one threshold: the hits so far in this turn are compared   *)
(* with what this board can have; ten points without hits, or ten with all *)
(* of them, end that side and send the sweep the other way from the start. *)
(* Beyond an end of the range it starts again at its first value.          *)
measureSCurves ==
    \E b \in boards :
      LET mine  == {c \in Cbc : BoardOf[c] = b}
          hits  == cHitCounter + MapThenSumSet(LAMBDA c : GroupHits(c, cValue), mine)
          most  == Scale * Cardinality(mine)
          zeros == cAllZeroCounter + IF hits = 0 THEN 1 ELSE 0
          ones  == cAllOneCounter + IF 100 * hits > 98 * most THEN 1 ELSE 0
          zero  == ~cAllZero /\ zeros = MinBreakCount
          one   == ~cAllOne /\ ones = MinBreakCount
          sign  == IF one THEN (IF holes THEN 1 ELSE -1)
                   ELSE IF zero THEN (IF holes THEN -1 ELSE 1) ELSE cSign
          inc   == (IF zero \/ one THEN 0 ELSE cIncrement) + 1
          end   == Above(sign, inc) \/ Below(sign, inc) IN
      /\ pc = "curve"
      /\ boards' = boards \ {b}
      /\ vcth' = [c \in Cbc |-> IF c \in mine THEN cValue ELSE vcth[c]]
      /\ SCurve' = [c \in Cbc |-> IF c \in mine
                       THEN [SCurve[c] EXCEPT ![cValue] = @ + 1] ELSE SCurve[c]]
      /\ cHitCounter' = hits /\ cAllZeroCounter' = zeros /\ cAllOneCounter' = ones
      /\ cAllZero' = (cAllZero \/ zero \/ BeyondRange(sign, inc).allZero)
      /\ cAllOne'  = (cAllOne \/ one \/ BeyondRange(sign, inc).allOne)
      /\ cSign' = IF end THEN -sign ELSE sign
      /\ cIncrement' = IF end THEN 0 ELSE inc
      /\ cValue' = pStartValue + cIncrement' * cSign'
      /\ UNCHANGED <<mode, vplus, offset, stub, calib, pc, iBit, cTGroup, found,
                     Cbc_Offsets, pulseVars, cStartValue, pedestal, pStartValue>>

(* The test pulse goes off again, and the next group follows. *)
EndGroup ==
    /\ pc = "group end"
    /\ pulsed' = IF fTestPulse THEN -2 ELSE pulsed
    /\ IF all \/ Later(cTGroup) = {}
       THEN pc' = "restore" /\ UNCHANGED cTGroup
       ELSE pc' = "group" /\ cTGroup' = Min(Later(cTGroup))
    /\ UNCHANGED <<mode, vcth, vplus, offset, stub, calib, iBit, found,
                   Cbc_Offsets, SCurve, amplitude, fTestPulse, cStartValue,
                   pedestal, pStartValue, loopVars>>

(* setInitialOffsets(), with the stub logic. *)
setInitialOffsets ==
    /\ pc = "restore"
    /\ offset' = Cbc_Offsets
    /\ stub' = [c \in Cbc |-> "user"]
    /\ pc' = "swept"
    /\ UNCHANGED <<mode, vcth, vplus, calib, iBit, cTGroup, noiseState>>
-----------------------------------------------------------------------------
(* Validate() *)

(* setThresholdtoNSigma(): a 16-bit sum of which the chip keeps VcthBits;  *)
(* the pedestal is what extractPedeNoise() made of the curves.             *)
setThresholdtoNSigma(sigma) ==
    LET diff == IF holes THEN sigma ELSE -sigma IN
    vcth' = [c \in Cbc |-> ((pedestal' + diff) % 2^16) % 2^VcthBits]

Validate ==
    /\ pc = "swept"
    /\ pedestal' \in 0 .. cMaxValue
    /\ setThresholdtoNSigma(Raise)
    /\ pc' = "noisy"
    /\ UNCHANGED <<mode, vplus, offset, stub, calib, iBit, cTGroup, found,
                   Cbc_Offsets, SCurve, pulseVars, cStartValue, pStartValue, loopVars>>

(* Channels with hits at the raised threshold are masked, and the          *)
(* threshold goes back to the pedestal.                                    *)
MaskNoisy ==
    /\ pc = "noisy"
    /\ offset' = [c \in Cbc |-> [ch \in Channel |->
                     IF Hits(c, ch, vcth[c], vplus[c], offset[c][ch]) > 0
                     THEN (IF holes THEN 0 ELSE 2^Nbits - 1) ELSE offset[c][ch]]]
    /\ UNCHANGED pedestal
    /\ setThresholdtoNSigma(0)
    /\ pc' = "validated"
    /\ UNCHANGED <<mode, vplus, stub, calib, iBit, cTGroup, found, Cbc_Offsets,
                   SCurve, pulseVars, cStartValue, pStartValue, loopVars>>
-----------------------------------------------------------------------------
Calibrate == Next /\ UNCHANGED noiseState
Sweep == \/ BeginGroup \/ SkipGroup \/ NextTurn \/ measureSCurves \/ EndGroup
         \/ setInitialOffsets
NoiseNext == \/ Calibrate \/ InitialiseNoise \/ measureOccupancy_Noise
             \/ findPedestal \/ saveInitialOffsets \/ Sweep
             \/ Validate \/ MaskNoisy

NoiseSpec == InitNoise /\ [][NoiseNext]_noiseVars
-----------------------------------------------------------------------------
(* The S-curve of a group covers, on each chip, every threshold between    *)
(* the last one on either side, and each side goes on until enough         *)
(* measurements have shown no hits or all hits, or the range ends.  The    *)
(* count is of measurements: when a side starts at an end of the range,    *)
(* the start value is taken twice and counts twice.                        *)
SCurveComplete ==
    pc = "group end" =>
      \A c \in Cbc :
        LET seen  == {v \in 0 .. cMaxValue : SCurve[c][v] > 0}
            quiet == {v \in seen : \A d \in Cbc : GroupHits(d, v) = 0}
            loud  == {v \in seen : \A d \in Cbc : GroupHits(d, v) = Scale}
            taken(S) == MapThenSumSet(LAMBDA v : SCurve[c][v], S) IN
        /\ seen = Min(seen) .. Max(seen)
        /\ taken(quiet) >= MinBreakCount \/ (IF holes THEN cMaxValue ELSE 0) \in seen
        /\ taken(loud) >= MinBreakCount \/ (IF holes THEN 0 ELSE cMaxValue) \in seen

(* Whatever is measured of a group is measured with all other channels     *)
(* off, by the calibration and by the noise measurement, and without the   *)
(* stub logic.                                                             *)
MeasuredAlone ==
    pc \in {"curve", "group pedestal", "occupancy"} =>
        /\ \A c \in Cbc : type = "CBC3" => stub[c] = "off"
        /\ \A c \in Cbc, ch \in Channel : ch \notin TestGroupChannelMap(cTGroup) => offset[c][ch] = Off

=============================================================================
