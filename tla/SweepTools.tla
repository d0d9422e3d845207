----------------------------- MODULE SweepTools -----------------------------
(***************************************************************************)
(* The sweeps of the irradiation test, tools/BiasSweep and StubSweep, one  *)
(* chip after the other, and tools/CMTester: a sweep changes registers of  *)
(* the chips and puts them back, an analysis fills two histograms with the *)
(* pairs of strips that have hits together.                                *)
(*                                                                         *)
(* The chips and the instruments are external: every write reaches the     *)
(* chip and the software's copy (CbcRegisters has what happens when it     *)
(* does not), an instrument may fail to answer, which ends the program.    *)
(* The biases stand for one with a register of its own and two that share  *)
(* one.                                                                    *)
(***************************************************************************)
EXTENDS Integers, FiniteSetsExt, SequencesExt

CONSTANTS SweepCbc,    (* chips                                            *)
          BiasBits,    (* bits of a bias register, 8 in the code           *)
          FieldBits,   (* bits of a bias that shares one, 4 in the code    *)
          StepSizes,   (* values of fStepSize                              *)
          NGroupsStub, (* test groups, 8 in the code                       *)
          Turns,       (* twice the pairs of a group, of which there are   *)
                       (* 16 in the code                                   *)
          MaskWidth,   (* channels of a mask register, 8 in the code       *)
          fReadBackAttempts,
          Strips,      (* the strips of a chip, numbered from 0            *)
          MaxEvents    (* events analysed                                  *)

ASSUME SweepAssumption ==
    /\ {SweepCbc, BiasBits, FieldBits, NGroupsStub, Turns, MaskWidth, fReadBackAttempts,
         Strips} \subseteq Nat \ {0}
    /\ StepSizes \subseteq Nat \ {0} /\ 2 * FieldBits <= BiasBits /\ Turns >= 4

VARIABLES
    sweeper,         (* which tool                                         *)
    sweep,           (* what it is doing                                   *)
    cbc,             (* the chip it is at                                  *)
    regs, regCopy,   (* the chips' registers and the software's copies     *)
    triggers,        (* whether SweepBias() has started the triggers       *)
    original,        (* what the tool keeps of the registers it changes    *)
    before,          (* the registers before the tool's work               *)
    bias, cBias, fStepSize, (* the bias, the value it has, the step        *)
    stubGroup, pair, (* the test group and the pair of channels            *)
    cCounter,        (* reads of an event of the pair                      *)
    fNoiseStrips,    (* the noisy strips of the chip                       *)
    occupancy, plusminus, (* sum and entries of the projections, by distance*)
    events           (* events analysed                                    *)

sweepVars == <<sweeper, sweep, cbc, regs, regCopy, triggers, original,
               before, bias, cBias, fStepSize, stubGroup, pair, cCounter, fNoiseStrips, occupancy, plusminus, events>>
biasing == <<original, bias, cBias, fStepSize>>
stubbing == <<stubGroup, pair, cCounter>>
counting == <<fNoiseStrips, occupancy, plusminus, events>>

Idx      == 0 .. (Turns \div 2) - 1
Channels == 1 .. (2 * NGroupsStub * (Turns \div 2) - 2)
Masks    == 0 .. ((Max(Channels) - 1) \div MaskWidth)
Top      == 2^BiasBits - 1
Biases   == {"own", "low", "high", "VCth", "fixed", "VDDA"}
Out(mask) == UNION {mask[m] : m \in Masks}

InitSweep ==
    /\ sweeper \in {"BiasSweep", "StubSweep", "CMTester"}
    /\ \E pulse \in BOOLEAN, v \in {0, Top} :
          regs = [c \in 1 .. SweepCbc |->
                     [Amux |-> [pulse |-> pulse, mux |-> "none"], own |-> v, shared |-> Top - 1,
                      VCth |-> v, clk |-> TRUE, group |-> 0,
                      mask |-> [m \in Masks |-> {ch \in Channels : (ch - 1) \div MaskWidth = m}]]]
    /\ triggers = FALSE /\ regCopy = regs /\ before = regs /\ original = regs[1]
    /\ sweep = IF sweeper = "StubSweep" THEN "mask" ELSE "idle"
    /\ cbc = 1 /\ bias = "own" /\ cBias = 0 /\ fStepSize \in StepSizes
    /\ stubGroup = 0 /\ pair = 0 /\ cCounter = 0
    /\ fNoiseStrips = {}
    /\ occupancy = [d \in 0 .. Strips - 1 |-> <<0, 0>>] /\ plusminus = occupancy /\ events = 0

(* A write of a register of the chip the sweep is at. *)
Write(new) == regs' = [regs EXCEPT ![cbc] = new] /\ regCopy' = [regCopy EXCEPT ![cbc] = new]
Here == regs[cbc]
-----------------------------------------------------------------------------
StartDAQ == triggers' = TRUE
StopDAQ  == triggers' = FALSE

(* configureAmux(): the multiplexer gets the bias, and the register is kept*)
(* as it was; VDDA does not go through the multiplexer.                    *)
configureAmux(b) ==
    /\ original' = Here
    /\ IF b = "VDDA" THEN UNCHANGED <<regs, regCopy>> ELSE Write([Here EXCEPT !.Amux.mux = b])

(* The values of a bias that has no register are only measured. *)
SweepBias ==
    /\ sweeper = "BiasSweep" /\ sweep = "idle"
    /\ StartDAQ
    /\ bias' \in Biases /\ cBias' = 0
    /\ configureAmux(bias')
    /\ sweep' = IF bias' \in {"VDDA", "fixed"} THEN "single" ELSE "sweep"
    /\ UNCHANGED <<sweeper, cbc, before, fStepSize, stubbing, counting>>
measureSingle ==
    /\ sweep = "single"
    /\ sweep' = "reset"
    /\ UNCHANGED <<sweeper, cbc, regs, regCopy, triggers, before, biasing, stubbing, counting>>

(* The values a sweep takes: all of a field's, all but the last of a       *)
(* register's and of the threshold's.                                      *)
cRange == IF bias \in {"low", "high"} THEN 2^FieldBits ELSE Top

(* sweep8Bit(): the value goes into its bits, all others of the register   *)
(* are zero.                                                               *)
Swept(v) == CASE bias = "own"  -> [Here EXCEPT !.own = v]
              [] bias = "low"  -> [Here EXCEPT !.shared = v]
              [] bias = "high" -> [Here EXCEPT !.shared = (v * 2^FieldBits) % 2^BiasBits]
sweep8Bit ==
    /\ sweep = "sweep" /\ bias \in {"own", "low", "high"} /\ cBias < cRange
    /\ Write(Swept(cBias))
    /\ IF cBias + fStepSize > Top THEN sweep' = "restore" /\ UNCHANGED cBias
       ELSE cBias' = cBias + fStepSize /\ UNCHANGED sweep
    /\ UNCHANGED <<sweeper, triggers, cbc, original, before, bias, fStepSize, stubbing, counting>>

(* The register as it was read before the sweep. *)
Kept == IF bias = "own" THEN [Here EXCEPT !.own = original.own]
        ELSE [Here EXCEPT !.shared = original.shared]
sweep8Bit_End ==
    /\ bias \in {"own", "low", "high"}
    /\ sweep = "restore" \/ (sweep = "sweep" /\ cBias >= cRange)
    /\ Write(Kept)
    /\ sweep' = "reset"
    /\ UNCHANGED <<sweeper, triggers, cbc, before, biasing, stubbing, counting>>

(* sweepVCth() writes the threshold back after every value. *)
sweepVCth ==
    /\ sweep = "sweep" /\ bias = "VCth"
    /\ IF cBias < cRange
       THEN /\ Write([Here EXCEPT !.VCth = cBias])
            /\ sweep' = "back" /\ cBias' = cBias + fStepSize
       ELSE sweep' = "reset" /\ UNCHANGED <<regs, regCopy, cBias>>
    /\ UNCHANGED <<sweeper, triggers, cbc, original, before, bias, fStepSize, stubbing, counting>>
sweepVCth_Back ==
    /\ sweep = "back"
    /\ Write([Here EXCEPT !.VCth = original.VCth])
    /\ sweep' = "sweep"
    /\ UNCHANGED <<sweeper, triggers, cbc, before, biasing, stubbing, counting>>

resetAmux ==
    /\ sweep = "reset"
    /\ Write([Here EXCEPT !.Amux = original.Amux])
    /\ sweep' = "stop"
    /\ UNCHANGED <<sweeper, cbc, triggers, before, biasing, stubbing, counting>>
SweepBias_End ==
    /\ sweep = "stop"
    /\ StopDAQ
    /\ sweep' = "idle"
    /\ UNCHANGED <<sweeper, cbc, regs, regCopy, before, biasing, stubbing, counting>>

(* MeasureMinPower(): the biases go to their minimum and the chip's clock  *)
(* stops.                                                                  *)
MeasureMinPower ==
    /\ sweeper = "BiasSweep" /\ sweep = "idle"
    /\ original' = regCopy[cbc]
    /\ Write([Here EXCEPT !.own = 0, !.shared = 0, !.clk = FALSE])
    /\ sweep' = "power"
    /\ UNCHANGED <<sweeper, triggers, cbc, before, bias, cBias, fStepSize, stubbing, counting>>
(* The copies get the values back, and all chips are configured from them. *)
MeasureMinPower_End ==
    /\ sweep = "power"
    /\ regCopy' = [regCopy EXCEPT ![cbc].own = original.own, ![cbc].shared = original.shared,
                                  ![cbc].clk = TRUE]
    /\ regs' = regCopy'
    /\ sweep' = "idle"
    /\ UNCHANGED <<sweeper, triggers, cbc, before, biasing, stubbing, counting>>

(* cleanup() and exit(1), when an instrument does not answer. *)
InstrumentFails ==
    /\ sweeper = "BiasSweep" /\ sweep \in {"sweep", "single", "stop", "power"}
    /\ sweep = "sweep" => bias # "VCth"
    /\ sweep' = "exit"
    /\ UNCHANGED <<sweeper, triggers, cbc, regs, regCopy, before, biasing, stubbing, counting>>

(* The next chip. *)
NextCbc ==
    /\ sweeper = "BiasSweep" /\ sweep = "idle" /\ cbc < SweepCbc
    /\ cbc' = cbc + 1
    /\ UNCHANGED <<sweeper, triggers, sweep, regs, regCopy, before, biasing, stubbing, counting>>
-----------------------------------------------------------------------------
(* findChannelsInTestGroup(): in pairs, as far as there are channels. *)
findChannelsInTestGroup(g) ==
    {ch \in Channels : \E k \in Idx : ch - (2 * NGroupsStub * k + 2 * g) \in {1, 2}}
Pair(g, k) == {ch \in Channels : ch - (2 * NGroupsStub * k + 2 * g) \in {1, 2}}
MaskOf(g, k) == (Min(Pair(g, k)) - 1) \div MaskWidth
cNumberOfPairs(g) == Cardinality({k \in Idx : Pair(g, k) # {}})

(* Initialize() masks all channels of all chips. *)
maskAllChannels ==
    /\ sweep = "mask"
    /\ regs' = [c \in 1 .. SweepCbc |-> [regs[c] EXCEPT !.mask = [m \in Masks |-> {}]]]
    /\ regCopy' = regs' /\ sweep' = "cbc"
    /\ UNCHANGED <<sweeper, triggers, cbc, before, biasing, stubbing, counting>>

(* configureTestPulse(pCbc, 1), and the first group. *)
configureTestPulse ==
    /\ sweep = "cbc"
    /\ Write([Here EXCEPT !.Amux.pulse = TRUE])
    /\ stubGroup' = 0 /\ sweep' = "group"
    /\ UNCHANGED <<sweeper, triggers, cbc, before, biasing, pair, cCounter, counting>>

SetTestGroup_Stub ==
    /\ sweep = "group"
    /\ Write([Here EXCEPT !.group = stubGroup])
    /\ pair' = 0 /\ sweep' = "unmask"
    /\ UNCHANGED <<sweeper, triggers, cbc, before, biasing, stubGroup, cCounter, counting>>

(* The mask register of a pair gets its two channels. *)
UnmaskPair ==
    LET m == MaskOf(stubGroup, pair) IN
    /\ sweep = "unmask"
    /\ original' = regCopy[cbc]
    /\ Write([Here EXCEPT !.mask[m] = Pair(stubGroup, pair)])
    /\ cCounter' = 0 /\ sweep' = "events"
    /\ UNCHANGED <<sweeper, triggers, cbc, before, bias, cBias, fStepSize, stubGroup, pair, counting>>

(* Events are read until the stub is at the second channel of the pair, so *)
(* many times at most.                                                     *)
ReadStub ==
    /\ sweep = "events"
    /\ cCounter' = cCounter + 1
    /\ \E right \in BOOLEAN :
          sweep' = IF right \/ cCounter' >= fReadBackAttempts THEN "remask" ELSE "events"
    /\ UNCHANGED <<sweeper, triggers, cbc, regs, regCopy, before, biasing, stubGroup, pair, counting>>

(* Faulty variant: the register of the first pair is written back. *)
Masked_First == [Here EXCEPT !.mask[MaskOf(stubGroup, 0)] = original.mask[MaskOf(stubGroup, 0)]]
(* The mask register as it was. *)
Masked == LET m == MaskOf(stubGroup, pair) IN [Here EXCEPT !.mask[m] = original.mask[m]]
RemaskPair ==
    /\ sweep = "remask"
    /\ Write(Masked)
    /\ IF pair + 1 < cNumberOfPairs(stubGroup)
       THEN pair' = pair + 1 /\ sweep' = "unmask" /\ UNCHANGED stubGroup
       ELSE /\ UNCHANGED pair
            /\ IF stubGroup + 1 < NGroupsStub
               THEN stubGroup' = stubGroup + 1 /\ sweep' = "group"
               ELSE sweep' = "leave" /\ UNCHANGED stubGroup
    /\ UNCHANGED <<sweeper, triggers, cbc, before, biasing, cCounter, counting>>

(* configureTestPulse(pCbc, 0) ORs a zero into the register. *)
LeaveCbc ==
    /\ sweep = "leave"
    /\ Write([Here EXCEPT !.Amux.pulse = @ \/ FALSE])
    /\ IF cbc < SweepCbc THEN cbc' = cbc + 1 /\ sweep' = "cbc"
                         ELSE sweep' = "swept" /\ UNCHANGED cbc
    /\ UNCHANGED <<sweeper, triggers, before, biasing, stubbing, counting>>
-----------------------------------------------------------------------------
(* ScanNoiseChannels(): a strip whose occupancy, in quarters here, is more *)
(* than half the mean away from it is noisy.  The loop begins with the     *)
(* underflow bin, which stands for strip -1, and ends before the last.     *)
ScanNoiseChannels ==
    /\ sweeper = "CMTester" /\ sweep = "idle" /\ events = 0 /\ fNoiseStrips = {}
    /\ \E content \in [0 .. Strips - 1 -> {0, 1, 4}] :
          LET sum == MapThenSumSet(LAMBDA s : content[s], 0 .. Strips - 1)
              away(v) == 2 * Strips * (IF Strips * v > sum THEN v ELSE 0) > 3 * sum
                         \/ 2 * Strips * v < sum
          IN fNoiseStrips' = {s \in -1 .. Strips - 2 : away(IF s = -1 THEN 0 ELSE content[s])}
    /\ UNCHANGED <<sweeper, triggers, sweep, cbc, regs, regCopy, before, biasing, stubbing, occupancy,
                   plusminus, events>>

isMasked(s) == s \in fNoiseStrips
(* The pairs of strips that enter the projections. *)
Pairs_Strips ==
    {p \in (0 .. Strips - 1) \X (0 .. Strips - 1) : ~isMasked(p[1]) /\ ~isMasked(p[2])}

(* TakeData() and analyze(): for each pair whether both strips have hits.  *)
analyze ==
    /\ sweeper = "CMTester" /\ sweep = "idle" /\ events < MaxEvents
    /\ events' = events + 1
    /\ \E hit \in SUBSET (0 .. Strips - 1) :
       LET both(p) == p[1] \in hit /\ p[2] \in hit
           more(S) == <<Cardinality({p \in S : both(p)}), Cardinality(S)>>
           plus(old, S) == <<old[1] + more(S)[1], old[2] + more(S)[2]>>
       IN /\ occupancy' = [d \in DOMAIN occupancy |->
                 plus(occupancy[d], {p \in Pairs_Strips : p[1] - p[2] = d})]
          /\ plusminus' = [d \in DOMAIN plusminus |->
                 plus(plusminus[d], {p \in Pairs_Strips : p[1] - p[2] \in {d, -d}})]
    /\ UNCHANGED <<sweeper, triggers, sweep, cbc, regs, regCopy, before, biasing, stubbing,
                   fNoiseStrips>>

SweepNext == \/ SweepBias \/ measureSingle \/ SweepBias_End \/ sweep8Bit \/ sweep8Bit_End \/ sweepVCth \/ sweepVCth_Back
             \/ resetAmux \/ MeasureMinPower \/ MeasureMinPower_End \/ InstrumentFails
             \/ NextCbc \/ maskAllChannels \/ configureTestPulse \/ SetTestGroup_Stub
             \/ UnmaskPair \/ ReadStub \/ RemaskPair \/ LeaveCbc \/ ScanNoiseChannels
             \/ analyze
-----------------------------------------------------------------------------
(* While StubSweep takes events no channel but the two of its pair, both of*)
(* the pulsed group, is unmasked, in any chip.                             *)
OnlyThePair ==
    sweep = "events" =>
        /\ Out(regs[cbc].mask) = Pair(stubGroup, pair)
        /\ Out(regs[cbc].mask) \subseteq findChannelsInTestGroup(regs[cbc].group)
        /\ regs[cbc].Amux.pulse
        /\ \A c \in 1 .. SweepCbc : c # cbc => Out(regs[c].mask) = {}
-----------------------------------------------------------------------------
SweepSpec == InitSweep /\ [][SweepNext]_sweepVars

(* The inductive invariant of OnlyThePair: all masks are empty but the one *)
(* that the pair is in while its events are taken.                         *)
AllMasked  == [m \in Masks |-> {}]
PairAlone  == [m \in Masks |-> IF m = MaskOf(stubGroup, pair) THEN Pair(stubGroup, pair) ELSE {}]
StubSteps  == {"cbc", "group", "unmask", "events", "remask", "leave"}
InGroup    == sweep \in {"unmask", "events", "remask"}
PairIsOut  == sweep \in {"events", "remask"}

ChipRegisters == [Amux : [pulse : BOOLEAN, mux : {"none"}], own : {0, Top}, shared : {Top - 1},
                  VCth : {0, Top}, clk : {TRUE}, group : Nat, mask : [Masks -> SUBSET Channels]]

StubInv ==
    /\ sweeper = "StubSweep" => regs \in [1 .. SweepCbc -> ChipRegisters] /\ original \in ChipRegisters
    /\ sweep \in StubSteps \cup {"mask"} => sweeper = "StubSweep"
    /\ sweeper = "StubSweep" => sweep \in StubSteps \cup {"mask", "swept"} /\ regCopy = regs
    /\ cbc \in 1 .. SweepCbc
    /\ sweep \in StubSteps =>
          \A c \in 1 .. SweepCbc :
             regs[c].mask = IF c = cbc /\ PairIsOut THEN PairAlone ELSE AllMasked
    /\ sweep \in StubSteps \ {"cbc"} => regs[cbc].Amux.pulse /\ stubGroup \in 0 .. NGroupsStub - 1
    /\ InGroup => /\ regs[cbc].group = stubGroup
                  /\ pair \in Idx /\ Pair(stubGroup, pair) # {}
    /\ PairIsOut => original.mask = AllMasked

=============================================================================
