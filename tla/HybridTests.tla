---------------------------- MODULE HybridTests ----------------------------
(***************************************************************************)
(* The programs that test a hybrid, hybridtest with tools/HybridTester and *)
(* integratedtester with RegisterTester, ShortFinder, HybridTester and     *)
(* AntennaTester: the registers are written with two patterns and read     *)
(* back, each test group is pulsed to find pads that are shorted, the      *)
(* occupancy of the pads is measured.                                      *)
(*                                                                         *)
(* The hybrid is external: wires join pads, some go to ground, and a pad   *)
(* fires when a pad it is joined with is pulsed.  A chip whose registers   *)
(* hold test patterns fires as it likes.  A register stands for all of its *)
(* kind, its value for where it came from.  There is one board.            *)
(***************************************************************************)
EXTENDS Integers, FiniteSetsExt, SequencesExt, TLC

CONSTANTS Hybrids,      (* [wires, ground]: pairs of pads, pads            *)
          HybridCbc,    (* the number of chips                             *)
          PadsOfCbc,    (* pads of a chip on each side, 127 in the code    *)
          NGroups,      (* test groups, 8 in the code                      *)
          Reach,        (* smallest_distance at the start, 10000           *)
          MaxNumShorts  (* cMaxNumShorts, 10                               *)

ASSUME HybridAssumption ==
    {HybridCbc, PadsOfCbc, NGroups, Reach} \subseteq Nat \ {0} /\ MaxNumShorts \in Nat

VARIABLES
    hybrid,    (* the wires and the ground, the same throughout            *)
    fails,     (* the patterns that registers cannot hold, likewise        *)
    tester,    (* which program                                            *)
    plan,      (* the tests still to do                                    *)
    test,      (* the test that runs, or "none", "stopped"                 *)
    reg, copy, (* the chips' registers and what the software knows of them *)
    fBadRegisters,
    group,     (* the test group that comes next                           *)
    fired,     (* the histograms of FindShorts(): pads with most events    *)
    cShortedGroupsArray, cGroundedChannelsList,
    fNShorts, shorts, (* connections found, and the shorts they make up    *)
    noisy      (* fNoisyChannels of either side                            *)

hybridVars == <<hybrid, fails, tester, plan, test, reg, copy, fBadRegisters, group,
                fired, cShortedGroupsArray, cGroundedChannelsList, fNShorts, shorts, noisy>>
setting == <<hybrid, fails, tester>>
finder  == <<group, fired, cShortedGroupsArray, cGroundedChannelsList>>

Cbcs      == 0 .. HybridCbc - 1
Registers == {"VCth", "Offset", "TestPulse", "ChanGroup"}
Garbage   == {"0xAA", "0x55", "stuck"}
TestGroup == 0 .. NGroups - 1
Pads      == {0, 1} \X (0 .. HybridCbc * PadsOfCbc - 1)
GroupOf(p) == (p[2] % PadsOfCbc) % NGroups
CbcOf(p)   == p[2] \div PadsOfCbc
InOrder(S) == LET place(p) == 2 * p[2] + p[1] IN
    [k \in 1 .. Cardinality(S) |->
        CHOOSE p \in S : Cardinality({q \in S : place(q) < place(p)}) = k - 1]

(* Pads joined with a pad (the hybrid, external). *)
Joined(p) ==
    LET reach[n \in Nat] == IF n = 0 THEN {p}
            ELSE reach[n - 1] \cup UNION {w \in hybrid.wires : w \cap reach[n - 1] # {}}
    IN reach[Cardinality(hybrid.wires)]
Grounded(p) == Joined(p) \cap hybrid.ground # {}
InShape(c)  == /\ reg[c]["VCth"] = "moved" /\ reg[c]["TestPulse"] = "on"
               /\ {reg[c]["Offset"], reg[c]["ChanGroup"]} \cap Garbage = {}
(* Pads that fire in most events when each chip pulses the group that its  *)
(* register holds (external).                                              *)
Response(registers) ==
    LET sound  == {p \in Pads : InShape(CbcOf(p))}
        pulsed == {q \in sound : registers[CbcOf(q)]["ChanGroup"] = ToString(GroupOf(q))} IN
    {wild \cup {p \in sound : ~Grounded(p) /\ Joined(p) \cap pulsed # {}}
        : wild \in {{}, Pads \ sound}}

(* A register that fails a pattern holds no value reliably. *)
Held(c, r, v) == IF fails[c][r] = {} THEN v ELSE "stuck"

(* hybridtest's and integratedtester's tests, in the order of their main().*)
HybridPlan(options) ==
    SelectSeq(<<"antenna">>, LAMBDA t : t \in options)
    \o (IF options \cap {"antenna", "registers", "shorts"} = {} THEN <<"occupancy">> ELSE <<>>)
    \o SelectSeq(<<"registers", "shorts">>, LAMBDA t : t \in options)
    \o (IF "calibrate" \in options THEN <<"calibrate", "occupancy">> ELSE <<>>)
Calibrates(options, t) == IF t \notin options THEN <<>>
                          ELSE IF "calibrate" \in options THEN <<t>> ELSE <<"calibrate", t>>
IntegratedPlan(options) ==
    SelectSeq(<<"registers", "calibrate">>, LAMBDA t : t \in options)
    \o Calibrates(options, "shorts") \o Calibrates(options, "occupancy")
    \o Calibrates(options, "antenna")

InitHybrid ==
    /\ hybrid \in Hybrids
    /\ fails \in {[c \in Cbcs |-> [r \in Registers |->
                     IF c = k /\ r = s THEN F ELSE {}]]
                   : k \in Cbcs, s \in Registers, F \in SUBSET {"0xAA", "0x55"}}
    /\ tester \in {"hybrid", "integrated"}
    /\ \E options \in SUBSET {"registers", "calibrate", "shorts", "occupancy", "antenna"} :
          plan = IF tester = "hybrid" THEN HybridPlan(options) ELSE IntegratedPlan(options)
    /\ test = "none"
    /\ copy = [c \in Cbcs |-> [r \in Registers |-> "file"]]
    /\ reg = [c \in Cbcs |-> [r \in Registers |-> Held(c, r, "file")]]
    /\ fBadRegisters = {} /\ group = 0 /\ fired = {}
    /\ cShortedGroupsArray = [g \in TestGroup |-> <<>>] /\ cGroundedChannelsList = {}
    /\ fNShorts = 0 /\ shorts = <<>> /\ noisy = {}

(* A write of every chip, value by register, and the software's copy. *)
WriteAll(value(_, _)) ==
    /\ copy' = [c \in Cbcs |-> [r \in Registers |-> value(c, r)]]
    /\ reg' = [c \in Cbcs |-> [r \in Registers |-> Held(c, r, value(c, r))]]
(* ConfigureHw(): the copies are written to the chips. *)
ConfigureHw == WriteAll(LAMBDA c, r : copy[c][r])
-----------------------------------------------------------------------------
(* The next test of the program begins; integratedtester's tools, but for  *)
(* the register test and the calibration, configure the chips first.       *)
Begin ==
    /\ test = "none" /\ plan # <<>>
    /\ test' = Head(plan) /\ plan' = Tail(plan)
    /\ IF tester = "integrated" /\ Head(plan) \in {"shorts", "occupancy", "antenna"}
       THEN ConfigureHw ELSE UNCHANGED <<reg, copy>>
    /\ group' = 0
    /\ fBadRegisters' = IF Head(plan) = "registers" THEN {} ELSE fBadRegisters
    /\ UNCHANGED <<setting, fired, cShortedGroupsArray, cGroundedChannelsList, fNShorts,
                   shorts, noisy>>

(* What the software's copy holds of a register after both patterns: the   *)
(* last that could be read back.                                           *)
KeptCopy(c, r) == IF "0x55" \notin fails[c][r] THEN "0x55"
              ELSE IF "0xAA" \notin fails[c][r] THEN "0xAA" ELSE copy[c][r]

(* TestRegisters(): every register of every chip is written with 0xAA and  *)
(* 0x55 and read back.                                                     *)
TestRegisters ==
    /\ test = "registers"
    /\ WriteAll(KeptCopy)
    /\ fBadRegisters' = {<<c, r>> \in Cbcs \X Registers : fails[c][r] # {}}
    /\ test' = "tested"
    /\ UNCHANGED <<setting, plan, finder, fNShorts, shorts, noisy>>

(* HybridTester goes on with ConfigureHw(). *)
TestedHybrid ==
    /\ test = "tested" /\ tester = "hybrid"
    /\ ConfigureHw
    /\ test' = "none"
    /\ UNCHANGED <<setting, plan, fBadRegisters, finder, fNShorts, shorts, noisy>>

(* ReconfigureRegisters(): a hard reset, and the defaults of the mode from *)
(* their file.                                                             *)
ReconfigureRegisters == WriteAll(LAMBDA c, r : "default")

(* check_Registers(): the program stops when a register failed. *)
TestedIntegrated ==
    /\ test = "tested" /\ tester = "integrated"
    /\ ReconfigureRegisters
    /\ test' = IF fBadRegisters = {} THEN "none" ELSE "stopped"
    /\ UNCHANGED <<setting, plan, fBadRegisters, finder, fNShorts, shorts, noisy>>

(* perform_Calibration() finds the threshold and the offsets, hybridtest's *)
(* ScanThreshold() the threshold only.                                     *)
perform_Calibration ==
    /\ test = "calibrate"
    /\ WriteAll(LAMBDA c, r : IF r = "VCth" \/ (r = "Offset" /\ tester = "integrated")
                             THEN "calibrated" ELSE copy[c][r])
    /\ test' = "none"
    /\ UNCHANGED <<setting, plan, fBadRegisters, finder, fNShorts, shorts, noisy>>

(* Measure() and ClassifyChannels(): the loop ends before the last bin, and*)
(* the bin, one more than the pad, is listed.                              *)
Measure ==
    /\ test = "occupancy"
    /\ \E hot \in {{}, Pads} :
          noisy' = noisy \cup {<<p[1], p[2] + 1>> : p \in
                       {q \in hot : q[2] + 1 < HybridCbc * PadsOfCbc}}
    /\ test' = "none"
    /\ UNCHANGED <<setting, plan, reg, copy, fBadRegisters, finder, fNShorts, shorts>>

(* AntennaScan() of hybridtest: pads fire in turn, nothing is written. *)
AntennaScan ==
    /\ test = "antenna" /\ tester = "hybrid"
    /\ test' = "none"
    /\ UNCHANGED <<setting, plan, reg, copy, fBadRegisters, finder, fNShorts, shorts, noisy>>

(* perform_AntennaOccupancyMeasurement() writes the threshold first.       *)
ConfigureVcth(v) == WriteAll(LAMBDA c, r : IF r = "VCth" THEN v ELSE copy[c][r])
AntennaMeasure ==
    /\ test = "antenna" /\ tester = "integrated"
    /\ ConfigureVcth("0x78")
    /\ test' = "none"
    /\ UNCHANGED <<setting, plan, fBadRegisters, finder, fNShorts, shorts, noisy>>
-----------------------------------------------------------------------------
(* Test pulses of group 0, and the threshold of the last chip moved out of *)
(* the noise, for all chips: the same in both programs.                    *)
SetBeBoardForShortsFinding ==
    LET read == copy[HybridCbc - 1]["VCth"]
        moved == IF read \in Garbage THEN read ELSE "moved" IN
    WriteAll(LAMBDA c, r : CASE r = "VCth" -> moved [] r = "TestPulse" -> "on"
                             [] r = "ChanGroup" -> ToString(0) [] OTHER -> copy[c][r])
SetBeBoard ==
    /\ test = "shorts"
    /\ SetBeBoardForShortsFinding
    /\ test' = "pulse"
    /\ UNCHANGED <<setting, plan, fBadRegisters, finder, fNShorts, shorts, noisy>>

(* The group goes into the register of every chip. *)
SetTestGroup(g) == WriteAll(LAMBDA c, r : IF r = "ChanGroup" THEN ToString(g) ELSE copy[c][r])

(* One turn of FindShorts()' loop: the group is set, and events are taken. *)
ReadGroup ==
    /\ test = "pulse" /\ group < NGroups
    /\ SetTestGroup(group)
    /\ \E pads \in Response(reg') : fired' = fired \cup pads
    /\ test' = "judge"
    /\ UNCHANGED <<setting, plan, fBadRegisters, group, cShortedGroupsArray,
                   cGroundedChannelsList, fNShorts, shorts, noisy>>

Cleared == {}

(* The pads of other groups that fired, in their order, and those of this  *)
(* group that did not.                                                     *)
JudgeGroup ==
    /\ test = "judge"
    /\ cShortedGroupsArray' =
          [cShortedGroupsArray EXCEPT ![group] =
              LET pads == InOrder({p \in fired : GroupOf(p) # group}) IN
              [k \in DOMAIN pads |-> [pad |-> pads[k], pulsed |-> group]]]
    /\ cGroundedChannelsList' = cGroundedChannelsList
                                \cup {p \in Pads \ fired : GroupOf(p) = group}
    /\ fired' = Cleared
    /\ group' = group + 1 /\ test' = "pulse"
    /\ UNCHANGED <<setting, plan, reg, copy, fBadRegisters, fNShorts, shorts, noisy>>

cross_side_punishment == 2
Distance(p, q) == cross_side_punishment * (p[1] - q[1]) * (p[1] - q[1])
                  + (p[2] - q[2]) * (p[2] - q[2])

(* Faulty variant: the candidate stays and is paired once more. *)
Paired_KeepCandidate(s, e) ==
    LET list  == s.groups[GroupOf(e.pad)]
        match == {i \in DOMAIN list : GroupOf(list[i].pad) = e.pulsed
                                      /\ Distance(e.pad, list[i].pad) < Reach} IN
    IF match = {} THEN s
    ELSE LET dist(i) == Distance(e.pad, list[i].pad)
             best == Min({i \in match : \A j \in match : dist(i) <= dist(j)})
         IN [s EXCEPT !.pairs = Append(@, {e.pad, list[best].pad})]

(* One turn of ReconstructShorts()' inner loop: an entry is paired with the*)
(* nearest one that fired when its own group was pulsed, and that one is   *)
(* removed.                                                                *)
Paired(s, e) ==
    LET list  == s.groups[GroupOf(e.pad)]
        match == {i \in DOMAIN list : GroupOf(list[i].pad) = e.pulsed
                                      /\ Distance(e.pad, list[i].pad) < Reach} IN
    IF match = {} THEN s
    ELSE LET dist(i) == Distance(e.pad, list[i].pad)
             best == Min({i \in match : \A j \in match : dist(i) <= dist(j)})
         IN [groups |-> [s.groups EXCEPT ![GroupOf(e.pad)] = RemoveAt(@, best)],
             pairs  |-> Append(s.pairs, {e.pad, list[best].pad})]

(* Each group is copied when its turn comes. *)
Pairs == FoldLeft(LAMBDA s, g : FoldLeft(Paired, s, s.groups[g]),
                  [groups |-> cShortedGroupsArray, pairs |-> <<>>],
                  [k \in 1 .. NGroups |-> k - 1]).pairs

CheckShortsConnection(a, b) == a \cap b # {}
(* MergeShorts(): from the last on, a connection goes into the highest     *)
(* lower one that shares a pad with it.                                    *)
MergeShorts(list, index) ==
    LET shares == {j \in 1 .. index - 1 : CheckShortsConnection(list[index], list[j])} IN
    IF shares = {} THEN list
    ELSE RemoveAt([list EXCEPT ![Max(shares)] = @ \cup list[index]], index)

ReconstructShorts ==
    /\ test = "pulse" /\ group = NGroups
    /\ fNShorts' = Len(Pairs)
    /\ shorts' = FoldLeft(MergeShorts, Pairs,
                          [k \in 1 .. Len(Pairs) - 1 |-> Len(Pairs) + 1 - k])
    /\ test' = "found"
    /\ UNCHANGED <<setting, plan, reg, copy, fBadRegisters, finder, noisy>>

(* check_Shorts(): integratedtester stops when there are too many. *)
FoundShorts ==
    /\ test = "found"
    /\ test' = IF tester = "integrated" /\ fNShorts > MaxNumShorts THEN "stopped" ELSE "none"
    /\ UNCHANGED <<setting, plan, reg, copy, fBadRegisters, finder, fNShorts, shorts, noisy>>

HybridNext == \/ Begin \/ TestRegisters \/ TestedHybrid \/ TestedIntegrated
              \/ perform_Calibration \/ Measure \/ AntennaScan \/ AntennaMeasure \/ SetBeBoard \/ ReadGroup
              \/ JudgeGroup \/ ReconstructShorts \/ FoundShorts
-----------------------------------------------------------------------------
Classes == {Joined(p) : p \in {q \in UNION hybrid.wires : ~Grounded(q)}}
(* Shorts that the pulses tell apart: no two pads of a group in one, no two*)
(* groups that two of them have in common, and all pads within reach.      *)
Distinct ==
    /\ \A C \in Classes : \A p, q \in C : p # q => GroupOf(p) # GroupOf(q)
                                                   /\ Distance(p, q) < Reach
    /\ \A C, D \in Classes : C # D =>
          Cardinality({GroupOf(p) : p \in C} \cap {GroupOf(p) : p \in D}) < 2

(* What FindShorts() reports is there: with chips that hold what it wrote, *)
(* every pad reported is shorted to another one.  Shorts the pulses can    *)
(* tell apart are reported as they are, each once, and the number that     *)
(* check_Shorts() decides by is that of the shorted pairs.                 *)
ShortsReported ==
    (test = "found" /\ \A c \in Cbcs : InShape(c)) =>
        /\ UNION Range(shorts) \subseteq UNION Classes
        /\ Distinct =>
              /\ Range(shorts) = Classes /\ Len(shorts) = Cardinality(Classes)
              /\ 2 * fNShorts = MapThenSumSet(
                    LAMBDA C : Cardinality(C) * (Cardinality(C) - 1), Classes)

=============================================================================
