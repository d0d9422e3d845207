------------------------------ MODULE MCTools ------------------------------
(* Instances for TLC of the tests of a hybrid, the scans and the sweeps.   *)
EXTENDS HybridTests, ScanTools, SweepTools

VARIABLE program
vars == <<program, hybridVars, scanVars, sweepVars>>

(* Hybrids with up to three wires among seven of the pads.                 *)
Wired   == {<<0, 0>>, <<0, 1>>, <<1, 1>>, <<0, 2>>, <<0, 3>>, <<1, 4>>, <<0, 5>>}
Wires   == {{p, q} : p, q \in Wired} \ {{p} : p \in Wired}
Shorted == UNION {kSubset(n, Wires) : n \in 0 .. 2}
           \cup {W \in kSubset(3, Wires) : Cardinality(UNION W) < 5}
AllHybrids == {[wires |-> W, ground |-> G] : W \in Shorted, G \in {{}, {<<0, 1>>}, {<<0, 4>>}}}

(* Many wires come with the search for shorts alone, bad registers and     *)
(* long plans with few wires.                                              *)
Simple == /\ Cardinality(hybrid.wires) < 2
          /\ UNION hybrid.wires \subseteq {<<0, 0>>, <<0, 1>>, <<0, 3>>}
Sound  == \A c \in Cbcs, r \in Registers : fails[c][r] = {}
Init == /\ program \in {"hybrid", "scan", "sweep"}
        /\ program # "hybrid" => /\ hybrid = [wires |-> {}, ground |-> {}]
                                 /\ tester = "hybrid" /\ plan = <<"shorts">>
        /\ program # "scan"   => tool = "ScanThresholds" /\ fHoleMode = FALSE
        /\ program # "sweep"  => sweeper = "CMTester"
        /\ InitHybrid
        /\ IF Simple THEN hybrid.ground = {} \/ Sound
                     ELSE Sound /\ tester = "hybrid" /\ plan = <<"shorts">>
        /\ program # "hybrid" => Sound
        /\ InitScan
        /\ InitSweep
        /\ sweeper # "BiasSweep" => fStepSize = 1 /\ regs[1].own = 0 /\ ~regs[1].Amux.pulse

InHybrid(A) == program = "hybrid" /\ A /\ UNCHANGED <<program, scanVars, sweepVars>>
InScan(A)   == program = "scan" /\ A /\ UNCHANGED <<program, hybridVars, sweepVars>>
InSweep(A)  == program = "sweep" /\ A /\ UNCHANGED <<program, hybridVars, scanVars>>
Next == InHybrid(HybridNext) \/ InScan(ScanNext) \/ InSweep(SweepNext)
FairSpec == Init /\ [][Next]_vars /\ WF_vars(InScan(Trigger)) /\ WF_vars(InScan(ScanStep))

(* Every scan whose loops fit their counters ends. *)
Ends == program = "scan" => ScanEnds
=============================================================================
