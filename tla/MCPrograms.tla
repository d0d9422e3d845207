---------------------------- MODULE MCPrograms ----------------------------
(* Instances for TLC of the programs with threads of their own: one that   *)
(* configures the FPGA of a board with an SD card, one that configures the *)
(* FPGA of a GLIB board, and the irradiation test.                         *)
EXTENDS FpgaConfig, GlibFpgaConfig, Watchdog

VARIABLE program
vars == <<program, sdVars, glibVars, dogVars>>

AllSd == {"CTA", "D19C"}
AllGlib == {"GLIB"}
Init == /\ InitFpgaConfig /\ InitGlib /\ InitDog
        /\ program \in {"sd", "glib", "irrad"}
        /\ program # "sd" => board = "CTA"
        /\ program # "irrad" => ~full

InSd(A)    == program = "sd" /\ A /\ UNCHANGED <<program, glibVars, dogVars>>
InGlib(A)  == program = "glib" /\ A /\ UNCHANGED <<program, sdVars, dogVars>>
InIrrad(A) == program = "irrad" /\ A /\ UNCHANGED <<program, sdVars, glibVars>>
Next == InSd(SdNext) \/ InGlib(GlibNext) \/ InIrrad(DogNext)
Spec == Init /\ [][Next]_vars
=============================================================================
