----------------------------- MODULE RawDataLog -----------------------------
(***************************************************************************)
(* What a raw-data file promises to the acquisition that fills it: blocks  *)
(* are accepted in some order and reach the file in exactly that order,    *)
(* each at most once.  A file may end early, with accepted blocks that     *)
(* never reach it, but then nothing later reaches it either.  Opening the  *)
(* file again for writing truncates it.                                    *)
(***************************************************************************)
EXTENDS Sequences, Naturals

CONSTANT Payload        (* the data blocks an acquisition can hand over *)

VARIABLES accepted,     (* every block handed over so far, in order     *)
          stored,       (* the blocks the file holds                    *)
          ended         (* no block will be stored any more             *)

vars == <<accepted, stored, ended>>

Init == accepted = <<>> /\ stored = <<>> /\ ended = FALSE

Accept == /\ \E d \in Payload : accepted' = Append(accepted, d)
          /\ UNCHANGED <<stored, ended>>

(* Several accepted blocks may become visible in the file at once. *)
Store == /\ ~ended
         /\ \E n \in Len(stored) + 1 .. Len(accepted) :
               stored' = SubSeq(accepted, 1, n)
         /\ UNCHANGED <<accepted, ended>>

(* The last buffered block may reach the file in the step that ends it. *)
End == /\ ~ended
       /\ ended' = TRUE
       /\ \E n \in Len(stored) .. Len(accepted) :
             stored' = SubSeq(accepted, 1, n)
       /\ UNCHANGED accepted

Truncate == /\ ended
            /\ stored' = <<>>
            /\ UNCHANGED <<accepted, ended>>

Next == Accept \/ Store \/ End \/ Truncate

Spec == Init /\ [][Next]_vars
=============================================================================
