------------------------------ MODULE MCOutbox ------------------------------
(***************************************************************************)
(* Outbox with emitters that are all alike.                                *)
(***************************************************************************)
EXTENDS Outbox

EmitterSymmetry == Permutations(Emitters)

=============================================================================
