------------------------------- MODULE MCVesa --------------------------------
(* Vesa for TLC.  The numbers of the modes are compared for equality only: *)
(* permuting them maps behaviours to behaviours.                           *)
EXTENDS Vesa, TLC

ModeSymmetry == Permutations(Mode)

=============================================================================
