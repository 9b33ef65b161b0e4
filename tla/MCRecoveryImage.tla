------------------------- MODULE MCRecoveryImage -------------------------
(* Two printers with eMMCs of the same size, the hard case: only the       *)
(* machine identity tells them apart.                                      *)
EXTENDS RecoveryImage, TLC

CONSTANTS m1, m2

MCSize == [m \in Machines |-> 2]
MCSymmetry == Permutations(Machines)
=============================================================================
