-------------------------- MODULE MCBundleTransfer --------------------------
(* Bounds for BundleTransfer: the receivers are interchangeable.           *)
EXTENDS BundleTransfer, TLC

CONSTANTS r1, r2, r3

MCSymmetry == Permutations({r1, r2, r3})

=============================================================================
