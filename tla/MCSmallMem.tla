------------------------------ MODULE MCSmallMem ------------------------------
(* Instances of SmallMem with the sizes of the 32-bit build.               *)
EXTENDS SmallMem, TLC

CONSTANTS c1, c2

MCSymmetry == Permutations({c1, c2})

=============================================================================
