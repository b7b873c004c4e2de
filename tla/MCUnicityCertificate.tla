------------------------- MODULE MCUnicityCertificate -------------------------
(* UnicityCertificate with interchangeable state, block and record values.   *)
EXTENDS UnicityCertificate, TLC

MCSymmetry == Permutations(States)
                \cup Permutations(Blocks) \cup Permutations(Rest)
===============================================================================
