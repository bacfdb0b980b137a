----------------------------- MODULE MCPackaging -----------------------------
(* A small instance of Packaging for TLC: two code files, which are alike. *)
EXTENDS Packaging, TLC
CONSTANTS engineFile, serverFile
CodeSymmetry == Permutations({engineFile, serverFile})
=============================================================================
