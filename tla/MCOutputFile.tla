----------------------------- MODULE MCOutputFile ----------------------------
(***************************************************************************)
(* Two runs of spm on one output path.                                     *)
(***************************************************************************)
EXTENDS OutputFile, TLC

CONSTANTS w1, w2

MCWriter == {w1, w2}
Symmetry == Permutations(MCWriter)
=============================================================================
